--------------------------- MODULE SessionRefines ---------------------------
(* Session, seen from the callers of AgentClient.call, is a RemoteCall.      *)
EXTENDS Session

Promise == INSTANCE RemoteCall WITH
  Repeatable <- Idempotent \cup Large,
  holder <- cur

\* With calls that are never cancelled, all the machinery of connections,
\* handshakes, retries, timeouts and restarts implements the promise: a call
\* that is answered ran (once, unless it may be repeated) before its answer, one
\* reported as not sent never runs, and only an undecided one may run later.
KeepsPromise == Promise!Spec
=============================================================================
