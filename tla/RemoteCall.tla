----------------------------- MODULE RemoteCall -----------------------------
(***************************************************************************)
(* What AgentClient.call promises its callers, with no connection, frame,  *)
(* retry or restart in sight: one call at a time holds the line, the agent *)
(* may run it, and its caller is told something about it that stays true.  *)
(***************************************************************************)
EXTENDS Naturals

CONSTANTS
  Calls,          \* invocations
  NoCall,         \* the absence of one
  Repeatable,     \* calls the client may make the agent run again
  FireAndForget   \* calls for which a lost console counts as success

VARIABLES
  holder,   \* the call in progress
  outcome,  \* what each caller was told
  applied   \* how often each call ran

vars == <<holder, outcome, applied>>

Init ==
  /\ holder = NoCall
  /\ outcome = [k \in Calls |-> "none"]
  /\ applied = [k \in Calls |-> 0]

\* Outcomes that leave open whether the call ran, or still will.
Open(k) ==
  \/ k = holder
  \/ outcome[k] \in {"uncertain", "raised", "okNoReply"}
  \/ outcome[k] \in {"unreachable", "denied", "frameTooBig"} /\ k \in Repeatable

Begin(k) ==
  /\ holder = NoCall /\ outcome[k] = "none"
  /\ holder' = k
  /\ UNCHANGED <<outcome, applied>>

\* The agent runs the call: only while its fate is open, and once unless repeatable.
Run(k) ==
  /\ Open(k)
  /\ k \notin Repeatable => applied[k] = 0
  /\ applied' = [applied EXCEPT ![k] = @ + 1]
  /\ UNCHANGED <<holder, outcome>>

\* What the holder may be told.
Reportable(k, o) ==
  \/ o = "ok" /\ applied[k] > 0
  \/ o = "error"
  \/ o \in {"unreachable", "denied", "frameTooBig"} /\ (k \in Repeatable \/ applied[k] = 0)
  \/ o = "uncertain"
  \/ o = "raised"
  \/ o = "okNoReply" /\ k \in FireAndForget

End(k, o) ==
  /\ k = holder /\ Reportable(k, o)
  /\ outcome' = [outcome EXCEPT ![k] = o]
  /\ holder' = NoCall
  /\ UNCHANGED applied

Next == \E k \in Calls :
  \/ Begin(k)
  \/ Run(k)
  \/ \E o \in {"ok", "error", "unreachable", "denied", "uncertain", "raised",
               "okNoReply", "frameTooBig"} : End(k, o)

Spec == Init /\ [][Next]_vars
=============================================================================
