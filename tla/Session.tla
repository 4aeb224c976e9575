------------------------------ MODULE Session ------------------------------
(***************************************************************************)
(* One MCP client (AgentClient, clients/agentd.py) and one console agent   *)
(* (Server, agent/source/server.cpp) exchanging requests over TCP.         *)
(*                                                                         *)
(* The client serialises its calls with a lock, keeps one connection,      *)
(* authenticates each new one and re-sends a lost request only when it     *)
(* believes that is harmless.  The agent serves one connection at a time,  *)
(* one frame at a time.  Between them the link may go dead, the agent may  *)
(* crash or be rebooted by a command, every wait may time out and the      *)
(* caller of a tool may cancel it.                                         *)
(*                                                                         *)
(* A member of Calls is one invocation of AgentClient.call: it happens at  *)
(* most once, and applied[k] counts how often the agent ran its handler.   *)
(* Ids grow along a connection, so a direction of a connection is the SET  *)
(* of its frames and the next one to be read is the one with the least id. *)
(***************************************************************************)
EXTENDS Naturals, FiniteSets

CONSTANTS
  Calls,          \* invocations of AgentClient.call
  NoCall,         \* the absence of a call
  Idempotent,     \* calls of a command listed in IDEMPOTENT_COMMANDS
  FireAndForget,  \* calls of a command listed in FIRE_AND_FORGET
  Large,          \* calls whose payload does not fit the socket at once
  Oversized,      \* calls whose request JSON may exceed MAX_JSON, as their payload has it
  Permitted,      \* calls the agent's tier and opt-ins let through
  RequireHmac,    \* the agent's require_hmac_auth
  MayCancel,      \* callers may cancel a call that is in progress
  Backlog,        \* listen() backlog
  MaxDrops,       \* bound on links that go dead
  MaxCrashes      \* bound on agent crashes (a requested reboot is not one)

ASSUME CallsAssumption ==
  /\ NoCall \notin Calls
  /\ Idempotent \subseteq Calls
  /\ FireAndForget \subseteq Calls \ Idempotent
  /\ Large \subseteq Calls
  /\ Oversized \subseteq Calls
  /\ Permitted \subseteq Calls

ASSUME SwitchesAssumption ==
  /\ RequireHmac \in BOOLEAN
  /\ MayCancel \in BOOLEAN

ASSUME BoundsAssumption ==
  /\ Backlog \in Nat \ {0}
  /\ MaxDrops \in Nat
  /\ MaxCrashes \in Nat

VARIABLES
  \* The client.
  pc,          \* where the holder of the lock is; "idle": nobody holds it
  cur,         \* the call that holds the lock
  attempt,     \* 0 or 1
  conn,        \* the connection behind self._writer, 0 for None
  authMethod,  \* self.auth_method
  id,          \* self._id
  lastConn,    \* number of connections opened so far
  outcome,     \* what each call returned or raised
  answer,      \* the call whose reply each call returned
  \* The sockets.
  toAgent,     \* frames on their way to the agent
  toClient,    \* frames on their way to the client
  closed,      \* connections the client closed
  hungUp,      \* connections the agent closed
  lost,        \* connections that went dead without either side closing
  \* The agent.
  up,          \* the agent runs
  backlog,     \* connections established and not accepted
  serving,     \* the accepted connection, 0 for none
  stage,       \* where the server thread is
  out,         \* the reply computed and not yet written
  goingDown,   \* a power action is scheduled
  applied,     \* how often the handler of each call ran
  \* The environment.
  tokenMatches,  \* both sides hold the same token
  drops, crashes

client  == <<pc, cur, attempt, conn, authMethod, id, lastConn, outcome, answer>>
sockets == <<toAgent, toClient, closed, hungUp, lost>>
agent   == <<up, backlog, serving, stage, out, goingDown, applied>>
env     == <<tokenMatches, drops, crashes>>
vars    == <<client, sockets, agent, env>>

Opening == {"opening", "legacyOpening"}          \* in asyncio.open_connection
Waiting == {"hello", "auth", "legacy", "reading"}  \* in readexactly
Outcomes == {"ok", "error", "denied", "unreachable", "uncertain", "raised",
             "okNoReply", "cancelled", "frameTooBig"}

Request == [conn : Nat, id : Nat, kind : {"hello", "auth", "legacy", "cmd"},
            call : Calls \cup {NoCall}]
Reply   == [conn : Nat, id : Nat,
            kind : {"challenge", "welcome", "denied", "ok", "error"},
            call : Calls \cup {NoCall}]

TypeOK ==
  /\ pc \in {"idle", "send", "draining"} \cup Opening \cup Waiting
  /\ cur \in Calls \cup {NoCall}
  /\ attempt \in {0, 1}
  /\ conn \in Nat
  /\ authMethod \in {"none", "hmac", "legacy"}
  /\ id \in Nat
  /\ lastConn \in Nat
  /\ outcome \in [Calls -> Outcomes \cup {"none"}]
  /\ answer \in [Calls -> Calls \cup {NoCall}]
  /\ toAgent \subseteq Request
  /\ toClient \subseteq Reply
  /\ closed \subseteq Nat
  /\ hungUp \subseteq Nat
  /\ lost \subseteq Nat
  /\ up \in BOOLEAN
  /\ backlog \subseteq Nat
  /\ serving \in Nat
  /\ stage \in {"accept", "hello", "challenged", "ready", "replying"}
  /\ out \subseteq Reply
  /\ goingDown \in BOOLEAN
  /\ applied \in [Calls -> Nat]
  /\ tokenMatches \in BOOLEAN
  /\ drops \in Nat
  /\ crashes \in Nat

Init ==
  /\ pc = "idle" /\ cur = NoCall /\ attempt = 0
  /\ conn = 0 /\ authMethod = "none" /\ id = 0 /\ lastConn = 0
  /\ outcome = [k \in Calls |-> "none"]
  /\ answer = [k \in Calls |-> NoCall]
  /\ toAgent = {} /\ toClient = {}
  /\ closed = {} /\ hungUp = {} /\ lost = {}
  /\ up = TRUE /\ backlog = {} /\ serving = 0 /\ stage = "accept"
  /\ out = {} /\ goingDown = FALSE
  /\ applied = [k \in Calls |-> 0]
  /\ tokenMatches \in BOOLEAN
  /\ drops = 0 /\ crashes = 0

\* The frames of S on connection c, and among those the one the peer reads next.
On(S, c) == {f \in S : f.conn = c}
First(S, c) == {f \in On(S, c) : \A g \in On(S, c) : f.id <= g.id}

\* A frame written to connection f.conn arrives unless the link is dead or the
\* other side has closed.
SentToAgent(f)  == IF f.conn \in lost \cup hungUp THEN toAgent ELSE toAgent \cup {f}
SentToClient(f) == IF f.conn \in lost \cup closed THEN toClient ELSE toClient \cup {f}

-----------------------------------------------------------------------------
(***************************************************************************)
(* The client.                                                             *)
(***************************************************************************)

\* call: the lock is free.  An existing connection is used unless the transport
\* knows it is closing, which it learns from a reset (a dead link it may or may
\* not have noticed) and never from the agent's orderly close.
StartCall(k) ==
  /\ pc = "idle" /\ outcome[k] = "none"
  /\ cur' = k /\ attempt' = 0
  /\ \/ conn = 0 /\ pc' = "opening"
     \/ conn # 0 /\ pc' = "send"
     \/ conn \in lost /\ pc' = "opening"
  /\ UNCHANGED <<conn, authMethod, id, lastConn, outcome, answer, sockets, agent, env>>

\* The call returns or raises o, and releases the lock.
Finish(o) ==
  /\ outcome' = [outcome EXCEPT ![cur] = o]
  /\ pc' = "idle" /\ cur' = NoCall /\ attempt' = 0

\* Mutant of Discard: the connection survives a failed exchange.
DiscardKeepsConnection ==
  UNCHANGED <<conn, closed, toClient>>

\* _discard_connection: self._writer becomes None, the socket is closed and what
\* it had received is dropped.
Discard ==
  /\ conn' = 0
  /\ closed' = closed \cup ({conn} \ {0})
  /\ toClient' = toClient \ On(toClient, conn)

\* Mutant of TransientError: a non-idempotent command is retried like any other.
TransientErrorRetriesAll(sent) ==
  /\ Discard
  /\ \/ attempt = 1 /\ ~sent /\ Finish("unreachable")
     \/ attempt = 1 /\ sent /\ Finish("raised")
     \/ /\ attempt = 0
        /\ attempt' = 1 /\ pc' = "opening"
        /\ UNCHANGED <<cur, outcome>>
  /\ UNCHANGED <<authMethod, lastConn, answer>>

\* Mutant of TransientError: the loop over attempts does not end.
TransientErrorRetriesForever(sent) ==
  /\ Discard
  /\ attempt' = attempt + 1 /\ pc' = "opening"
  /\ UNCHANGED <<cur, outcome>>
  /\ UNCHANGED <<authMethod, lastConn, answer>>

\* The "except transient" clause of call.
TransientError(sent) ==
  /\ Discard
  /\ \/ attempt = 1 /\ ~sent /\ Finish("unreachable")
     \/ sent /\ cur \in FireAndForget /\ Finish("okNoReply")
     \/ attempt = 1 /\ sent /\ cur \notin FireAndForget /\ Finish("raised")
     \/ /\ attempt = 0 /\ sent /\ cur \notin FireAndForget \cup Idempotent
        /\ Finish("uncertain")
     \/ /\ attempt = 0 /\ (sent => cur \in Idempotent)
        /\ attempt' = 1 /\ pc' = "opening"
        /\ UNCHANGED <<cur, outcome>>
  /\ UNCHANGED <<authMethod, lastConn, answer>>

\* _connect and _authenticate_legacy: a connection is established and the first
\* frame of the handshake is written to it.
Open ==
  LET c == lastConn + 1
      first == IF pc = "opening" THEN "hello" ELSE "legacy"
  IN
  /\ pc \in Opening
  /\ up /\ Cardinality(backlog) < Backlog
  /\ conn' = c /\ lastConn' = c
  /\ closed' = closed \cup ({conn} \ {0})
  /\ backlog' = backlog \cup {c}
  /\ id' = id + 1
  /\ toAgent' = toAgent \cup {[conn |-> c, id |-> id + 1, kind |-> first, call |-> NoCall]}
  /\ toClient' = toClient \ On(toClient, conn)
  /\ pc' = first
  /\ UNCHANGED <<cur, attempt, authMethod, outcome, answer, hungUp, lost, up,
                 serving, stage, out, goingDown, applied, env>>

\* asyncio.open_connection is refused or times out.
OpenFails ==
  /\ pc \in Opening
  /\ TransientError(FALSE)
  /\ UNCHANGED <<id, toAgent, hungUp, lost, agent, env>>

\* _connect, the except clause: while no method is known to work, any failure of
\* the hmac handshake leads to the legacy one on a new connection.
FallBackToLegacy ==
  /\ authMethod = "none" /\ pc \in {"hello", "auth"}
  /\ Discard
  /\ pc' = "legacyOpening"
  /\ UNCHANGED <<cur, attempt, authMethod, id, lastConn, outcome, answer>>

\* A handshake exchange is cut off: the deadline of wait_for, end of file, reset.
HandshakeFails ==
  /\ pc \in {"hello", "auth", "legacy"}
  /\ \/ FallBackToLegacy
     \/ /\ pc = "legacy" \/ authMethod # "none"
        /\ TransientError(FALSE) /\ UNCHANGED id
  /\ UNCHANGED <<toAgent, hungUp, lost, agent, env>>

\* _authenticate: the reply to hello carries a challenge; answer it.
ReceiveChallenge ==
  /\ pc = "hello"
  /\ \E f \in First(toClient, conn) :
       /\ f.kind = "challenge"
       /\ toClient' = toClient \ {f}
  /\ id' = id + 1
  /\ toAgent' = SentToAgent([conn |-> conn, id |-> id + 1, kind |-> "auth",
                             call |-> NoCall])
  /\ pc' = "auth"
  /\ UNCHANGED <<cur, attempt, conn, authMethod, lastConn, outcome, answer,
                 closed, hungUp, lost, agent, env>>

\* The last reply of a handshake accepts it.
ReceiveWelcome ==
  /\ pc \in {"auth", "legacy"}
  /\ \E f \in First(toClient, conn) :
       /\ f.kind = "welcome"
       /\ toClient' = toClient \ {f}
  /\ authMethod' = IF pc = "auth" THEN "hmac" ELSE "legacy"
  /\ pc' = "send"
  /\ UNCHANGED <<cur, attempt, conn, id, lastConn, outcome, answer,
                 toAgent, closed, hungUp, lost, agent, env>>

\* The last reply of a handshake refuses it: a ClientError, which call does not
\* catch, so the connection stays in self._writer.
ReceiveDenied ==
  /\ pc \in {"auth", "legacy"}
  /\ \E f \in First(toClient, conn) :
       /\ f.kind = "denied"
       /\ \/ FallBackToLegacy
          \/ /\ pc = "legacy" \/ authMethod # "none"
             /\ Finish("denied")
             /\ toClient' = toClient \ {f}
             /\ UNCHANGED <<conn, authMethod, id, lastConn, answer, closed>>
  /\ UNCHANGED <<toAgent, hungUp, lost, agent, env>>

\* _roundtrip: the request turns out not to fit a frame; nothing is written.
RejectOversized ==
  /\ pc = "send" /\ cur \in Oversized
  /\ id' = id + 1
  /\ Finish("frameTooBig")
  /\ UNCHANGED <<conn, authMethod, lastConn, answer, sockets, agent, env>>

Command == [conn |-> conn, id |-> id, kind |-> "cmd", call |-> cur]

\* _roundtrip: write() and a drain() that returns at once; sent_flag is set.
Send ==
  /\ pc = "send" /\ cur \notin Large
  /\ id' = id + 1
  /\ toAgent' = SentToAgent([Command EXCEPT !.id = id + 1])
  /\ pc' = "reading"
  /\ UNCHANGED <<cur, attempt, conn, authMethod, lastConn, outcome, answer,
                 toClient, closed, hungUp, lost, agent, env>>

\* write() overflows the socket: the rest waits in the transport's buffer.
StartDrain ==
  /\ pc = "send" /\ cur \in Large
  /\ id' = id + 1
  /\ pc' = "draining"
  /\ UNCHANGED <<cur, attempt, conn, authMethod, lastConn, outcome, answer,
                 sockets, agent, env>>

\* drain() returns: the frame has left the buffer; sent_flag is set.
DrainDone ==
  /\ pc = "draining"
  /\ toAgent' = SentToAgent(Command)
  /\ pc' = "reading"
  /\ UNCHANGED <<cur, attempt, conn, authMethod, id, lastConn, outcome, answer,
                 toClient, closed, hungUp, lost, agent, env>>

\* write() or drain() finds a reset connection: nothing was sent.
SendFails ==
  /\ pc = "send" /\ conn \in lost \cup hungUp
  /\ TransientError(FALSE)
  /\ id' = id + 1
  /\ UNCHANGED <<toAgent, hungUp, lost, agent, env>>

\* drain() is cut off with sent_flag still False.  writer.close() keeps sending
\* what is buffered, so the agent may still get the whole frame.
DrainFails ==
  /\ pc = "draining"
  /\ toAgent' \in {toAgent, SentToAgent(Command)}
  /\ TransientError(FALSE)
  /\ UNCHANGED <<id, hungUp, lost, agent, env>>

\* The reply read is whatever frame comes next; its id is not compared.
ReceiveReply ==
  /\ pc = "reading"
  /\ \E f \in First(toClient, conn) :
       /\ toClient' = toClient \ {f}
       /\ answer' = [answer EXCEPT ![cur] = f.call]
       /\ Finish(IF f.kind \in {"error", "denied"} THEN "error" ELSE "ok")
  /\ UNCHANGED <<conn, authMethod, id, lastConn, toAgent, closed, hungUp, lost,
                 agent, env>>

\* Mutant of ReplyLost: sent_flag is set only once the reply has been read.
ReplyLostUnsent ==
  /\ pc = "reading"
  /\ TransientError(FALSE)
  /\ UNCHANGED <<id, toAgent, hungUp, lost, agent, env>>

\* Mutant of ReplyLost: no deadline, only end of file cuts an exchange off.
ReplyLostOnEofOnly ==
  /\ pc = "reading" /\ conn \in hungUp
  /\ TransientError(TRUE)
  /\ UNCHANGED <<id, toAgent, hungUp, lost, agent, env>>

\* The exchange is cut off after the request was sent: deadline, end of file, reset.
ReplyLost ==
  /\ pc = "reading"
  /\ TransientError(TRUE)
  /\ UNCHANGED <<id, toAgent, hungUp, lost, agent, env>>

\* The caller cancels the call.  CancelledError is not one of the transient
\* errors: the lock is released and the connection kept as it is.
Cancel ==
  /\ MayCancel /\ pc # "idle" /\ pc # "send"
  /\ toAgent' = IF pc = "draining" THEN SentToAgent(Command) ELSE toAgent
  /\ Finish("cancelled")
  /\ UNCHANGED <<conn, authMethod, id, lastConn, answer, toClient, closed, hungUp,
                 lost, agent, env>>

-----------------------------------------------------------------------------
(***************************************************************************)
(* The agent.                                                              *)
(***************************************************************************)

\* Run: accept() takes the oldest established connection.
Accept ==
  /\ up /\ stage = "accept"
  /\ \E c \in backlog :
       /\ \A d \in backlog : c <= d
       /\ serving' = c
       /\ backlog' = backlog \ {c}
  /\ stage' = "hello"
  /\ UNCHANGED <<client, sockets, up, out, goingDown, applied, env>>

\* close(fd): what the connection still held is discarded.
HangUp ==
  /\ hungUp' = hungUp \cup {serving}
  /\ serving' = 0 /\ stage' = "accept"
  /\ out' = {}

Answer(f, kind) == [conn |-> serving, id |-> f.id, kind |-> kind, call |-> f.call]

\* Authenticate, second frame: hand out a challenge.
SendChallenge ==
  /\ stage = "hello"
  /\ \E f \in First(toAgent, serving) :
       /\ f.kind = "hello"
       /\ toAgent' = toAgent \ {f}
       /\ toClient' = SentToClient(Answer(f, "challenge"))
  /\ stage' = "challenged"
  /\ UNCHANGED <<client, closed, hungUp, lost, up, backlog, serving, out, goingDown,
                 applied, env>>

\* Authenticate accepts frame f: the answer to the challenge, or a legacy hello.
Accepts(f) ==
  /\ tokenMatches
  /\ \/ stage = "challenged" /\ f.kind = "auth"
     \/ stage = "hello" /\ f.kind = "legacy" /\ ~RequireHmac

\* Authenticate refuses frame f with a reply; any frame may follow a challenge.
Refuses(f) ==
  /\ stage = "challenged" \/ f.kind = "legacy"
  /\ ~Accepts(f)

AcceptPeer ==
  /\ stage \in {"hello", "challenged"}
  /\ \E f \in First(toAgent, serving) :
       /\ Accepts(f)
       /\ toAgent' = toAgent \ {f}
       /\ toClient' = SentToClient(Answer(f, "welcome"))
  /\ stage' = "ready"
  /\ UNCHANGED <<client, closed, hungUp, lost, up, backlog, serving, out, goingDown,
                 applied, env>>

\* Mutant of RefusePeer: the refusal is sent and the connection is served.
RefusePeerServes ==
  /\ stage \in {"hello", "challenged"}
  /\ \E f \in First(toAgent, serving) :
       /\ Refuses(f)
       /\ toAgent' = toAgent \ {f}
       /\ toClient' = SentToClient(Answer(f, "denied"))
  /\ stage' = "ready"
  /\ UNCHANGED <<client, closed, hungUp, lost, up, backlog, serving, out, goingDown,
                 applied, env>>

RefusePeer ==
  /\ stage \in {"hello", "challenged"}
  /\ \E f \in First(toAgent, serving) :
       /\ Refuses(f)
       /\ toAgent' = toAgent \ On(toAgent, serving)
       /\ toClient' = SentToClient(Answer(f, "denied"))
  /\ HangUp
  /\ UNCHANGED <<client, closed, lost, up, backlog, goingDown, applied, env>>

\* ServeConnection: frame f is dispatched.  A permitted call enters its handler,
\* which succeeds or fails; a refused one gets an error.
Handle(f) ==
  \/ /\ f.call \in Permitted
     /\ applied' = [applied EXCEPT ![f.call] = @ + 1]
     /\ out' = {Answer(f, "ok")}
     /\ goingDown' = (goingDown \/ f.call \in FireAndForget)
  \/ /\ f.call \in Permitted
     /\ applied' = [applied EXCEPT ![f.call] = @ + 1]
     /\ out' = {Answer(f, "error")}
     /\ UNCHANGED goingDown
  \/ /\ f.call \notin Permitted
     /\ out' = {Answer(f, "error")}
     /\ UNCHANGED <<applied, goingDown>>

Execute ==
  /\ stage = "ready"
  /\ \E f \in First(toAgent, serving) :
       /\ f.kind = "cmd"
       /\ toAgent' = toAgent \ {f}
       /\ Handle(f)
  /\ stage' = "replying"
  /\ UNCHANGED <<client, toClient, closed, hungUp, lost, up, backlog, serving, env>>

\* WriteFrame succeeds, as far as the agent can tell.
WriteReply ==
  /\ stage = "replying"
  /\ \E r \in out : toClient' = SentToClient(r)
  /\ out' = {}
  /\ stage' = "ready"
  /\ UNCHANGED <<client, toAgent, closed, hungUp, lost, up, backlog, serving,
                 goingDown, applied, env>>

\* WriteFrame fails and the loop is left, with what was still unread.
WriteFails ==
  /\ stage = "replying" /\ serving \in lost \cup closed
  /\ toAgent' = toAgent \ On(toAgent, serving)
  /\ HangUp
  /\ UNCHANGED <<client, toClient, closed, lost, up, backlog, goingDown, applied, env>>

\* Mutant of PeerGone: neither receive timeouts nor keepalive, only end of file.
PeerGoneOnEofOnly ==
  /\ stage \in {"hello", "challenged", "ready"} /\ On(toAgent, serving) = {}
  /\ serving \in closed
  /\ HangUp
  /\ UNCHANGED <<client, toAgent, toClient, closed, lost, up, backlog, goingDown,
                 applied, env>>

\* ReadFrame finds nothing to read and the peer gone.
PeerGone ==
  /\ stage \in {"hello", "challenged", "ready"} /\ On(toAgent, serving) = {}
  /\ serving \in closed \cup lost
  /\ HangUp
  /\ UNCHANGED <<client, toAgent, toClient, closed, lost, up, backlog, goingDown,
                 applied, env>>

\* ReadFrame finds nothing to read for too long: 15 s before hello, 30 s before
\* the answer to the challenge, ten times 30 s in a session (15 s in the middle of
\* a frame).  The client never waits that long between the steps of a call.
PeerSilent ==
  /\ stage \in {"hello", "challenged", "ready"} /\ On(toAgent, serving) = {}
  /\ stage = "ready" /\ conn = serving => pc \in {"idle", "draining"}
  /\ serving \notin closed \cup lost
  /\ HangUp
  /\ UNCHANGED <<client, toAgent, toClient, closed, lost, up, backlog, goingDown,
                 applied, env>>

-----------------------------------------------------------------------------
(***************************************************************************)
(* The environment.                                                        *)
(***************************************************************************)

\* What is left of the frames S of connection c when it breaks: a prefix.
Cuts(S, c) == {0} \cup {f.id : f \in On(S, c)}
Prefix(S, c, n) == {f \in S : f.conn = c => f.id <= n}

\* The link under a connection goes dead.  What reached either side's kernel is
\* still read; nothing passes any more, and nobody is told.
Drop ==
  /\ drops < MaxDrops
  /\ drops' = drops + 1
  /\ \E c \in ({conn, serving} \cup backlog) \ ({0} \cup lost \cup hungUp \cup closed) :
       /\ lost' = lost \cup {c}
       /\ \E n \in Cuts(toAgent, c) : toAgent' = Prefix(toAgent, c, n)
       /\ \E m \in Cuts(toClient, c) : toClient' = Prefix(toClient, c, m)
  /\ UNCHANGED <<client, closed, hungUp, agent, tokenMatches, crashes>>

\* The agent dies: a crash, or the power action a command scheduled.
Crash ==
  /\ up
  /\ goingDown \/ crashes < MaxCrashes
  /\ crashes' = IF goingDown THEN crashes ELSE crashes + 1
  /\ up' = FALSE /\ goingDown' = FALSE
  /\ serving' = 0 /\ stage' = "accept" /\ out' = {} /\ backlog' = {}
  /\ lost' = lost \cup ({conn} \ {0})
  /\ toAgent' = {}
  /\ \E m \in Cuts(toClient, conn) : toClient' = Prefix(toClient, conn, m)
  /\ UNCHANGED <<client, closed, hungUp, applied, tokenMatches, drops>>

\* The console boots again and starts the agent, which reads its configuration:
\* the token may have been changed on the card.
Boot ==
  /\ ~up
  /\ up' = TRUE
  /\ tokenMatches' \in BOOLEAN
  /\ UNCHANGED <<client, sockets, backlog, serving, stage, out, goingDown, applied,
                 drops, crashes>>

-----------------------------------------------------------------------------
ClientNext ==
  \/ \E k \in Calls : StartCall(k)
  \/ Open \/ OpenFails \/ HandshakeFails
  \/ ReceiveChallenge \/ ReceiveWelcome \/ ReceiveDenied
  \/ RejectOversized \/ Send \/ StartDrain \/ DrainDone \/ SendFails \/ DrainFails
  \/ ReceiveReply \/ ReplyLost \/ Cancel

AgentNext ==
  \/ Accept \/ SendChallenge \/ AcceptPeer \/ RefusePeer
  \/ Execute \/ WriteReply \/ WriteFails \/ PeerGone \/ PeerSilent

EnvNext == Drop \/ Crash \/ Boot

Next == ClientNext \/ AgentNext \/ EnvNext

Spec == Init /\ [][Next]_vars

-----------------------------------------------------------------------------
(***************************************************************************)
(* Fairness.  Every wait of the client ends: wait_for bounds it, so some    *)
(* action of the lock's holder eventually happens; starting and cancelling *)
(* a call are the caller's choice.  The server thread keeps running while  *)
(* there is something to do; handlers are assumed to return, and the       *)
(* receive and keepalive timeouts make it notice a peer that is gone.      *)
(* Nothing is assumed of the environment.                                  *)
(***************************************************************************)
ClientProgress ==
  \/ Open \/ OpenFails \/ HandshakeFails
  \/ ReceiveChallenge \/ ReceiveWelcome \/ ReceiveDenied
  \/ RejectOversized \/ Send \/ StartDrain \/ DrainDone \/ SendFails \/ DrainFails
  \/ ReceiveReply \/ ReplyLost

AgentProgress ==
  \/ Accept \/ SendChallenge \/ AcceptPeer \/ RefusePeer
  \/ Execute \/ WriteReply \/ WriteFails \/ PeerGone

FairSpec == Spec /\ WF_vars(ClientProgress) /\ WF_vars(AgentProgress)

-----------------------------------------------------------------------------
(***************************************************************************)
(* Properties.                                                             *)
(***************************************************************************)

\* Calls that must not run twice and whose request is handed to the socket whole.
OneShot == Calls \ (Idempotent \cup Large)

\* The retry of call never makes the agent run a non-idempotent command twice,
\* whatever is lost, delayed, timed out, cancelled or restarted in between.
AtMostOnce == \A k \in OneShot : applied[k] <= 1

\* The same for every non-idempotent command, payload or not (agentd.py:243-247).
AtMostOnceAll == \A k \in Calls \ Idempotent : applied[k] <= 1

\* No caller has cancelled a call so far.
Uncancelled == \A k \in Calls : outcome[k] # "cancelled"

\* A reply is never taken for the reply to another call, although _roundtrip
\* does not compare ids: failed exchanges always discard their connection.
AnswersMatch ==
  Uncancelled => \A k \in Calls : outcome[k] \in {"ok", "error"} => answer[k] = k

\* The docstring of _roundtrip (agentd.py:197), for callers that do cancel.
AnswersMatchAlways ==
  \A k \in Calls : outcome[k] \in {"ok", "error"} => answer[k] = k

\* Outcomes after which the caller may take the command's fate as settled.
Settled(k) ==
  \/ outcome[k] \in {"ok", "error"}
  \/ outcome[k] \in {"unreachable", "denied", "frameTooBig"} /\ k \in OneShot

\* No handler runs for a call whose fate the client has reported: not from a
\* retry's first frame, and not from a connection given up earlier (as long as no
\* caller has cancelled).
NoLateExecution ==
  [][Uncancelled => \A k \in Calls : Settled(k) => applied'[k] = applied[k]]_vars

\* A one-shot call reported as never having reached the agent was not run.
UnreachableIsUntouched ==
  \A k \in OneShot : outcome[k] \in {"unreachable", "denied", "frameTooBig"} => applied[k] = 0

\* Without the right token no handler ever runs, whatever a cancelled handshake
\* leaves behind on the connection and whichever token was right before a restart.
OnlyAuthenticated == [][applied' # applied => tokenMatches]_vars

\* The lock every tool needs is always released again.
LockReleased == pc # "idle" ~> pc = "idle"

\* The agent's single connection slot does not stay with a peer that is gone.
SlotReleased == serving \in closed \cup lost ~> serving = 0

-----------------------------------------------------------------------------
(***************************************************************************)
(* Why AtMostOnce holds: an inductive invariant.  A one-shot call that has  *)
(* not reached "reading" has left no trace at the agent; once it has, there *)
(* is one frame of it or one run of it, and call never sends it again.      *)
(***************************************************************************)
InFlight(k) == {f \in toAgent : f.call = k}

\* Nothing of call k was ever handed to the socket.
Unsent(k) ==
  /\ outcome[k] \in {"none", "unreachable", "denied", "frameTooBig"}
  /\ ~(cur = k /\ pc = "reading")

HolderInv ==
  /\ pc # "idle" => cur \in Calls /\ outcome[cur] = "none"
  /\ pc = "draining" => cur \in Large

OnceInv(k) ==
  /\ Unsent(k) => InFlight(k) = {} /\ applied[k] = 0
  /\ InFlight(k) # {} => applied[k] = 0
  /\ \A f, g \in InFlight(k) : f = g
  /\ applied[k] <= 1

AtMostOnceInv == HolderInv /\ \A k \in OneShot : OnceInv(k)

\* Why OnlyAuthenticated holds: a session is opened with the right token only, and
\* the token can change only while there is no session.
SessionInv ==
  /\ stage \in {"ready", "replying"} => tokenMatches
  /\ ~up => stage = "accept"

(***************************************************************************)
(* Why AnswersMatch holds without comparing ids: on the connection in use   *)
(* there is one frame, request or reply, and it belongs to the exchange the *)
(* client waits for; the frames of every other exchange are on connections *)
(* it has given up.                                                        *)
(***************************************************************************)
Frames == toAgent \cup toClient \cup out

Numbered ==
  /\ conn <= lastConn
  /\ pc \notin {"idle"} \cup Opening => conn # 0
  /\ \A f \in Frames : 1 <= f.conn /\ f.conn <= lastConn

OnlyTheAwaited ==
  /\ \A f \in On(Frames, conn) :
       /\ pc \in Waiting
       /\ f.id = id
       /\ pc = "reading" => f.call = cur
  /\ \A f, g \in On(Frames, conn) : f = g
  /\ On(out, conn) \cap toClient = {}

OneExchange == Uncancelled => Numbered /\ OnlyTheAwaited

(***************************************************************************)
(* Why NoLateExecution holds: the agent serves connections in the order in *)
(* which they were opened, so once a reply on the newest one is read there *)
(* is no request left on an older one; and whatever request is left belongs *)
(* to a call whose fate has not been reported.                             *)
(***************************************************************************)
OldestFirst ==
  /\ conn \in {0, lastConn}
  /\ pc \notin {"idle"} \cup Opening => conn # 0
  /\ conn # 0 => conn \in backlog \cup {serving} \cup hungUp \cup lost
  /\ serving <= lastConn
  /\ serving = 0 <=> stage = "accept"
  /\ \A c \in backlog : serving < c /\ c <= lastConn
  /\ \A f \in toAgent : f.conn \in backlog \cup ({serving} \ {0})
  /\ \A r \in toClient \cup out :
       /\ r.conn <= lastConn
       /\ serving # 0 => r.conn <= serving
       /\ \A c \in backlog : r.conn < c

\* Calls of which a request may still be on its way.
StillOpen(k) ==
  \/ k = cur
  \/ outcome[k] \in {"uncertain", "raised", "okNoReply"}
  \/ outcome[k] \in {"unreachable", "denied", "frameTooBig"} /\ k \notin OneShot

OnlyOpenPending ==
  /\ pc = "idle" <=> cur = NoCall
  /\ Uncancelled => \A k \in Calls : InFlight(k) # {} => StillOpen(k)

\* A handshake carries no call, and "ok" is said only of a call that ran.
TrueReplies ==
  /\ \A f \in toAgent : f.kind = "cmd" <=> f.call # NoCall
  /\ \A r \in toClient \cup out :
       /\ r.kind \in {"challenge", "welcome"} => r.call = NoCall
       /\ r.kind = "ok" => r.call \in Calls /\ applied[r.call] > 0
=============================================================================
