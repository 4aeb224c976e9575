--------------------------- MODULE SessionProofs ---------------------------
(***************************************************************************)
(* Theorems about Session and about what it implements, RemoteCall, for    *)
(* any set of calls, any bounds and any configuration of the agent.        *)
(***************************************************************************)
EXTENDS SessionRefines, TLAPS

\* A frame written to a connection has the type of a frame, whether it arrives or not.
LEMMA SentTyped ==
  /\ \A f \in Request : toAgent \subseteq Request => SentToAgent(f) \subseteq Request
  /\ \A f \in Reply : toClient \subseteq Reply => SentToClient(f) \subseteq Reply
BY DEF SentToAgent, SentToClient

\* Every variable of the client, the sockets and the agent keeps its type, for
\* any number of calls, drops and crashes.
THEOREM TypeCorrect == Spec => []TypeOK
<1>1. Init => TypeOK
  <2> SUFFICES ASSUME Init PROVE TypeOK
    OBVIOUS
  <2>1. up \in BOOLEAN /\ goingDown \in BOOLEAN /\ tokenMatches \in BOOLEAN
    BY Zenon DEF Init
  <2>2. QED
    BY <2>1 DEF Init, TypeOK, Outcomes
<1>2. TypeOK /\ [Next]_vars => TypeOK'
  <2> SUFFICES ASSUME TypeOK, [Next]_vars PROVE TypeOK'
    OBVIOUS
  <2> USE CallsAssumption, SentTyped
      DEF TypeOK, Opening, Waiting, Outcomes, client, sockets, agent, env
  <2>1. ASSUME NEW k \in Calls, StartCall(k) PROVE TypeOK'
    BY <2>1 DEF StartCall
  <2>2. CASE Open
    BY <2>2 DEF Open, Request, On
  <2>3. CASE OpenFails
    BY <2>3 DEF OpenFails, TransientError, Discard, Finish, On
  <2>4. CASE HandshakeFails
    <3>1. CASE FallBackToLegacy
      BY <2>4, <3>1 DEF HandshakeFails, FallBackToLegacy, Discard, On
    <3>2. CASE TransientError(FALSE) /\ UNCHANGED id
      BY <2>4, <3>2 DEF HandshakeFails, TransientError, Discard, Finish, On
    <3> QED BY <2>4, <3>1, <3>2 DEF HandshakeFails
  <2>5. CASE ReceiveChallenge
    BY <2>5 DEF ReceiveChallenge, Request
  <2>6. CASE ReceiveWelcome
    BY <2>6 DEF ReceiveWelcome
  <2>7. CASE ReceiveDenied
    <3>1. CASE FallBackToLegacy
      BY <2>7, <3>1 DEF ReceiveDenied, FallBackToLegacy, Discard, On
    <3>2. CASE Finish("denied") /\ ~FallBackToLegacy
      BY <2>7, <3>2 DEF ReceiveDenied, Finish
    <3> QED BY <2>7, <3>1, <3>2 DEF ReceiveDenied
  <2>29. CASE RejectOversized
    BY <2>29 DEF RejectOversized, Finish
  <2>8. CASE Send
    BY <2>8 DEF Send, Command, Request
  <2>9. CASE StartDrain
    BY <2>9 DEF StartDrain
  <2>10. CASE DrainDone
    BY <2>10 DEF DrainDone, Command, Request
  <2>11. CASE SendFails
    BY <2>11 DEF SendFails, TransientError, Discard, Finish, On
  <2>12. CASE DrainFails
    BY <2>12 DEF DrainFails, TransientError, Discard, Finish, On, Command, Request
  <2>13. CASE ReceiveReply
    BY <2>13 DEF ReceiveReply, Finish, First, On, Reply
  <2>14. CASE ReplyLost
    BY <2>14 DEF ReplyLost, TransientError, Discard, Finish, On
  <2>15. CASE Cancel
    BY <2>15 DEF Cancel, Finish, Command, Request
  <2>16. CASE Accept
    BY <2>16 DEF Accept
  <2>17. CASE SendChallenge
    BY <2>17 DEF SendChallenge, Answer, First, On, Request, Reply
  <2>18. CASE AcceptPeer
    BY <2>18 DEF AcceptPeer, Answer, First, On, Request, Reply
  <2>19. CASE RefusePeer
    BY <2>19 DEF RefusePeer, HangUp, Answer, First, On, Request, Reply
  <2>20. CASE Execute
    <3>1. PICK f \in First(toAgent, serving) : f.kind = "cmd" /\ Handle(f)
      BY <2>20 DEF Execute
    <3>2. f \in Request
      BY DEF First, On
    <3>3. \A kind \in {"ok", "error"} : Answer(f, kind) \in Reply
      BY <3>2 DEF Answer, Request, Reply
    <3>4. applied' \in [Calls -> Nat]
      BY <3>1 DEF Handle
    <3>5. goingDown' \in BOOLEAN
      BY <3>1, Zenon DEF Handle
    <3>6. out' \subseteq Reply
      BY <3>1, <3>3 DEF Handle
    <3> QED BY <2>20, <3>4, <3>5, <3>6 DEF Execute
  <2>21. CASE WriteReply
    BY <2>21 DEF WriteReply
  <2>22. CASE WriteFails
    BY <2>22 DEF WriteFails, HangUp, On
  <2>23. CASE PeerGone
    BY <2>23 DEF PeerGone, HangUp
  <2>24. CASE PeerSilent
    BY <2>24 DEF PeerSilent, HangUp
  <2>25. CASE Drop
    BY <2>25 DEF Drop, Prefix
  <2>26. CASE Crash
    <3>1. up' \in BOOLEAN /\ goingDown' \in BOOLEAN
      BY <2>26, Zenon DEF Crash
    <3> QED BY <2>26, <3>1 DEF Crash, Prefix
  <2>27. CASE Boot
    <3>1. up' \in BOOLEAN /\ tokenMatches' \in BOOLEAN
      BY <2>27, Zenon DEF Boot
    <3> QED BY <2>27, <3>1 DEF Boot
  <2>28. CASE UNCHANGED vars
    BY <2>28 DEF vars
  <2> QED
    BY <2>1, <2>2, <2>3, <2>4, <2>5, <2>6, <2>7, <2>8, <2>9, <2>10, <2>11, <2>12,
       <2>13, <2>14, <2>15, <2>16, <2>17, <2>18, <2>19, <2>20, <2>21, <2>22, <2>23,
       <2>24, <2>25, <2>26, <2>27, <2>28, <2>29
       DEF Next, ClientNext, AgentNext, EnvNext
<1> QED BY <1>1, <1>2, PTL DEF Spec

-----------------------------------------------------------------------------
(***************************************************************************)
(* At most once.                                                           *)
(***************************************************************************)

\* A step that adds no frame of k, does not run k and does not make k look
\* unsent again preserves the invariant of k.
LEMMA QuietStep ==
  ASSUME NEW k \in OneShot, OnceInv(k),
         InFlight(k)' \subseteq InFlight(k),
         applied'[k] = applied[k],
         Unsent(k)' => Unsent(k)
  PROVE  OnceInv(k)'
BY DEF OnceInv

\* A one-shot call that fails after it was sent is finished for good, and one that
\* fails before keeps no trace: the except clause never prepares a second frame.
LEMMA TransientErrorOnce ==
  ASSUME TypeOK, HolderInv, pc # "idle",
         NEW sent \in BOOLEAN, TransientError(sent),
         pc = "reading" => sent
  PROVE  HolderInv' /\ \A k \in OneShot : Unsent(k)' => Unsent(k)
  BY CallsAssumption DEF TypeOK, HolderInv, TransientError, Discard, Finish, Unsent, OneShot

LEMMA AtMostOnceStep == TypeOK /\ AtMostOnceInv /\ [Next]_vars => AtMostOnceInv'
<1> SUFFICES ASSUME TypeOK, AtMostOnceInv, [Next]_vars PROVE AtMostOnceInv'
  OBVIOUS
<1> USE CallsAssumption DEF client, sockets, agent, env
<1>0. /\ HolderInv
      /\ \A k \in OneShot : OnceInv(k) /\ k \in Calls /\ k # NoCall /\ k \notin Large
  BY DEF AtMostOnceInv, OneShot
<1>a. ASSUME UNCHANGED client, toAgent' \subseteq toAgent, UNCHANGED applied
      PROVE  AtMostOnceInv'
  <2>1. HolderInv'
    BY <1>0, <1>a DEF HolderInv
  <2>2. ASSUME NEW k \in OneShot PROVE OnceInv(k)'
    <3>1. InFlight(k)' \subseteq InFlight(k) /\ (Unsent(k)' => Unsent(k))
      BY <1>a DEF InFlight, Unsent
    <3> QED BY <1>0, <1>a, <3>1, QuietStep
  <2> QED BY <2>1, <2>2 DEF AtMostOnceInv
\* Client steps that hand no command to the socket.
<1>b. ASSUME HolderInv', UNCHANGED applied,
             \A k \in OneShot : InFlight(k)' \subseteq InFlight(k) /\ (Unsent(k)' => Unsent(k))
      PROVE  AtMostOnceInv'
  BY <1>0, <1>b, QuietStep DEF AtMostOnceInv
<1>1. ASSUME NEW k \in Calls, StartCall(k) PROVE AtMostOnceInv'
  <2>1. HolderInv'
    BY <1>1 DEF StartCall, HolderInv
  <2>2. \A j \in OneShot : InFlight(j)' \subseteq InFlight(j) /\ (Unsent(j)' => Unsent(j))
    BY <1>1 DEF StartCall, InFlight, Unsent
  <2> QED BY <1>1, <1>b, <2>1, <2>2 DEF StartCall
<1>2. CASE Open
  <2>1. HolderInv'
    BY <1>0, <1>2 DEF Open, HolderInv, Opening
  <2>2. \A j \in OneShot : InFlight(j)' \subseteq InFlight(j) /\ (Unsent(j)' => Unsent(j))
    BY <1>0, <1>2 DEF Open, InFlight, Unsent, Opening
  <2> QED BY <1>2, <1>b, <2>1, <2>2 DEF Open
<1>3. CASE OpenFails
  <2>1. HolderInv' /\ \A k \in OneShot : Unsent(k)' => Unsent(k)
    BY <1>0, <1>3, TransientErrorOnce DEF OpenFails, Opening
  <2>2. \A j \in OneShot : InFlight(j)' \subseteq InFlight(j)
    BY <1>3 DEF OpenFails, InFlight
  <2> QED BY <1>3, <1>b, <2>1, <2>2 DEF OpenFails
<1>4. CASE HandshakeFails
  <2>1. HolderInv' /\ \A k \in OneShot : Unsent(k)' => Unsent(k)
    <3>1. CASE FallBackToLegacy
      BY <1>0, <1>4, <3>1 DEF FallBackToLegacy, HolderInv, Unsent
    <3>2. CASE TransientError(FALSE)
      BY <1>0, <1>4, <3>2, TransientErrorOnce DEF HandshakeFails
    <3> QED BY <1>4, <3>1, <3>2 DEF HandshakeFails
  <2>2. \A j \in OneShot : InFlight(j)' \subseteq InFlight(j)
    BY <1>4 DEF HandshakeFails, InFlight
  <2> QED BY <1>4, <1>b, <2>1, <2>2 DEF HandshakeFails
<1>5. CASE ReceiveChallenge
  <2>1. HolderInv'
    BY <1>0, <1>5 DEF ReceiveChallenge, HolderInv
  <2>2. \A j \in OneShot : InFlight(j)' \subseteq InFlight(j) /\ (Unsent(j)' => Unsent(j))
    BY <1>0, <1>5 DEF ReceiveChallenge, InFlight, Unsent, SentToAgent
  <2> QED BY <1>5, <1>b, <2>1, <2>2 DEF ReceiveChallenge
<1>6. CASE ReceiveWelcome
  <2>1. HolderInv'
    BY <1>0, <1>6 DEF ReceiveWelcome, HolderInv
  <2>2. \A j \in OneShot : InFlight(j)' \subseteq InFlight(j) /\ (Unsent(j)' => Unsent(j))
    BY <1>0, <1>6 DEF ReceiveWelcome, InFlight, Unsent
  <2> QED BY <1>6, <1>b, <2>1, <2>2 DEF ReceiveWelcome
<1>7. CASE ReceiveDenied
  <2>1. HolderInv' /\ \A k \in OneShot : Unsent(k)' => Unsent(k)
    <3>1. CASE FallBackToLegacy
      BY <1>0, <1>7, <3>1 DEF FallBackToLegacy, HolderInv, Unsent
    <3>2. CASE Finish("denied")
      BY <1>0, <1>7, <3>2 DEF ReceiveDenied, Finish, HolderInv, Unsent, TypeOK
    <3> QED BY <1>7, <3>1, <3>2 DEF ReceiveDenied
  <2>2. \A j \in OneShot : InFlight(j)' \subseteq InFlight(j)
    BY <1>7 DEF ReceiveDenied, InFlight
  <2> QED BY <1>7, <1>b, <2>1, <2>2 DEF ReceiveDenied
<1>22. CASE RejectOversized
  <2>1. HolderInv' /\ \A k \in OneShot : Unsent(k)' => Unsent(k)
    BY <1>0, <1>22 DEF RejectOversized, Finish, HolderInv, Unsent, TypeOK
  <2>2. \A j \in OneShot : InFlight(j)' \subseteq InFlight(j)
    BY <1>22 DEF RejectOversized, InFlight
  <2> QED BY <1>22, <1>b, <2>1, <2>2 DEF RejectOversized
\* The one step that sends a one-shot call.
<1>8. CASE Send
  <2>1. HolderInv'
    BY <1>0, <1>8 DEF Send, HolderInv
  <2>2. ASSUME NEW k \in OneShot PROVE OnceInv(k)'
    <3>1. CASE k = cur
      <4>1. InFlight(k) = {} /\ applied[k] = 0
        BY <1>0, <1>8, <3>1 DEF OnceInv, HolderInv, Unsent, Send
      <4>2. \A f, g \in InFlight(k)' : f = g
        BY <1>8, <4>1 DEF Send, InFlight, SentToAgent
      <4> QED BY <1>8, <3>1, <4>1, <4>2 DEF Send, OnceInv, Unsent
    <3>2. CASE k # cur
      <4>1. InFlight(k)' \subseteq InFlight(k) /\ (Unsent(k)' => Unsent(k))
        BY <1>8, <3>2 DEF Send, InFlight, SentToAgent, Command, Unsent
      <4> QED BY <1>0, <1>8, <4>1, QuietStep DEF Send
    <3> QED BY <3>1, <3>2
  <2> QED BY <2>1, <2>2 DEF AtMostOnceInv
<1>9. CASE StartDrain
  <2>1. HolderInv'
    BY <1>0, <1>9 DEF StartDrain, HolderInv
  <2>2. \A j \in OneShot : InFlight(j)' \subseteq InFlight(j) /\ (Unsent(j)' => Unsent(j))
    BY <1>0, <1>9 DEF StartDrain, InFlight, Unsent
  <2> QED BY <1>9, <1>b, <2>1, <2>2 DEF StartDrain
<1>c. \A j \in OneShot : pc = "draining" => j # cur
  BY <1>0 DEF HolderInv
<1>10. CASE DrainDone
  <2>1. HolderInv'
    BY <1>0, <1>10 DEF DrainDone, HolderInv
  <2>2. \A j \in OneShot : InFlight(j)' \subseteq InFlight(j) /\ (Unsent(j)' => Unsent(j))
    BY <1>0, <1>c, <1>10 DEF DrainDone, InFlight, Unsent, SentToAgent, Command
  <2> QED BY <1>10, <1>b, <2>1, <2>2 DEF DrainDone
<1>11. CASE SendFails
  <2>1. HolderInv' /\ \A k \in OneShot : Unsent(k)' => Unsent(k)
    BY <1>0, <1>11, TransientErrorOnce DEF SendFails
  <2>2. \A j \in OneShot : InFlight(j)' \subseteq InFlight(j)
    BY <1>11 DEF SendFails, InFlight
  <2> QED BY <1>11, <1>b, <2>1, <2>2 DEF SendFails
<1>12. CASE DrainFails
  <2>1. HolderInv' /\ \A k \in OneShot : Unsent(k)' => Unsent(k)
    BY <1>0, <1>12, TransientErrorOnce DEF DrainFails
  <2>2. \A j \in OneShot : InFlight(j)' \subseteq InFlight(j)
    BY <1>c, <1>12 DEF DrainFails, InFlight, SentToAgent, Command
  <2> QED BY <1>12, <1>b, <2>1, <2>2 DEF DrainFails
<1>13. CASE ReceiveReply
  <2>1. PICK o \in {"ok", "error"} : Finish(o)
    BY <1>13 DEF ReceiveReply
  <2>2. HolderInv' /\ \A k \in OneShot : Unsent(k)' => Unsent(k)
    BY <1>0, <2>1 DEF Finish, HolderInv, Unsent, TypeOK
  <2>3. \A j \in OneShot : InFlight(j)' \subseteq InFlight(j)
    BY <1>13 DEF ReceiveReply, InFlight
  <2> QED BY <1>13, <1>b, <2>2, <2>3 DEF ReceiveReply
<1>14. CASE ReplyLost
  <2>1. HolderInv' /\ \A k \in OneShot : Unsent(k)' => Unsent(k)
    BY <1>0, <1>14, TransientErrorOnce DEF ReplyLost
  <2>2. \A j \in OneShot : InFlight(j)' \subseteq InFlight(j)
    BY <1>14 DEF ReplyLost, InFlight
  <2> QED BY <1>14, <1>b, <2>1, <2>2 DEF ReplyLost
<1>15. CASE Cancel
  <2>1. HolderInv' /\ \A k \in OneShot : Unsent(k)' => Unsent(k)
    BY <1>0, <1>15 DEF Cancel, Finish, HolderInv, Unsent, TypeOK
  <2>2. \A j \in OneShot : InFlight(j)' \subseteq InFlight(j)
    BY <1>c, <1>15 DEF Cancel, InFlight, SentToAgent, Command
  <2> QED BY <1>15, <1>b, <2>1, <2>2 DEF Cancel
<1>16. CASE Accept \/ WriteReply \/ PeerGone \/ PeerSilent \/ Boot
  BY <1>16, <1>a DEF Accept, WriteReply, PeerGone, PeerSilent, Boot
<1>17. CASE SendChallenge \/ AcceptPeer
  BY <1>17, <1>a DEF SendChallenge, AcceptPeer
<1>18. CASE RefusePeer \/ WriteFails
  BY <1>18, <1>a DEF RefusePeer, WriteFails
\* The one step that runs a handler: it consumes the only frame of its call.
<1>19. CASE Execute
  <2>1. PICK f \in First(toAgent, serving) : toAgent' = toAgent \ {f} /\ Handle(f)
    BY <1>19 DEF Execute
  <2>2. HolderInv'
    BY <1>0, <1>19 DEF Execute, HolderInv
  <2>3. ASSUME NEW k \in OneShot PROVE OnceInv(k)'
    <3>1. CASE k = f.call
      <4>1. f \in InFlight(k)
        BY <3>1 DEF First, On, InFlight
      <4>2. applied[k] = 0 /\ ~Unsent(k) /\ InFlight(k)' = {}
        BY <1>0, <2>1, <4>1 DEF OnceInv, InFlight
      <4>3. applied'[k] \in {0, 1}
        BY <1>0, <2>1, <3>1, <4>2 DEF Handle, TypeOK
      <4>4. ~Unsent(k)'
        BY <1>19, <4>2 DEF Execute, Unsent
      <4> QED BY <4>2, <4>3, <4>4 DEF OnceInv
    <3>2. CASE k # f.call
      <4>1. InFlight(k)' \subseteq InFlight(k) /\ (Unsent(k)' => Unsent(k))
        BY <1>19, <2>1 DEF Execute, InFlight, Unsent
      <4>2. applied'[k] = applied[k]
        BY <1>0, <2>1, <3>2 DEF Handle, TypeOK
      <4> QED BY <1>0, <4>1, <4>2, QuietStep
    <3> QED BY <3>1, <3>2
  <2> QED BY <2>2, <2>3 DEF AtMostOnceInv
<1>20. CASE Drop \/ Crash
  BY <1>20, <1>a DEF Drop, Crash, Prefix
<1>21. CASE UNCHANGED vars
  BY <1>21, <1>a DEF vars
<1> QED
  BY <1>1, <1>2, <1>3, <1>4, <1>5, <1>6, <1>7, <1>8, <1>9, <1>10, <1>11, <1>12, <1>13,
     <1>14, <1>15, <1>16, <1>17, <1>18, <1>19, <1>20, <1>21, <1>22
     DEF Next, ClientNext, AgentNext, EnvNext

\* The inductive invariant holds of every state of the specification.
LEMMA AtMostOnceInvariant == Spec => []AtMostOnceInv
<1>1. Init => AtMostOnceInv
  BY CallsAssumption DEF Init, AtMostOnceInv, HolderInv, OnceInv, OneShot, InFlight, Unsent
<1> QED BY <1>1, TypeCorrect, AtMostOnceStep, PTL DEF Spec

\* No sequence of losses, timeouts, reconnections, cancellations, crashes and retries
\* makes the agent run a one-shot call twice: the retry rule of AgentClient.call is
\* sound for every command whose request is written whole.
THEOREM RunsAtMostOnce == Spec => []AtMostOnce
<1>1. AtMostOnceInv => AtMostOnce
  BY DEF AtMostOnceInv, OnceInv, AtMostOnce
<1> QED BY <1>1, AtMostOnceInvariant, PTL

\* A one-shot call reported as "unreachable" or refused at the handshake has not run.
THEOREM UnreachableNeverRan == Spec => []UnreachableIsUntouched
<1>1. TypeOK /\ AtMostOnceInv => UnreachableIsUntouched
  <2> SUFFICES ASSUME AtMostOnceInv, NEW k \in OneShot,
                      outcome[k] \in {"unreachable", "denied", "frameTooBig"}
               PROVE  applied[k] = 0
    BY DEF UnreachableIsUntouched
  <2>1. ~(cur = k /\ pc = "reading")
    BY DEF AtMostOnceInv, HolderInv
  <2> QED BY <2>1 DEF AtMostOnceInv, OnceInv, Unsent
<1> QED BY <1>1, TypeCorrect, AtMostOnceInvariant, PTL

-----------------------------------------------------------------------------
(***************************************************************************)
(* Answers match their calls.                                              *)
(***************************************************************************)

\* A request and a reply are never the same frame.
LEMMA RequestIsNoReply == Request \cap Reply = {}
BY DEF Request, Reply

\* Losing frames disturbs nothing.
LEMMA FewerFrames ==
  ASSUME Numbered, OnlyTheAwaited,
         UNCHANGED <<pc, cur, conn, id, lastConn>>,
         Frames' \subseteq Frames,
         On(out, conn)' \cap toClient' = {}
  PROVE  Numbered' /\ OnlyTheAwaited'
BY DEF Numbered, OnlyTheAwaited, On

\* Once the connection is discarded no frame is on the connection in use.
LEMMA Discarded ==
  ASSUME TypeOK, Numbered, UNCHANGED lastConn, conn' = 0, pc' \in {"idle"} \cup Opening,
         \A f \in Frames' : f \in Frames \/ (f.conn = conn /\ conn # 0)
  PROVE  Numbered' /\ OnlyTheAwaited'
<1>1. Numbered'
  BY DEF Numbered, TypeOK
<1>2. On(Frames, conn)' = {} /\ On(out, conn)' = {}
  BY <1>1 DEF Numbered, On, Frames
<1> QED BY <1>1, <1>2 DEF OnlyTheAwaited

\* The agent answers the request it has read.
LEMMA Answered ==
  ASSUME TypeOK, Numbered, OnlyTheAwaited,
         UNCHANGED <<pc, cur, conn, id, lastConn>>,
         NEW f \in On(toAgent, serving), NEW kind,
         toAgent' \subseteq toAgent \ {f},
         \/ /\ out' \subseteq {Answer(f, kind)}
            /\ toClient' = toClient
         \/ /\ out' \subseteq out
            /\ toClient' \in {toClient, toClient \cup {Answer(f, kind)}}
  PROVE  Numbered' /\ OnlyTheAwaited'
<1> DEFINE r == Answer(f, kind)
<1>1. r.conn = f.conn /\ r.id = f.id /\ r.call = f.call
  BY DEF Answer, On
<1>2. f \in Frames /\ f \notin toClient \cup out
  BY RequestIsNoReply DEF Frames, On, TypeOK
<1>3. Frames' \subseteq (Frames \ {f}) \cup {r}
  BY <1>2 DEF Frames
<1>4. Numbered'
  BY <1>1, <1>2, <1>3 DEF Numbered
<1>5. CASE f.conn = conn
  <2>1. On(Frames, conn)' \subseteq {r}
    BY <1>2, <1>3, <1>5 DEF OnlyTheAwaited, On
  <2>2. On(toClient, conn) = {} /\ On(out, conn) = {}
    BY <1>2, <1>5 DEF OnlyTheAwaited, On, Frames
  <2>3. On(out, conn)' \cap toClient' = {}
    BY <2>2, <1>5 DEF On
  <2> QED BY <1>1, <1>2, <1>4, <1>5, <2>1, <2>3 DEF OnlyTheAwaited, On
<1>6. CASE f.conn # conn
  <2>1. On(Frames, conn)' \subseteq On(Frames, conn)
    BY <1>1, <1>3, <1>6 DEF On
  <2>2. On(out, conn)' \cap toClient' = {}
    BY <1>1, <1>6 DEF On, OnlyTheAwaited
  <2> QED BY <1>4, <2>1, <2>2 DEF OnlyTheAwaited
<1> QED BY <1>5, <1>6

\* The client writes a request to a connection on which nothing is in flight.
LEMMA Asked ==
  ASSUME TypeOK, Numbered,
         UNCHANGED <<lastConn, out>>, conn' = conn, conn # 0,
         pc' \in Waiting, id' \in Nat,
         NEW f, f.conn = conn, f.id = id', pc' = "reading" => f.call = cur',
         On(Frames, conn) \ (toClient \ toClient') = {},
         On(out, conn) = {}, toClient' \subseteq toClient,
         toAgent' \in {toAgent, toAgent \cup {f}}
  PROVE  Numbered' /\ OnlyTheAwaited'
<1>1. Frames' \subseteq Frames \cup {f}
  BY DEF Frames
<1>2. Numbered'
  BY <1>1 DEF Numbered, TypeOK
<1>3. On(Frames, conn)' \subseteq {f}
  <2> SUFFICES ASSUME NEW g \in Frames', g.conn = conn, g # f PROVE FALSE
    BY DEF On
  <2>1. g \in On(Frames, conn)
    BY <1>1 DEF On
  <2>2. g \notin toClient'
    BY <2>1
  <2>3. g \in toAgent
    BY <2>2 DEF Frames, On
  <2> QED
    BY <2>1, <2>3, RequestIsNoReply DEF TypeOK
<1> QED BY <1>2, <1>3 DEF OnlyTheAwaited, On

\* An exchange fails and its connection goes with it.
LEMMA GivenUp ==
  ASSUME TypeOK, Numbered, Discard, lastConn' = lastConn, out' = out,
         pc' \in {"idle"} \cup Opening,
         toAgent' = toAgent \/ (pc = "draining" /\ toAgent' = SentToAgent(Command))
  PROVE  Numbered' /\ OnlyTheAwaited'
<1>1. ASSUME NEW f \in Frames' PROVE f \in Frames \/ (f.conn = conn /\ conn # 0)
  <2>1. CASE toAgent' = toAgent
    BY <2>1 DEF Discard, Frames
  <2>2. CASE pc = "draining" /\ toAgent' = SentToAgent(Command)
    <3>1. Frames' \subseteq Frames \cup {Command}
      BY <2>2 DEF Discard, Frames, SentToAgent
    <3>2. Command.conn = conn /\ conn # 0
      BY <2>2 DEF Command, Numbered, Opening
    <3> QED BY <3>1, <3>2
  <2> QED BY <2>1, <2>2
<1> QED BY <1>1, Discarded DEF Discard

\* The client takes the only frame on its connection and stops waiting.
LEMMA Taken ==
  ASSUME TypeOK, Numbered, OnlyTheAwaited,
         NEW g \in First(toClient, conn), toClient' = toClient \ {g},
         UNCHANGED <<conn, lastConn, toAgent, out>>,
         pc \notin {"idle"} \cup Opening
  PROVE  Numbered' /\ OnlyTheAwaited'
<1>1. g \in On(Frames, conn) /\ g \in toClient /\ g.conn = conn
  BY DEF First, On, Frames
<1>2. On(Frames, conn) = {g} /\ On(out, conn) = {}
  BY <1>1 DEF OnlyTheAwaited, On, Frames
<1>3. g \notin toAgent
  BY <1>1, RequestIsNoReply DEF TypeOK
<1>4. On(Frames, conn)' = {} /\ On(out, conn)' = {}
  BY <1>1, <1>2, <1>3 DEF On, Frames
<1>5. Numbered'
  BY DEF Numbered, Frames
<1> QED BY <1>4, <1>5 DEF OnlyTheAwaited

\* A call that has been cancelled stays so, and cancelling one makes it so.
LEMMA CancelledStays ==
  ASSUME TypeOK, HolderInv, [Next]_vars, Uncancelled'
  PROVE  Uncancelled /\ ~Cancel
<1> USE DEF client, sockets, agent, env
<1>1. outcome' = outcome \/ \E o \in Outcomes : Finish(o) /\ pc # "idle"
  BY DEF Next, ClientNext, AgentNext, EnvNext, vars, StartCall, Open, OpenFails, Opening,
     HandshakeFails, FallBackToLegacy, TransientError, ReceiveChallenge, ReceiveWelcome,
     ReceiveDenied, RejectOversized, Send, StartDrain, DrainDone, SendFails, DrainFails,
     ReceiveReply, ReplyLost, Cancel, Accept, SendChallenge, AcceptPeer, RefusePeer,
     Execute, WriteReply, WriteFails, PeerGone, PeerSilent, Drop, Crash, Boot, Outcomes
<1>2. Uncancelled
  <2>1. CASE outcome' = outcome
    BY <2>1 DEF Uncancelled
  <2>2. ASSUME NEW o \in Outcomes, Finish(o), pc # "idle" PROVE Uncancelled
    BY <2>2 DEF Uncancelled, Finish, HolderInv, TypeOK
  <2> QED BY <1>1, <2>1, <2>2
<1>3. ~Cancel
  BY DEF Cancel, Finish, Uncancelled, HolderInv, TypeOK
<1> QED BY <1>2, <1>3

LEMMA OneExchangeStep ==
  TypeOK /\ HolderInv /\ OneExchange /\ [Next]_vars => OneExchange'
<1> SUFFICES ASSUME TypeOK, Uncancelled', Numbered, OnlyTheAwaited, [Next]_vars,
                    ~Cancel
             PROVE  Numbered' /\ OnlyTheAwaited'
  BY CancelledStays DEF OneExchange
<1> USE DEF client, sockets, agent, env
<1>a. conn \in Nat /\ id \in Nat /\ lastConn \in Nat
  BY DEF TypeOK
\* While the client does not wait, nothing is on its connection.
<1>b. pc \notin Waiting => On(Frames, conn) = {} /\ On(out, conn) = {}
  BY DEF OnlyTheAwaited, On, Frames
\* The frame the client reads is the only one on its connection.
<1>c. ASSUME NEW f \in First(toClient, conn)
      PROVE  On(Frames, conn) = {f} /\ On(out, conn) = {}
  <2>1. f \in On(Frames, conn) /\ f \in toClient
    BY DEF First, On, Frames
  <2> QED BY <2>1 DEF OnlyTheAwaited, On, Frames
<1>d. \A f \in Frames : f.conn # 0
  BY DEF Numbered, Frames, TypeOK
<1>1. ASSUME NEW k \in Calls, StartCall(k) PROVE Numbered' /\ OnlyTheAwaited'
  <2>1. UNCHANGED <<conn, lastConn, toAgent, toClient, out>> /\ pc = "idle"
    BY <1>1 DEF StartCall
  <2>2. On(Frames, conn)' = {} /\ On(out, conn)' = {}
    BY <2>1, <1>b DEF Waiting, On, Frames
  <2>3. pc' \notin {"idle"} \cup Opening => conn' # 0
    BY <1>1 DEF StartCall, Opening
  <2>4. Numbered'
    BY <2>1, <2>3 DEF Numbered, Frames
  <2> QED BY <2>2, <2>4 DEF OnlyTheAwaited
<1>2. CASE Open
  <2> DEFINE f == [conn |-> lastConn + 1, id |-> id + 1,
                   kind |-> IF pc = "opening" THEN "hello" ELSE "legacy", call |-> NoCall]
  <2>1. Frames' \subseteq Frames \cup {f}
    BY <1>2 DEF Open, Frames, On
  <2>2. pc' \in Waiting /\ pc' # "reading" /\ conn' = lastConn + 1
        /\ lastConn' = lastConn + 1 /\ id' = id + 1
    BY <1>2 DEF Open, Waiting
  <2>3. Numbered'
    <3>1. \A g \in Frames' : 1 <= g.conn /\ g.conn <= lastConn + 1
      BY <2>1, <1>a DEF Numbered, Frames, TypeOK, Request, Reply
    <3> QED BY <2>2, <3>1, <1>a DEF Numbered
  <2>4. On(Frames, conn)' \subseteq {f} /\ On(out, conn)' = {}
    BY <1>2, <2>1, <1>a DEF Open, On, Numbered, Frames
  <2> QED BY <2>2, <2>3, <2>4 DEF OnlyTheAwaited, On
<1>3. CASE OpenFails
  <2>1. Discard /\ lastConn' = lastConn /\ out' = out /\ toAgent' = toAgent
        /\ pc' \in {"idle"} \cup Opening
    BY <1>3 DEF OpenFails, TransientError, Finish, Opening
  <2> QED BY <2>1, GivenUp
<1>4. CASE HandshakeFails
  <2>1. Discard /\ lastConn' = lastConn /\ out' = out /\ toAgent' = toAgent
        /\ pc' \in {"idle"} \cup Opening
    BY <1>4 DEF HandshakeFails, TransientError, FallBackToLegacy, Finish, Opening
  <2> QED BY <2>1, GivenUp
<1>5. CASE ReceiveChallenge
  <2> DEFINE f == [conn |-> conn, id |-> id + 1, kind |-> "auth", call |-> NoCall]
  <2>1. PICK g \in First(toClient, conn) : toClient' = toClient \ {g}
    BY <1>5 DEF ReceiveChallenge
  <2>2. On(Frames, conn) = {g} /\ On(out, conn) = {} /\ g \in toClient /\ conn # 0
    BY <1>c, <1>d DEF First, On, Frames
  <2>3. toAgent' \in {toAgent, toAgent \cup {f}}
    BY <1>5 DEF ReceiveChallenge, SentToAgent
  <2>4. pc' = "auth" /\ id' = id + 1 /\ UNCHANGED <<conn, lastConn, out>>
    BY <1>5 DEF ReceiveChallenge
  <2>5. On(Frames, conn) \ (toClient \ toClient') = {} /\ toClient' \subseteq toClient
    BY <2>1, <2>2
  <2>6. f.conn = conn /\ f.id = id' /\ id' \in Nat /\ pc' \in Waiting
    BY <2>4, <1>a DEF Waiting
  <2> HIDE DEF f
  <2> QED BY <2>2, <2>3, <2>4, <2>5, <2>6, Asked
<1>6. CASE ReceiveWelcome
  <2>1. PICK g \in First(toClient, conn) : toClient' = toClient \ {g}
    BY <1>6 DEF ReceiveWelcome
  <2>2. UNCHANGED <<conn, lastConn, toAgent, out>> /\ pc \notin {"idle"} \cup Opening
    BY <1>6 DEF ReceiveWelcome, Opening
  <2> QED BY <2>1, <2>2, Taken
<1>7. CASE ReceiveDenied
  <2>1. CASE FallBackToLegacy
    <3>1. Discard /\ lastConn' = lastConn /\ out' = out /\ toAgent' = toAgent
        /\ pc' \in {"idle"} \cup Opening
      BY <1>7, <2>1 DEF ReceiveDenied, FallBackToLegacy, Opening
    <3> QED BY <3>1, GivenUp
  <2>2. CASE ~FallBackToLegacy
    <3>1. PICK g \in First(toClient, conn) : toClient' = toClient \ {g}
      BY <1>7, <2>2 DEF ReceiveDenied
    <3>2. UNCHANGED <<conn, lastConn, toAgent, out>> /\ pc \notin {"idle"} \cup Opening
      BY <1>7, <2>2 DEF ReceiveDenied, Opening
    <3> QED BY <3>1, <3>2, Taken
  <2> QED BY <2>1, <2>2
<1>26. CASE RejectOversized
  <2>1. UNCHANGED <<conn, lastConn, toAgent, toClient, out>> /\ pc' = "idle" /\ pc = "send"
    BY <1>26 DEF RejectOversized, Finish
  <2>2. On(Frames, conn)' = {} /\ On(out, conn)' = {}
    BY <2>1, <1>b DEF Waiting, On, Frames
  <2>3. Numbered'
    BY <2>1 DEF Numbered, Frames
  <2> QED BY <2>2, <2>3 DEF OnlyTheAwaited
<1>8. CASE Send
  <2> DEFINE f == [Command EXCEPT !.id = id + 1]
  <2>1. f.conn = conn /\ f.id = id' /\ f.call = cur'
    BY <1>8 DEF Send, Command
  <2>2. toAgent' \in {toAgent, toAgent \cup {f}}
    BY <1>8 DEF Send, SentToAgent
  <2>3. On(Frames, conn) = {} /\ On(out, conn) = {} /\ conn # 0
    BY <1>8, <1>b DEF Send, Waiting, Numbered, Opening
  <2>4. pc' \in Waiting /\ id' \in Nat /\ UNCHANGED <<conn, lastConn, out, toClient>>
    BY <1>8, <1>a DEF Send, Waiting
  <2> HIDE DEF f
  <2> QED BY <2>1, <2>2, <2>3, <2>4, Asked
<1>9. CASE StartDrain
  BY <1>9, <1>b DEF StartDrain, Waiting, Opening, Numbered, OnlyTheAwaited, Frames, On
<1>10. CASE DrainDone
  <2> DEFINE f == Command
  <2>1. f.conn = conn /\ f.id = id' /\ f.call = cur'
    BY <1>10 DEF DrainDone, Command
  <2>2. toAgent' \in {toAgent, toAgent \cup {f}}
    BY <1>10 DEF DrainDone, SentToAgent
  <2>3. On(Frames, conn) = {} /\ On(out, conn) = {} /\ conn # 0
    BY <1>10, <1>b DEF DrainDone, Waiting, Numbered, Opening
  <2>4. pc' \in Waiting /\ id' \in Nat /\ UNCHANGED <<conn, lastConn, out, toClient>>
    BY <1>10, <1>a DEF DrainDone, Waiting
  <2> HIDE DEF f
  <2> QED BY <2>1, <2>2, <2>3, <2>4, Asked
<1>11. CASE SendFails
  <2>1. Discard /\ lastConn' = lastConn /\ out' = out /\ toAgent' = toAgent
        /\ pc' \in {"idle"} \cup Opening
    BY <1>11 DEF SendFails, TransientError, Finish, Opening
  <2> QED BY <2>1, GivenUp
<1>12. CASE DrainFails
  <2>1. Discard /\ lastConn' = lastConn /\ out' = out
        /\ pc' \in {"idle"} \cup Opening
    BY <1>12 DEF DrainFails, TransientError, Finish, Opening
  <2>2. pc = "draining" /\ toAgent' \in {toAgent, SentToAgent(Command)}
    BY <1>12 DEF DrainFails
  <2> QED BY <2>1, <2>2, GivenUp
<1>13. CASE ReceiveReply
  <2>1. PICK g \in First(toClient, conn) : toClient' = toClient \ {g}
    BY <1>13 DEF ReceiveReply
  <2>2. UNCHANGED <<conn, lastConn, toAgent, out>> /\ pc \notin {"idle"} \cup Opening
    BY <1>13 DEF ReceiveReply, Opening
  <2> QED BY <2>1, <2>2, Taken
<1>14. CASE ReplyLost
  <2>1. Discard /\ lastConn' = lastConn /\ out' = out /\ toAgent' = toAgent
        /\ pc' \in {"idle"} \cup Opening
    BY <1>14 DEF ReplyLost, TransientError, Finish, Opening
  <2> QED BY <2>1, GivenUp
<1>16. CASE Accept \/ PeerGone \/ PeerSilent \/ Boot
  BY <1>16, FewerFrames DEF Accept, PeerGone, PeerSilent, HangUp, Boot, Frames, On, OnlyTheAwaited
<1>17. CASE SendChallenge
  <2>1. PICK f \in On(toAgent, serving) :
          toAgent' = toAgent \ {f} /\ toClient' = SentToClient(Answer(f, "challenge"))
    BY <1>17 DEF SendChallenge, First
  <2>2. UNCHANGED <<pc, cur, conn, id, lastConn, out>>
    BY <1>17 DEF SendChallenge
  <2> QED BY <2>1, <2>2, Answered DEF SentToClient
<1>18. CASE AcceptPeer
  <2>1. PICK f \in On(toAgent, serving) :
          toAgent' = toAgent \ {f} /\ toClient' = SentToClient(Answer(f, "welcome"))
    BY <1>18 DEF AcceptPeer, First
  <2>2. UNCHANGED <<pc, cur, conn, id, lastConn, out>>
    BY <1>18 DEF AcceptPeer
  <2> QED BY <2>1, <2>2, Answered DEF SentToClient
<1>19. CASE RefusePeer
  <2>1. PICK f \in On(toAgent, serving) :
          /\ toAgent' = toAgent \ On(toAgent, serving)
          /\ toClient' = SentToClient(Answer(f, "denied"))
    BY <1>19 DEF RefusePeer, First
  <2>2. UNCHANGED <<pc, cur, conn, id, lastConn>> /\ out' = {}
    BY <1>19 DEF RefusePeer, HangUp
  <2> QED BY <2>1, <2>2, Answered DEF SentToClient
<1>20. CASE Execute
  <2>1. PICK f \in On(toAgent, serving) : toAgent' = toAgent \ {f} /\ Handle(f)
    BY <1>20 DEF Execute, First
  <2>2. UNCHANGED <<pc, cur, conn, id, lastConn, toClient>>
    BY <1>20 DEF Execute
  <2>3. PICK kind \in {"ok", "error"} : out' = {Answer(f, kind)}
    BY <2>1 DEF Handle
  <2> QED BY <2>1, <2>2, <2>3, Answered
<1>21. CASE WriteReply
  <2>1. UNCHANGED <<pc, cur, conn, id, lastConn, toAgent>> /\ out' = {}
    BY <1>21 DEF WriteReply
  <2>2. Frames' \subseteq Frames
    BY <1>21, <2>1 DEF WriteReply, SentToClient, Frames
  <2> QED BY <2>1, <2>2, FewerFrames DEF On
<1>22. CASE WriteFails
  BY <1>22, FewerFrames DEF WriteFails, HangUp, Frames, On
<1>23. CASE Drop
  BY <1>23, FewerFrames DEF Drop, Prefix, Frames, On, OnlyTheAwaited
<1>24. CASE Crash
  BY <1>24, FewerFrames DEF Crash, Prefix, Frames, On
<1>25. CASE UNCHANGED vars
  BY <1>25, FewerFrames DEF vars, Frames, On, OnlyTheAwaited
<1> QED
  BY <1>1, <1>2, <1>3, <1>4, <1>5, <1>6, <1>7, <1>8, <1>9, <1>10, <1>11, <1>12, <1>13,
     <1>14, <1>16, <1>17, <1>18, <1>19, <1>20, <1>21, <1>22, <1>23, <1>24, <1>25, <1>26
     DEF Next, ClientNext, AgentNext, EnvNext

LEMMA OneExchangeInvariant == Spec => []OneExchange
<1>1. Init => OneExchange
  BY DEF Init, OneExchange, Numbered, OnlyTheAwaited, Frames, On
<1>2. AtMostOnceInv => HolderInv
  BY DEF AtMostOnceInv
<1> QED BY <1>1, <1>2, TypeCorrect, AtMostOnceInvariant, OneExchangeStep, PTL DEF Spec

LEMMA AnswersMatchStep ==
  TypeOK /\ HolderInv /\ OneExchange /\ AnswersMatch /\ [Next]_vars => AnswersMatch'
<1> SUFFICES ASSUME TypeOK, HolderInv, Uncancelled, Uncancelled', ~Cancel,
                    OnlyTheAwaited, AnswersMatch, [Next]_vars
             PROVE  AnswersMatch'
  BY CancelledStays DEF OneExchange, AnswersMatch
<1> USE DEF client, sockets, agent, env
<1>a. UNCHANGED <<outcome, answer>> => AnswersMatch'
  BY DEF AnswersMatch
<1>b. ASSUME NEW o \in Outcomes \ {"ok", "error"}, Finish(o), UNCHANGED answer
      PROVE  AnswersMatch'
  BY <1>b DEF AnswersMatch, Finish, TypeOK
<1>c. ASSUME NEW sent \in BOOLEAN, TransientError(sent) PROVE AnswersMatch'
  BY <1>c, <1>a, <1>b DEF TransientError, Outcomes
<1>1. CASE ReceiveReply
  <2>1. PICK f \in First(toClient, conn) :
          /\ answer' = [answer EXCEPT ![cur] = f.call]
          /\ Finish(IF f.kind \in {"error", "denied"} THEN "error" ELSE "ok")
    BY <1>1 DEF ReceiveReply
  <2>2. f.call = cur /\ cur \in Calls
    BY <1>1 DEF ReceiveReply, First, On, Frames, OnlyTheAwaited, HolderInv
  <2> QED BY <2>1, <2>2 DEF AnswersMatch, Finish, TypeOK
<1>2. CASE OpenFails \/ SendFails \/ DrainFails \/ ReplyLost
  BY <1>2, <1>c DEF OpenFails, SendFails, DrainFails, ReplyLost
<1>3. CASE HandshakeFails
  BY <1>3, <1>a, <1>c DEF HandshakeFails, FallBackToLegacy
<1>4. CASE ReceiveDenied
  BY <1>4, <1>a, <1>b DEF ReceiveDenied, FallBackToLegacy, Outcomes
<1>9. CASE RejectOversized
  BY <1>9, <1>b DEF RejectOversized, Outcomes
<1>6. CASE \/ \E k \in Calls : StartCall(k)
           \/ Open \/ ReceiveChallenge \/ ReceiveWelcome \/ Send \/ StartDrain \/ DrainDone
  BY <1>6, <1>a DEF StartCall, Open, ReceiveChallenge, ReceiveWelcome, Send, StartDrain, DrainDone
<1>7. CASE AgentNext
  BY <1>7, <1>a DEF AgentNext, Accept, SendChallenge, AcceptPeer, RefusePeer, Execute,
                   WriteReply, WriteFails, PeerGone, PeerSilent
<1>8. CASE EnvNext \/ UNCHANGED vars
  BY <1>8, <1>a DEF EnvNext, Drop, Crash, Boot, vars
<1> QED
  BY <1>1, <1>2, <1>3, <1>4, <1>6, <1>7, <1>8, <1>9 DEF Next, ClientNext

\* As long as no caller cancels, a reply is never taken for the reply to another call,
\* although _roundtrip does not compare ids.
THEOREM AnswersAlwaysMatch == Spec => []AnswersMatch
<1>1. Init => AnswersMatch
  BY DEF Init, AnswersMatch
<1>2. AtMostOnceInv => HolderInv
  BY DEF AtMostOnceInv
<1> QED
  BY <1>1, <1>2, TypeCorrect, AtMostOnceInvariant, OneExchangeInvariant, AnswersMatchStep,
     PTL DEF Spec

-----------------------------------------------------------------------------
(***************************************************************************)
(* Authentication.                                                         *)
(***************************************************************************)

\* No handler runs without the right token, through any number of handshakes,
\* cancelled ones included, and restarts with another token.
THEOREM OnlyAuthenticatedRun == Spec => OnlyAuthenticated
<1> USE DEF client, sockets, agent, env
<1>1. Init => SessionInv
  BY DEF Init, SessionInv
<1>2. SessionInv /\ [Next]_vars => SessionInv'
  <2> SUFFICES ASSUME SessionInv, [Next]_vars PROVE SessionInv'
    OBVIOUS
  <2> USE DEF SessionInv
  <2>1. CASE ClientNext
    BY <2>1 DEF ClientNext, StartCall, Open, OpenFails, HandshakeFails, ReceiveChallenge,
       ReceiveWelcome, ReceiveDenied, RejectOversized, Send, StartDrain, DrainDone,
       SendFails, DrainFails, ReceiveReply, ReplyLost, Cancel
  <2>2. CASE AcceptPeer
    BY <2>2 DEF AcceptPeer, Accepts
  <2>3. CASE AgentNext /\ ~AcceptPeer
    BY <2>3 DEF AgentNext, Accept, SendChallenge, RefusePeer, Execute, WriteReply,
       WriteFails, PeerGone, PeerSilent, HangUp
  <2>4. CASE EnvNext
    BY <2>4 DEF EnvNext, Drop, Crash, Boot
  <2>5. CASE UNCHANGED vars
    BY <2>5 DEF vars
  <2> QED
    BY <2>1, <2>2, <2>3, <2>4, <2>5 DEF Next
<1>3. SessionInv /\ [Next]_vars => [applied' # applied => tokenMatches]_vars
  <2> SUFFICES ASSUME SessionInv, Next, applied' # applied PROVE tokenMatches
    BY DEF vars
  <2>1. Execute
    BY DEF Next, ClientNext, AgentNext, EnvNext, StartCall, Open, OpenFails, HandshakeFails,
       ReceiveChallenge, ReceiveWelcome, ReceiveDenied, RejectOversized, Send, StartDrain,
       DrainDone, SendFails, DrainFails, ReceiveReply, ReplyLost, Cancel, Accept,
       SendChallenge, AcceptPeer, RefusePeer, WriteReply, WriteFails, PeerGone, PeerSilent,
       Drop, Crash, Boot
  <2> QED BY <2>1 DEF Execute, SessionInv
<1> QED BY <1>1, <1>2, <1>3, PTL DEF Spec, OnlyAuthenticated

-----------------------------------------------------------------------------
(* Session implements RemoteCall, and no call runs after its fate has been   *)
(* reported.                                                                 *)

\* Frames read or lost and a connection given up do not disturb the order in which
\* the agent serves.
LEMMA FewerToServe ==
  ASSUME TypeOK, OldestFirst,
         UNCHANGED <<lastConn, backlog, serving, stage>>,
         conn' \in {0, conn}, pc' \notin {"idle"} \cup Opening => conn' # 0,
         hungUp' = hungUp, lost \subseteq lost',
         toAgent' \subseteq toAgent,
         toClient' \cup out' \subseteq toClient \cup out
  PROVE  OldestFirst'
BY DEF OldestFirst, TypeOK

\* A request is written to the connection in use.
LEMMA Requested ==
  ASSUME TypeOK, OldestFirst,
         UNCHANGED <<lastConn, backlog, serving, stage, hungUp, lost, out>>,
         conn # 0, conn' \in {0, conn}, pc' \notin {"idle"} \cup Opening => conn' # 0,
         NEW f, f.conn = conn, toAgent' \in {toAgent, SentToAgent(f)},
         toClient' \subseteq toClient
  PROVE  OldestFirst'
BY DEF OldestFirst, TypeOK, SentToAgent

\* The agent answers a request of the connection it serves.
LEMMA AnswerInOrder ==
  ASSUME TypeOK, OldestFirst,
         UNCHANGED <<pc, conn, lastConn, backlog, serving, hungUp, lost>>,
         serving # 0, stage' # "accept",
         toAgent' \subseteq toAgent,
         \A r \in toClient' \cup out' : r \in toClient \cup out \/ r.conn = serving
  PROVE  OldestFirst'
BY DEF OldestFirst, TypeOK

\* The agent is done with the connection it served; what it held is gone.
LEMMA HungUpInOrder ==
  ASSUME TypeOK, OldestFirst, HangUp, serving # 0,
         UNCHANGED <<pc, conn, lastConn, backlog, lost>>,
         toAgent' \subseteq toAgent \ On(toAgent, serving),
         \A r \in toClient' : r \in toClient \/ r.conn = serving
  PROVE  OldestFirst'
BY DEF OldestFirst, TypeOK, HangUp, On

LEMMA OldestFirstStep == TypeOK /\ HolderInv /\ OldestFirst /\ [Next]_vars => OldestFirst'
<1> SUFFICES ASSUME TypeOK, HolderInv, OldestFirst, [Next]_vars PROVE OldestFirst'
  OBVIOUS
<1> USE DEF client, sockets, agent, env
<1>a. (pc = "idle" \/ pc \in Opening) \/ conn # 0
  BY DEF OldestFirst
<1>b. ASSUME NEW sent \in BOOLEAN, TransientError(sent)
      PROVE  /\ conn' = 0 /\ pc' \in {"idle"} \cup Opening /\ lastConn' = lastConn
             /\ toClient' \subseteq toClient
  BY <1>b DEF TransientError, Discard, Finish, Opening
<1>1. ASSUME NEW k \in Calls, StartCall(k) PROVE OldestFirst'
  BY <1>1, FewerToServe DEF StartCall, Opening
<1>2. CASE Open
  <2>1. /\ lastConn' = lastConn + 1 /\ conn' = lastConn' /\ backlog' = backlog \cup {lastConn'}
        /\ UNCHANGED <<serving, stage, out>> /\ toClient' \subseteq toClient
        /\ lastConn \in Nat
    BY <1>2 DEF Open, TypeOK
  <2>2. \A f \in toAgent' : f \in toAgent \/ f.conn = lastConn'
    BY <1>2 DEF Open
  <2> QED BY <2>1, <2>2 DEF OldestFirst, TypeOK, Reply
<1>3. CASE OpenFails
  BY <1>3, <1>b, FewerToServe DEF OpenFails
<1>4. CASE HandshakeFails
  <2>1. CASE FallBackToLegacy
    BY <1>4, <2>1, FewerToServe DEF HandshakeFails, FallBackToLegacy, Discard, Opening
  <2>2. CASE TransientError(FALSE)
    BY <1>4, <2>2, <1>b, FewerToServe DEF HandshakeFails
  <2> QED BY <1>4, <2>1, <2>2 DEF HandshakeFails
<1>5. CASE ReceiveChallenge
  <2> DEFINE f == [conn |-> conn, id |-> id + 1, kind |-> "auth", call |-> NoCall]
  <2>1. toAgent' = SentToAgent(f) /\ toClient' \subseteq toClient /\ pc = "hello"
    BY <1>5 DEF ReceiveChallenge
  <2>2. conn # 0 /\ f.conn = conn
    BY <1>a, <2>1 DEF Opening
  <2> HIDE DEF f
  <2> QED BY <1>5, <2>1, <2>2, Requested DEF ReceiveChallenge
<1>6. CASE ReceiveWelcome
  BY <1>6, <1>a, FewerToServe DEF ReceiveWelcome, Opening
<1>7. CASE ReceiveDenied
  <2>1. CASE FallBackToLegacy
    BY <1>7, <2>1, FewerToServe DEF ReceiveDenied, FallBackToLegacy, Discard, Opening
  <2>2. CASE ~FallBackToLegacy
    BY <1>7, <2>2, FewerToServe DEF ReceiveDenied, Finish
  <2> QED BY <2>1, <2>2
<1>8. CASE RejectOversized
  BY <1>8, FewerToServe DEF RejectOversized, Finish
<1>9. CASE Send
  <2> DEFINE f == [Command EXCEPT !.id = id + 1]
  <2>1. toAgent' = SentToAgent(f) /\ toClient' = toClient /\ pc = "send"
    BY <1>9 DEF Send
  <2>2. conn # 0 /\ f.conn = conn
    BY <1>a, <2>1 DEF Opening, Command
  <2> HIDE DEF f
  <2> QED BY <1>9, <2>1, <2>2, Requested DEF Send
<1>10. CASE StartDrain
  BY <1>10, <1>a, FewerToServe DEF StartDrain, Opening
<1>c. pc = "draining" => conn # 0 /\ Command.conn = conn
  BY <1>a DEF Opening, Command
<1>11. CASE DrainDone
  BY <1>11, <1>c, Requested DEF DrainDone
<1>12. CASE SendFails
  BY <1>12, <1>b, FewerToServe DEF SendFails
<1>13. CASE DrainFails
  BY <1>13, <1>b, <1>c, Requested DEF DrainFails
<1>14. CASE ReceiveReply
  BY <1>14, FewerToServe DEF ReceiveReply, Finish
<1>15. CASE ReplyLost
  BY <1>15, <1>b, FewerToServe DEF ReplyLost
<1>16. CASE Cancel
  <2>1. CASE pc = "draining"
    BY <1>16, <2>1, <1>c, Requested DEF Cancel, Finish
  <2>2. CASE pc # "draining"
    BY <1>16, <2>2, FewerToServe DEF Cancel, Finish
  <2> QED BY <2>1, <2>2
\* accept() takes the oldest connection: every other one is newer.
<1>17. CASE Accept
  <2>1. PICK c \in backlog :
          (\A d \in backlog : c <= d) /\ serving' = c /\ backlog' = backlog \ {c}
    BY <1>17 DEF Accept
  <2>2. /\ UNCHANGED <<pc, conn, lastConn, toAgent, toClient, out, hungUp, lost>>
        /\ stage = "accept" /\ stage' = "hello" /\ serving = 0
    BY <1>17 DEF Accept, OldestFirst
  <2>3. c \in Nat /\ c # 0 /\ c <= lastConn /\ \A d \in backlog' : d \in Nat /\ c < d
    BY <2>1 DEF OldestFirst, TypeOK
  <2> QED BY <2>1, <2>2, <2>3 DEF OldestFirst, TypeOK, Reply
<1>d. stage # "accept" => serving # 0
  BY DEF OldestFirst
<1>e. \A f, kind : Answer(f, kind).conn = serving
  BY DEF Answer
<1>18. CASE SendChallenge
  <2>1. PICK f : toAgent' = toAgent \ {f} /\ toClient' = SentToClient(Answer(f, "challenge"))
    BY <1>18 DEF SendChallenge
  <2> QED BY <1>18, <1>d, <1>e, <2>1, AnswerInOrder DEF SendChallenge, SentToClient
<1>19. CASE AcceptPeer
  <2>1. PICK f : toAgent' = toAgent \ {f} /\ toClient' = SentToClient(Answer(f, "welcome"))
    BY <1>19 DEF AcceptPeer
  <2> QED BY <1>19, <1>d, <1>e, <2>1, AnswerInOrder DEF AcceptPeer, SentToClient
<1>20. CASE RefusePeer
  <2>1. PICK f : toClient' = SentToClient(Answer(f, "denied"))
    BY <1>20 DEF RefusePeer
  <2>2. serving # 0
    BY <1>20, <1>d DEF RefusePeer
  <2> QED BY <1>20, <1>e, <2>1, <2>2, HungUpInOrder DEF RefusePeer, SentToClient
<1>21. CASE Execute
  <2>1. PICK f : toAgent' = toAgent \ {f} /\ Handle(f)
    BY <1>21 DEF Execute
  <2>2. PICK kind \in {"ok", "error"} : out' = {Answer(f, kind)}
    BY <2>1 DEF Handle
  <2> QED BY <1>21, <1>d, <1>e, <2>1, <2>2, AnswerInOrder DEF Execute
<1>22. CASE WriteReply
  BY <1>22, <1>d, AnswerInOrder DEF WriteReply, SentToClient
<1>23. CASE WriteFails
  BY <1>23, <1>d, HungUpInOrder DEF WriteFails
<1>24. CASE PeerGone \/ PeerSilent
  BY <1>24, <1>d, HungUpInOrder DEF PeerGone, PeerSilent
<1>25. CASE Drop
  BY <1>25, FewerToServe DEF Drop, Prefix, OldestFirst
<1>26. CASE Crash
  BY <1>26 DEF Crash, Prefix, OldestFirst, TypeOK
<1>27. CASE Boot \/ UNCHANGED vars
  BY <1>27, FewerToServe DEF Boot, vars, OldestFirst
<1> QED
  BY <1>1, <1>2, <1>3, <1>4, <1>5, <1>6, <1>7, <1>8, <1>9, <1>10, <1>11, <1>12, <1>13,
     <1>14, <1>15, <1>16, <1>17, <1>18, <1>19, <1>20, <1>21, <1>22, <1>23, <1>24, <1>25,
     <1>26, <1>27
     DEF Next, ClientNext, AgentNext, EnvNext

LEMMA OldestFirstInvariant == Spec => []OldestFirst
<1>1. Init => OldestFirst
  BY DEF Init, OldestFirst
<1>2. AtMostOnceInv => HolderInv
  BY DEF AtMostOnceInv
<1> QED BY <1>1, <1>2, TypeCorrect, AtMostOnceInvariant, OldestFirstStep, PTL DEF Spec

\* When the reply awaited is there to be read, no request is left anywhere: the one
\* it answers has been consumed and older connections have been served and closed.
LEMMA NothingPending ==
  ASSUME TypeOK, OldestFirst, Numbered, OnlyTheAwaited,
         pc = "reading", NEW r \in On(toClient, conn)
  PROVE  toAgent = {}
<1> SUFFICES ASSUME NEW f \in toAgent PROVE FALSE
  OBVIOUS
<1>1. r \in On(Frames, conn) /\ r.conn = conn /\ r \in toClient
  BY DEF On, Frames
<1>2. f.conn # conn
  BY <1>1, RequestIsNoReply DEF OnlyTheAwaited, On, Frames, TypeOK
<1>3. conn # 0 /\ conn = lastConn
  BY DEF OldestFirst, Opening
<1>4. f.conn <= lastConn /\ f.conn >= conn
  BY <1>1, <1>3 DEF OldestFirst, TypeOK, Request
<1> QED BY <1>2, <1>3, <1>4 DEF TypeOK, Request

-----------------------------------------------------------------------------
(***************************************************************************)
(* Requests still on their way are those of calls whose fate is open.      *)
(***************************************************************************)

\* Nothing is reported and no command is sent.
LEMMA NothingReported ==
  ASSUME OnlyOpenPending, Uncancelled' => Uncancelled,
         UNCHANGED outcome, cur' \in {cur} \cup Calls, cur \in Calls => cur' = cur,
         pc' = "idle" <=> cur' = NoCall,
         \A k \in Calls : InFlight(k)' \subseteq InFlight(k)
  PROVE  OnlyOpenPending'
BY DEF OnlyOpenPending, StillOpen

\* The holder is told something that leaves open what became of its call, or that
\* it was not sent, of which the frames bear witness for a one-shot call.
LEMMA NotSettled ==
  ASSUME TypeOK, HolderInv, AtMostOnceInv', OnlyOpenPending, Uncancelled' => Uncancelled,
         pc # "idle",
         NEW o \in {"unreachable", "denied", "frameTooBig", "uncertain", "raised", "okNoReply"},
         Finish(o),
         \A k \in Calls \ {cur} : InFlight(k)' \subseteq InFlight(k)
  PROVE  OnlyOpenPending'
<1>1. pc' = "idle" <=> cur' = NoCall
  BY DEF Finish
<1>2. ASSUME Uncancelled', NEW k \in Calls, InFlight(k)' # {} PROVE StillOpen(k)'
  <2>1. CASE k = cur
    <3>1. outcome'[k] = o
      BY <2>1 DEF Finish, TypeOK
    <3>2. CASE o \in {"uncertain", "raised", "okNoReply"}
      BY <3>1, <3>2 DEF StillOpen
    <3>3. CASE o \in {"unreachable", "denied", "frameTooBig"}
      <4>1. k \notin OneShot
        BY <1>2, <3>1, <3>3 DEF AtMostOnceInv, OnceInv, Unsent, Finish
      <4> QED BY <3>1, <3>3, <4>1 DEF StillOpen
    <3> QED BY <3>2, <3>3
  <2>2. CASE k # cur
    BY <1>2, <2>2 DEF StillOpen, OnlyOpenPending, Finish, TypeOK
  <2> QED BY <2>1, <2>2
<1> QED BY <1>1, <1>2 DEF OnlyOpenPending

\* The same for the except clause of call, which may also go for a second attempt.
LEMMA TransientErrorPending ==
  ASSUME TypeOK, HolderInv, AtMostOnceInv', OnlyOpenPending, Uncancelled' => Uncancelled,
         pc # "idle", NEW sent \in BOOLEAN, TransientError(sent),
         \A k \in Calls \ {cur} : InFlight(k)' \subseteq InFlight(k)
  PROVE  OnlyOpenPending'
<1>1. CASE \E o \in {"unreachable", "uncertain", "raised", "okNoReply"} : Finish(o)
  BY <1>1, NotSettled
<1>2. CASE pc' = "opening" /\ UNCHANGED <<cur, outcome>>
  BY <1>2, CallsAssumption DEF OnlyOpenPending, StillOpen, HolderInv
<1> QED BY <1>1, <1>2 DEF TransientError

LEMMA OnlyOpenPendingStep ==
  /\ TypeOK /\ HolderInv /\ AtMostOnceInv' /\ OneExchange /\ OldestFirst
  /\ OnlyOpenPending /\ [Next]_vars
  => OnlyOpenPending'
<1> SUFFICES ASSUME TypeOK, HolderInv, AtMostOnceInv', OneExchange, OldestFirst,
                    OnlyOpenPending, [Next]_vars
             PROVE  OnlyOpenPending'
  OBVIOUS
<1> USE CallsAssumption DEF client, sockets, agent, env
<1>a. Uncancelled' => Uncancelled /\ ~Cancel
  BY CancelledStays
<1>b. pc # "idle" => cur \in Calls /\ cur # NoCall
  BY DEF HolderInv
<1>c. ASSUME UNCHANGED <<pc, cur, outcome>>, toAgent' \subseteq toAgent PROVE OnlyOpenPending'
  <2>1. \A k \in Calls : InFlight(k)' \subseteq InFlight(k)
    BY <1>c DEF InFlight
  <2> QED BY <1>a, <1>c, <2>1, NothingReported DEF OnlyOpenPending
<1>1. ASSUME NEW k \in Calls, StartCall(k) PROVE OnlyOpenPending'
  <2>1. \A j \in Calls : InFlight(j)' = InFlight(j)
    BY <1>1 DEF StartCall, InFlight
  <2>2. cur = NoCall /\ cur' = k /\ pc' # "idle" /\ outcome' = outcome
    BY <1>1 DEF StartCall, OnlyOpenPending
  <2> QED BY <1>a, <2>1, <2>2, NothingReported
<1>2. CASE Open
  <2>1. \A j \in Calls : InFlight(j)' = InFlight(j)
    BY <1>2 DEF Open, InFlight
  <2> QED BY <1>2, <1>a, <1>b, <2>1, NothingReported DEF Open, Opening
<1>3. CASE OpenFails \/ SendFails \/ ReplyLost
  <2>1. \A j \in Calls : InFlight(j)' = InFlight(j)
    BY <1>3 DEF OpenFails, SendFails, ReplyLost, InFlight
  <2> QED BY <1>3, <1>a, <2>1, TransientErrorPending
          DEF OpenFails, SendFails, ReplyLost, Opening
<1>4. CASE HandshakeFails
  <2>1. \A j \in Calls : InFlight(j)' = InFlight(j)
    BY <1>4 DEF HandshakeFails, InFlight
  <2>2. CASE FallBackToLegacy
    BY <1>a, <1>b, <2>1, <2>2, NothingReported DEF FallBackToLegacy
  <2>3. CASE TransientError(FALSE)
    BY <1>4, <1>a, <2>1, <2>3, TransientErrorPending DEF HandshakeFails
  <2> QED BY <1>4, <2>2, <2>3 DEF HandshakeFails
<1>5. CASE ReceiveChallenge
  <2>1. \A j \in Calls : InFlight(j)' = InFlight(j)
    BY <1>5 DEF ReceiveChallenge, InFlight, SentToAgent
  <2> QED BY <1>5, <1>a, <1>b, <2>1, NothingReported DEF ReceiveChallenge
<1>6. CASE ReceiveWelcome
  <2>1. \A j \in Calls : InFlight(j)' = InFlight(j)
    BY <1>6 DEF ReceiveWelcome, InFlight
  <2> QED BY <1>6, <1>a, <1>b, <2>1, NothingReported DEF ReceiveWelcome
<1>7. CASE ReceiveDenied
  <2>1. \A j \in Calls : InFlight(j)' = InFlight(j)
    BY <1>7 DEF ReceiveDenied, InFlight
  <2>2. CASE FallBackToLegacy
    BY <1>a, <1>b, <2>1, <2>2, NothingReported DEF FallBackToLegacy
  <2>3. CASE Finish("denied")
    BY <1>7, <1>a, <2>1, <2>3, NotSettled DEF ReceiveDenied
  <2> QED BY <1>7, <2>2, <2>3 DEF ReceiveDenied
<1>8. CASE RejectOversized
  <2>1. \A j \in Calls : InFlight(j)' = InFlight(j)
    BY <1>8 DEF RejectOversized, InFlight
  <2> QED BY <1>8, <1>a, <2>1, NotSettled DEF RejectOversized
\* A command on its way belongs to the holder, whose fate is open.
<1>9. CASE Send \/ DrainDone
  <2>1. \A j \in Calls \ {cur} : InFlight(j)' \subseteq InFlight(j)
    BY <1>9 DEF Send, DrainDone, InFlight, SentToAgent, Command
  <2>2. UNCHANGED <<cur, outcome>> /\ pc' # "idle" /\ cur \in Calls /\ cur # NoCall
    BY <1>9, <1>b DEF Send, DrainDone
  <2> QED BY <1>a, <2>1, <2>2 DEF OnlyOpenPending, StillOpen
<1>10. CASE StartDrain
  <2>1. \A j \in Calls : InFlight(j)' = InFlight(j)
    BY <1>10 DEF StartDrain, InFlight
  <2> QED BY <1>10, <1>a, <1>b, <2>1, NothingReported DEF StartDrain
<1>11. CASE DrainFails
  <2>1. \A j \in Calls \ {cur} : InFlight(j)' \subseteq InFlight(j)
    BY <1>11 DEF DrainFails, InFlight, SentToAgent, Command
  <2> QED BY <1>11, <1>a, <2>1, TransientErrorPending DEF DrainFails
\* The step that settles a call: no request of it is left.
<1>12. CASE ReceiveReply
  <2>1. pc' = "idle" <=> cur' = NoCall
    BY <1>12 DEF ReceiveReply, Finish
  <2>2. ASSUME Uncancelled', NEW k \in Calls, InFlight(k)' # {} PROVE FALSE
    <3>1. PICK f : f \in On(toClient, conn)
      BY <1>12 DEF ReceiveReply, First
    <3>2. toAgent = {}
      BY <1>12, <1>a, <2>2, <3>1, NothingPending DEF OneExchange, ReceiveReply
    <3> QED BY <1>12, <2>2, <3>2 DEF ReceiveReply, InFlight
  <2> QED BY <2>1, <2>2 DEF OnlyOpenPending
<1>13. CASE Cancel
  BY <1>13, <1>a DEF Cancel, Finish, OnlyOpenPending
<1>14. CASE AgentNext
  BY <1>14, <1>c DEF AgentNext, Accept, SendChallenge, AcceptPeer, RefusePeer, Execute,
                     WriteReply, WriteFails, PeerGone, PeerSilent
<1>15. CASE EnvNext \/ UNCHANGED vars
  BY <1>15, <1>c DEF EnvNext, Drop, Crash, Boot, Prefix, vars
<1> QED
  BY <1>1, <1>2, <1>3, <1>4, <1>5, <1>6, <1>7, <1>8, <1>9, <1>10, <1>11, <1>12, <1>13,
     <1>14, <1>15 DEF Next, ClientNext

LEMMA OnlyOpenPendingInvariant == Spec => []OnlyOpenPending
<1>1. Init => OnlyOpenPending
  BY DEF Init, OnlyOpenPending, InFlight
<1>2. AtMostOnceInv => HolderInv
  BY DEF AtMostOnceInv
<1> QED
  BY <1>1, <1>2, TypeCorrect, AtMostOnceInvariant, OneExchangeInvariant,
     OldestFirstInvariant, OnlyOpenPendingStep, PTL DEF Spec

-----------------------------------------------------------------------------
(***************************************************************************)
(* No call runs after its fate has been reported.                          *)
(***************************************************************************)

\* Only Execute runs a handler, and only for a call of which a request was pending.
LEMMA RunsPending ==
  ASSUME TypeOK, [Next]_vars, NEW k \in Calls, applied'[k] # applied[k]
  PROVE  /\ InFlight(k) # {} /\ UNCHANGED <<pc, cur, outcome>>
         /\ applied' = [applied EXCEPT ![k] = @ + 1]
<1> USE DEF client, sockets, agent, env
<1>1. Execute
  BY DEF Next, ClientNext, AgentNext, EnvNext, StartCall, Open, OpenFails, HandshakeFails,
     ReceiveChallenge, ReceiveWelcome, ReceiveDenied, RejectOversized, Send, StartDrain,
     DrainDone, SendFails, DrainFails, ReceiveReply, ReplyLost, Cancel, Accept,
     SendChallenge, AcceptPeer, RefusePeer, WriteReply, WriteFails, PeerGone, PeerSilent,
     Drop, Crash, Boot, vars
<1>2. PICK f \in First(toAgent, serving) : Handle(f)
  BY <1>1 DEF Execute
<1>3. k = f.call
  BY <1>2 DEF Handle, TypeOK
<1>4. f \in InFlight(k)
  BY <1>3 DEF First, On, InFlight
<1>5. applied' = [applied EXCEPT ![k] = @ + 1]
  BY <1>2, <1>3 DEF Handle
<1> QED BY <1>1, <1>4, <1>5 DEF Execute

\* As long as no caller cancels, a handler never runs for a call whose fate the client
\* has reported: not from the first frame of a call that was retried, and not from a
\* connection given up earlier that the agent comes to only later.
THEOREM NothingRunsLate == Spec => NoLateExecution
<1>1. TypeOK /\ HolderInv /\ AtMostOnceInv /\ OnlyOpenPending /\ [Next]_vars
      => [Uncancelled => \A k \in Calls : Settled(k) => applied'[k] = applied[k]]_vars
  <2> SUFFICES ASSUME TypeOK, HolderInv, OnlyOpenPending, [Next]_vars, Uncancelled,
                      NEW k \in Calls, Settled(k), applied'[k] # applied[k]
               PROVE  FALSE
    OBVIOUS
  <2>1. StillOpen(k)
    BY RunsPending DEF OnlyOpenPending
  <2>2. k # cur
    BY CallsAssumption DEF HolderInv, OnlyOpenPending, Settled
  <2> QED BY <2>1, <2>2 DEF StillOpen, Settled
<1>2. AtMostOnceInv => HolderInv
  BY DEF AtMostOnceInv
<1> QED
  BY <1>1, <1>2, TypeCorrect, AtMostOnceInvariant, OnlyOpenPendingInvariant, PTL
     DEF Spec, NoLateExecution

-----------------------------------------------------------------------------
(***************************************************************************)
(* The refinement.                                                         *)
(***************************************************************************)

\* Frames that come and handlers that run keep every reply a true one.
LEMMA StillTrue ==
  ASSUME TrueReplies,
         \A k \in Calls : applied[k] > 0 => applied'[k] > 0,
         \A f \in toAgent' : f \in toAgent \/ (f.kind = "cmd" <=> f.call # NoCall),
         \A r \in toClient' \cup out' :
           \/ r \in toClient \cup out
           \/ /\ r.kind \in {"challenge", "welcome"} => r.call = NoCall
              /\ r.kind = "ok" => r.call \in Calls /\ applied'[r.call] > 0
  PROVE  TrueReplies'
BY DEF TrueReplies

\* The client sends commands of its holder and handshake frames of no call.
LEMMA TrueRequest ==
  ASSUME TrueReplies, UNCHANGED <<out, applied>>, toClient' \subseteq toClient,
         NEW f, f.kind = "cmd" <=> f.call # NoCall,
         toAgent' \in {toAgent, SentToAgent(f)}
  PROVE  TrueReplies'
BY StillTrue DEF SentToAgent

LEMMA TrueRepliesStep == TypeOK /\ HolderInv /\ TrueReplies /\ [Next]_vars => TrueReplies'
<1> SUFFICES ASSUME TypeOK, HolderInv, TrueReplies, [Next]_vars PROVE TrueReplies'
  OBVIOUS
<1> USE CallsAssumption DEF client, sockets, agent, env
<1>a. ASSUME toAgent' \subseteq toAgent, toClient' \subseteq toClient, out' \subseteq out,
             UNCHANGED applied
      PROVE  TrueReplies'
  BY <1>a, StillTrue
<1>b. ASSUME NEW sent \in BOOLEAN, TransientError(sent) PROVE toClient' \subseteq toClient
  BY <1>b DEF TransientError, Discard
<1>c. pc # "idle" => Command.kind = "cmd" /\ Command.call # NoCall
  BY DEF Command, HolderInv
<1>1. CASE \/ \E k \in Calls : StartCall(k)
           \/ HandshakeFails \/ ReceiveWelcome \/ ReceiveDenied \/ RejectOversized
           \/ StartDrain \/ ReceiveReply
  BY <1>1, <1>a, <1>b DEF StartCall, HandshakeFails, FallBackToLegacy, Discard, ReceiveWelcome,
     ReceiveDenied, RejectOversized, StartDrain, ReceiveReply
<1>2. CASE OpenFails \/ SendFails \/ ReplyLost
  BY <1>2, <1>a, <1>b DEF OpenFails, SendFails, ReplyLost
<1>3. CASE Open
  BY <1>3, StillTrue DEF Open
<1>4. CASE ReceiveChallenge
  <2> DEFINE f == [conn |-> conn, id |-> id + 1, kind |-> "auth", call |-> NoCall]
  <2>1. toAgent' = SentToAgent(f) /\ (f.kind = "cmd" <=> f.call # NoCall)
    BY <1>4 DEF ReceiveChallenge
  <2> HIDE DEF f
  <2> QED BY <1>4, <2>1, TrueRequest DEF ReceiveChallenge
<1>5. CASE Send
  <2> DEFINE f == [Command EXCEPT !.id = id + 1]
  <2>1. toAgent' = SentToAgent(f) /\ f.kind = "cmd" /\ f.call # NoCall
    BY <1>5, <1>c DEF Send, Command, HolderInv
  <2> HIDE DEF f
  <2> QED BY <1>5, <2>1, TrueRequest DEF Send
<1>6. CASE DrainDone \/ DrainFails
  BY <1>6, <1>b, <1>c, TrueRequest DEF DrainDone, DrainFails
<1>7. CASE Cancel
  BY <1>7, <1>c, TrueRequest DEF Cancel
<1>8. CASE Accept \/ PeerGone \/ PeerSilent \/ WriteFails \/ WriteReply
  BY <1>8, StillTrue DEF Accept, PeerGone, PeerSilent, WriteFails, WriteReply, HangUp, SentToClient
<1>d. ASSUME NEW f \in toAgent, NEW kind,
             toAgent' \subseteq toAgent, toClient' = SentToClient(Answer(f, kind)),
             out' \subseteq out, UNCHANGED applied,
             kind \in {"challenge", "welcome"} => f.kind # "cmd", kind # "ok"
      PROVE  TrueReplies'
  <2>1. kind \in {"challenge", "welcome"} => f.call = NoCall
    BY <1>d DEF TrueReplies
  <2>2. Answer(f, kind).kind = kind /\ Answer(f, kind).call = f.call
    BY DEF Answer
  <2> QED BY <1>d, <2>1, <2>2, StillTrue DEF SentToClient
<1>9. CASE SendChallenge
  BY <1>9, <1>d DEF SendChallenge, First, On
<1>10. CASE AcceptPeer
  BY <1>10, <1>d DEF AcceptPeer, Accepts, First, On
<1>11. CASE RefusePeer
  BY <1>11, <1>d DEF RefusePeer, HangUp, First, On
\* A handler that runs answers "ok" or "error"; a refused call is answered "error".
<1>12. CASE Execute
  <2>1. PICK f \in First(toAgent, serving) : toAgent' = toAgent \ {f} /\ Handle(f)
    BY <1>12 DEF Execute
  <2>2. PICK kind \in {"ok", "error"} :
          /\ out' = {Answer(f, kind)}
          /\ kind = "ok" => f.call \in Permitted /\ applied' = [applied EXCEPT ![f.call] = @ + 1]
    BY <2>1 DEF Handle
  <2>3. \A k \in Calls : applied[k] > 0 => applied'[k] > 0
    BY <2>1 DEF Handle, TypeOK
  <2>4. Answer(f, kind).kind = kind /\ Answer(f, kind).call = f.call
    BY DEF Answer
  <2>5. kind = "ok" => f.call \in Calls /\ applied'[f.call] > 0
    BY <2>2 DEF TypeOK
  <2> QED BY <1>12, <2>1, <2>2, <2>3, <2>4, <2>5, StillTrue DEF Execute
<1>13. CASE EnvNext \/ UNCHANGED vars
  BY <1>13, <1>a DEF EnvNext, Drop, Crash, Boot, Prefix, vars
<1> QED
  BY <1>1, <1>2, <1>3, <1>4, <1>5, <1>6, <1>7, <1>8, <1>9, <1>10, <1>11, <1>12, <1>13
     DEF Next, ClientNext, AgentNext

LEMMA TrueRepliesInvariant == Spec => []TrueReplies
<1>1. Init => TrueReplies
  BY DEF Init, TrueReplies
<1>2. AtMostOnceInv => HolderInv
  BY DEF AtMostOnceInv
<1> QED BY <1>1, <1>2, TypeCorrect, AtMostOnceInvariant, TrueRepliesStep, PTL DEF Spec

\* What the holder is told may be reported.
LEMMA Reported ==
  ASSUME TypeOK, HolderInv, pc # "idle", NEW o \in Outcomes, Finish(o), o # "cancelled",
         UNCHANGED applied, Promise!Reportable(cur, o)
  PROVE  Promise!Next
<1>1. cur \in Calls /\ Promise!End(cur, o)
  BY DEF HolderInv, Finish, Promise!End
<1> QED BY <1>1 DEF Promise!Next, Outcomes

\* The except clause of call ends the call with something it may report, or tries again.
LEMMA TransientErrorKeeps ==
  ASSUME TypeOK, HolderInv, AtMostOnceInv, pc # "idle",
         NEW sent \in BOOLEAN, TransientError(sent), pc = "reading" => sent,
         UNCHANGED applied
  PROVE  Promise!Next \/ UNCHANGED Promise!vars
<1>1. CASE Finish("unreachable") /\ ~sent
  <2>1. cur \in OneShot => applied[cur] = 0
    BY <1>1 DEF AtMostOnceInv, OnceInv, HolderInv, Unsent
  <2>2. Promise!Reportable(cur, "unreachable")
    BY <2>1 DEF Promise!Reportable, OneShot, HolderInv
  <2> QED BY <1>1, <2>2, Reported DEF Outcomes
<1>2. CASE Finish("okNoReply") /\ cur \in FireAndForget
  BY <1>2, Reported DEF Outcomes, Promise!Reportable
<1>3. CASE Finish("raised")
  BY <1>3, Reported DEF Outcomes, Promise!Reportable
<1>4. CASE Finish("uncertain")
  BY <1>4, Reported DEF Outcomes, Promise!Reportable
<1>5. CASE UNCHANGED <<cur, outcome>>
  BY <1>5 DEF Promise!vars
<1> QED BY <1>1, <1>2, <1>3, <1>4, <1>5 DEF TransientError

\* Every step but a cancellation is a step of the promise or none.
LEMMA KeepsPromiseStep ==
  ASSUME TypeOK, AtMostOnceInv, OneExchange, OnlyOpenPending, TrueReplies,
         [Next]_vars, Uncancelled'
  PROVE  Promise!Next \/ UNCHANGED Promise!vars
<1> USE CallsAssumption DEF client, sockets, agent, env
<1>a. HolderInv /\ Uncancelled /\ ~Cancel
  <2>1. HolderInv
    BY DEF AtMostOnceInv
  <2> QED BY <2>1, CancelledStays
<1>b. ASSUME UNCHANGED <<cur, outcome, applied>>
      PROVE  Promise!Next \/ UNCHANGED Promise!vars
  BY <1>b DEF Promise!vars
<1>1. ASSUME NEW k \in Calls, StartCall(k) PROVE Promise!Next
  <2>1. cur = NoCall /\ outcome[k] = "none" /\ cur' = k /\ UNCHANGED <<outcome, applied>>
    BY <1>1 DEF StartCall, OnlyOpenPending
  <2> QED BY <2>1 DEF Promise!Begin, Promise!Next
<1>2. CASE \/ Open \/ ReceiveChallenge \/ ReceiveWelcome \/ Send \/ StartDrain \/ DrainDone
  BY <1>2, <1>b DEF Open, ReceiveChallenge, ReceiveWelcome, Send, StartDrain, DrainDone
<1>3. CASE OpenFails \/ SendFails \/ DrainFails
  BY <1>3, <1>a, TransientErrorKeeps DEF OpenFails, SendFails, DrainFails, Opening
<1>4. CASE ReplyLost
  BY <1>4, <1>a, TransientErrorKeeps DEF ReplyLost
<1>5. CASE HandshakeFails
  BY <1>5, <1>a, <1>b, TransientErrorKeeps DEF HandshakeFails, FallBackToLegacy
\* Nothing was sent, so a one-shot call has not run.
<1>c. ASSUME NEW o \in {"denied", "frameTooBig"}, Finish(o), pc \notin {"idle", "reading"},
             UNCHANGED applied
      PROVE  Promise!Next
  <2>1. cur \in OneShot => applied[cur] = 0
    BY <1>a, <1>c DEF AtMostOnceInv, OnceInv, HolderInv, Unsent
  <2>2. Promise!Reportable(cur, o)
    BY <1>a, <1>c, <2>1 DEF Promise!Reportable, OneShot, HolderInv
  <2> QED BY <1>a, <1>c, <2>2, Reported DEF Outcomes
<1>6. CASE ReceiveDenied
  BY <1>6, <1>b, <1>c DEF ReceiveDenied, FallBackToLegacy
<1>7. CASE RejectOversized
  BY <1>7, <1>c DEF RejectOversized
\* The reply read is the holder's, and "ok" is true.
<1>8. CASE ReceiveReply
  <2>1. PICK r \in First(toClient, conn) :
          Finish(IF r.kind \in {"error", "denied"} THEN "error" ELSE "ok")
    BY <1>8 DEF ReceiveReply
  <2>2. r \in toClient /\ r \in Reply /\ r.call = cur /\ cur \in Calls
    BY <1>8, <1>a, <2>1 DEF ReceiveReply, OneExchange, OnlyTheAwaited, First, On, Frames,
       HolderInv, TypeOK
  <2>3. r.kind \notin {"error", "denied"} => applied[cur] > 0
    BY <2>2 DEF TrueReplies, Reply
  <2>4. PICK o \in {"ok", "error"} : Finish(o) /\ (o = "ok" => applied[cur] > 0)
    BY <2>1, <2>3
  <2>5. Promise!Reportable(cur, o)
    BY <2>4 DEF Promise!Reportable
  <2> QED BY <1>8, <1>a, <2>4, <2>5, Reported DEF Outcomes, ReceiveReply
\* A handler runs for an open call, for the first time unless it may be repeated.
<1>9. ASSUME NEW k \in Calls, applied'[k] # applied[k] PROVE Promise!Next
  <2>1. InFlight(k) # {} /\ UNCHANGED <<cur, outcome>>
        /\ applied' = [applied EXCEPT ![k] = @ + 1]
    BY <1>9, RunsPending
  <2>2. Promise!Open(k)
    BY <1>a, <2>1 DEF OnlyOpenPending, StillOpen, OneShot, Promise!Open
  <2>3. k \notin Idempotent \cup Large => applied[k] = 0
    BY <2>1 DEF AtMostOnceInv, OnceInv, OneShot
  <2> QED BY <2>1, <2>2, <2>3 DEF Promise!Run, Promise!Next
<1>10. ASSUME AgentNext, \A k \in Calls : applied'[k] = applied[k]
       PROVE  UNCHANGED <<cur, outcome, applied>>
  <2>1. UNCHANGED <<cur, outcome>>
    BY <1>10 DEF AgentNext, Accept, SendChallenge, AcceptPeer, RefusePeer, Execute,
       WriteReply, WriteFails, PeerGone, PeerSilent
  <2>2. applied' = applied \/ \E k \in Permitted : applied' = [applied EXCEPT ![k] = @ + 1]
    BY <1>10 DEF AgentNext, Accept, SendChallenge, AcceptPeer, RefusePeer, Execute, Handle,
       WriteReply, WriteFails, PeerGone, PeerSilent
  <2>3. ASSUME NEW k \in Permitted, applied' = [applied EXCEPT ![k] = @ + 1] PROVE FALSE
    BY <1>10, <2>3 DEF TypeOK
  <2> QED BY <2>1, <2>2, <2>3
<1>11. CASE EnvNext \/ UNCHANGED vars
  BY <1>11, <1>b DEF EnvNext, Drop, Crash, Boot, vars
<1> QED
  BY <1>a, <1>b, <1>1, <1>2, <1>3, <1>4, <1>5, <1>6, <1>7, <1>8, <1>9, <1>10, <1>11
     DEF Next, ClientNext

\* Connections, handshakes, retries, timeouts, losses and restarts implement the
\* promise of AgentClient.call to callers that wait for their answer: whoever is told
\* "ok" had the call run, once unless it may be repeated, and a call reported as not
\* sent never runs.
THEOREM PromiseIsKept ==
  ASSUME MayCancel = FALSE
  PROVE  Spec => KeepsPromise
<1>1. Init => Promise!Init
  BY DEF Init, Promise!Init
<1>2. Init => Uncancelled
  BY DEF Init, Uncancelled
<1>3. TypeOK /\ HolderInv /\ Uncancelled /\ [Next]_vars => Uncancelled'
  <2> SUFFICES ASSUME TypeOK, HolderInv, Uncancelled, [Next]_vars PROVE Uncancelled'
    OBVIOUS
  <2>1. outcome' = outcome \/ \E o \in Outcomes \ {"cancelled"} : Finish(o)
    BY DEF Next, ClientNext, AgentNext, EnvNext, vars, client, sockets, agent, env,
       StartCall, Open, OpenFails, HandshakeFails, FallBackToLegacy, TransientError,
       ReceiveChallenge, ReceiveWelcome, ReceiveDenied, RejectOversized, Send, StartDrain,
       DrainDone, SendFails, DrainFails, ReceiveReply, ReplyLost, Cancel, Accept,
       SendChallenge, AcceptPeer, RefusePeer, Execute, WriteReply, WriteFails, PeerGone,
       PeerSilent, Drop, Crash, Boot, Outcomes
  <2> QED BY <2>1 DEF Finish, Uncancelled, TypeOK
<1>4. AtMostOnceInv => HolderInv
  BY DEF AtMostOnceInv
<1>5. TypeOK /\ AtMostOnceInv /\ OneExchange /\ OnlyOpenPending /\ TrueReplies
      /\ [Next]_vars /\ Uncancelled' => [Promise!Next]_(Promise!vars)
  BY KeepsPromiseStep
<1> QED
  BY <1>1, <1>2, <1>3, <1>4, <1>5, TypeCorrect, AtMostOnceInvariant, OneExchangeInvariant,
     OnlyOpenPendingInvariant, TrueRepliesInvariant, PTL
     DEF Spec, KeepsPromise, Promise!Spec
=============================================================================
