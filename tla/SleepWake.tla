----------------------------- MODULE SleepWake -----------------------------
(***************************************************************************)
(* The accept loop (Server::Run, server.cpp) and the power-state module    *)
(* (power_state.cpp) of a console that goes to sleep and wakes up.  Sleep  *)
(* tears the network down and with it the listening socket; the console    *)
(* asks every registered module to acknowledge each transition and waits   *)
(* for it.  Nothing runs while the console sleeps.                         *)
(***************************************************************************)
EXTENDS Naturals

CONSTANTS
  EnablePsc,    \* enable_psc
  WedgedAfter,  \* accept() failures in a row that make the loop rebuild (20)
  MaxSleeps     \* bound on sleeps

ASSUME SleepAssumption ==
  /\ EnablePsc \in BOOLEAN
  /\ WedgedAfter \in Nat \ {0}
  /\ MaxSleeps \in Nat

VARIABLES
  \* The console.
  phase,     \* "awake", on the way to sleep, asleep, on the way back
  request,   \* the transition the agent has been asked to acknowledge
  net,       \* the network is up
  sleeps,
  \* power_state.
  module,    \* how far Init got
  noted,     \* the acknowledgement thread has recorded the request
  isAsleep,  \* g_asleep
  woke,      \* g_woke
  \* Server::Run.
  pc,        \* where the loop is
  listener,  \* the listening socket; "dead": accept() fails on it
  errors,    \* consecutive_errors
  peer       \* the connection being served

console == <<phase, request, net, sleeps>>
psc     == <<module, noted, isAsleep, woke>>
server  == <<pc, listener, errors, peer>>
vars    == <<console, psc, server>>

TypeOK ==
  /\ phase \in {"awake", "falling", "asleep", "waking"}
  /\ request \in {"none", "sleep", "wake"}
  /\ net \in BOOLEAN
  /\ sleeps \in 0..MaxSleeps
  /\ module \in {"off", "registered", "answering"}
  /\ noted \in BOOLEAN /\ isAsleep \in BOOLEAN /\ woke \in BOOLEAN
  /\ pc \in {"init", "opening", "accepting", "serving"}
  /\ listener \in {"none", "alive", "dead"}
  /\ errors \in 0..(WedgedAfter - 1)
  /\ peer \in {"none", "alive", "dead"}

Init ==
  /\ phase = "awake" /\ request = "none" /\ net = TRUE /\ sleeps = 0
  /\ module = "off" /\ noted = FALSE /\ isAsleep = FALSE /\ woke = FALSE
  /\ pc = "init" /\ listener = "none" /\ errors = 0 /\ peer = "none"

Running == phase # "asleep"

-----------------------------------------------------------------------------
(* The console.                                                              *)

Asks(what) == request' = IF module = "off" THEN "none" ELSE what

\* The power button, the idle timer or the lockscreen sends the console to sleep.
StartSleep ==
  /\ phase = "awake" /\ request = "none" /\ sleeps < MaxSleeps
  /\ phase' = "falling" /\ sleeps' = sleeps + 1
  /\ Asks("sleep")
  /\ UNCHANGED <<net, psc, server>>

\* Every module has answered.
Sleep ==
  /\ phase = "falling" /\ request = "none" /\ ~net
  /\ phase' = "asleep"
  /\ UNCHANGED <<request, net, sleeps, psc, server>>

\* Somebody wakes the console, or the sleep is called off on the way.
StartWake ==
  /\ phase \in {"falling", "asleep"} /\ request = "none"
  /\ phase' = "waking"
  /\ Asks("wake")
  /\ UNCHANGED <<net, sleeps, psc, server>>

\* A second request tells the modules that the console is awake.
Wake ==
  /\ phase = "waking" /\ request = "none"
  /\ phase' = "awake"
  /\ Asks("wake")
  /\ UNCHANGED <<net, sleeps, psc, server>>

\* The network stack is torn down, before or after the agent has answered ...
NetDown ==
  /\ phase = "falling" /\ net
  /\ net' = FALSE
  /\ listener' = IF listener = "alive" THEN "dead" ELSE listener
  /\ peer' = IF peer = "alive" THEN "dead" ELSE peer
  /\ UNCHANGED <<phase, request, sleeps, psc, pc, errors>>

\* ... and comes back some time after the console has begun to wake up.
NetUp ==
  /\ phase \in {"waking", "awake"} /\ ~net
  /\ net' = TRUE
  /\ UNCHANGED <<phase, request, sleeps, psc, server>>

-----------------------------------------------------------------------------
(* power_state.                                                              *)

\* Init registers the module, if asked to and if psc:m is there to accept it.
InitPsc ==
  /\ Running /\ pc = "init" /\ module = "off"
  /\ \/ pc' = "opening" /\ UNCHANGED module
     \/ EnablePsc /\ module' = "registered" /\ UNCHANGED pc
  /\ UNCHANGED <<console, noted, isAsleep, woke, listener, errors, peer>>

\* Mutant of StartAckThread: the module stays registered without a thread.
StartAckThreadOrNot ==
  /\ Running /\ pc = "init" /\ module = "registered"
  /\ module' \in {"answering", "registered"} /\ UNCHANGED request
  /\ pc' = "opening"
  /\ UNCHANGED <<phase, net, sleeps, noted, isAsleep, woke, listener, errors, peer>>

\* Init starts the acknowledgement thread; if it cannot, the module is finalized
\* and the console no longer waits for it.
StartAckThread ==
  /\ Running /\ pc = "init" /\ module = "registered"
  /\ \/ module' = "answering" /\ UNCHANGED request
     \/ module' = "off" /\ request' = "none"
  /\ pc' = "opening"
  /\ UNCHANGED <<phase, net, sleeps, noted, isAsleep, woke, listener, errors, peer>>

\* Mutant of NoteRequest: waking does not end the state of being asleep.
NoteRequestStaysAsleep ==
  /\ Running /\ module = "answering" /\ request # "none" /\ ~noted
  /\ noted' = TRUE
  /\ isAsleep' = (isAsleep \/ request = "sleep")
  /\ woke' = woke
  /\ UNCHANGED <<console, module, server>>

\* AckThread takes the request and records it, ...
NoteRequest ==
  /\ Running /\ module = "answering" /\ request # "none" /\ ~noted
  /\ noted' = TRUE
  /\ isAsleep' = (request = "sleep")
  /\ woke' = (woke \/ request = "wake")
  /\ UNCHANGED <<console, module, server>>

\* Mutant of Acknowledge: answers are given from the accept() error path.
AcknowledgeFromAccept ==
  /\ Running /\ noted /\ pc = "accepting" /\ listener = "dead"
  /\ noted' = FALSE /\ request' = "none"
  /\ UNCHANGED <<phase, net, sleeps, module, isAsleep, woke, server>>

\* ... then acknowledges it, whatever it was.
Acknowledge ==
  /\ Running /\ noted
  /\ noted' = FALSE /\ request' = "none"
  /\ UNCHANGED <<phase, net, sleeps, module, isAsleep, woke, server>>

-----------------------------------------------------------------------------
(* Server::Run.                                                              *)

\* A listener is opened.  Without a network that fails, or makes a dead one.
OpenListener ==
  /\ Running /\ pc = "opening"
  /\ \/ net /\ listener' = "alive" /\ pc' = "accepting"
     \/ ~net /\ listener' = "dead" /\ pc' = "accepting"
     \/ ~net /\ UNCHANGED <<listener, pc>>
  /\ errors' = 0
  /\ UNCHANGED <<console, psc, peer>>

\* accept() returns a connection, which is served before the next accept().
Accept ==
  /\ Running /\ pc = "accepting" /\ listener = "alive" /\ net
  /\ pc' = "serving" /\ peer' = "alive" /\ errors' = 0
  /\ UNCHANGED <<console, psc, listener>>

\* The client leaves, or the timeouts find it gone.
EndServe ==
  /\ Running /\ pc = "serving"
  /\ pc' = "accepting" /\ peer' = "none"
  /\ UNCHANGED <<console, psc, listener, errors>>

\* The wedged listener is closed, and the count starts again.
Rebuild == pc' = "opening" /\ listener' = "none" /\ errors' = 0

\* Mutant of AcceptFails: no run of failures makes the loop rebuild.
AcceptFailsForever ==
  /\ Running /\ pc = "accepting" /\ listener = "dead"
  /\ \/ woke /\ woke' = FALSE /\ Rebuild
     \/ ~woke /\ UNCHANGED <<woke, pc, listener, errors>>
  /\ UNCHANGED <<console, module, noted, isAsleep, peer>>

\* accept() fails: rebuild after a wake-up, wait while asleep, count otherwise.
AcceptFails ==
  /\ Running /\ pc = "accepting" /\ listener = "dead"
  /\ \/ woke /\ woke' = FALSE /\ Rebuild
     \/ ~woke /\ isAsleep /\ UNCHANGED <<woke, pc, listener, errors>>
     \/ /\ ~woke /\ ~isAsleep /\ UNCHANGED woke
        /\ IF errors + 1 >= WedgedAfter THEN Rebuild
           ELSE errors' = errors + 1 /\ UNCHANGED <<pc, listener>>
  /\ UNCHANGED <<console, module, noted, isAsleep, peer>>

-----------------------------------------------------------------------------
ConsoleNext == StartSleep \/ Sleep \/ StartWake \/ Wake \/ NetDown \/ NetUp

AckNext == NoteRequest \/ Acknowledge

\* What the server thread does without a client.
ServerNext ==
  \/ InitPsc \/ StartAckThread \/ OpenListener \/ AcceptFails
  \/ peer = "dead" /\ EndServe

Next == ConsoleNext \/ AckNext \/ ServerNext \/ Accept \/ EndServe

Spec == Init /\ [][Next]_vars

\* Both threads keep running; once awake, a console gets its network back.
FairSpec ==
  Spec /\ WF_vars(ServerNext) /\ WF_vars(AckNext) /\ WF_vars(NetUp) /\ WF_vars(Wake)

-----------------------------------------------------------------------------
(* Properties.                                                               *)

\* Whoever is registered has a thread to answer, once Init has returned: the
\* console never waits on "a module that can never answer" (power_state.cpp:109).
RegisteredAnswers == pc # "init" => module # "registered"

\* An awake console that waits for no answer is not taken for a sleeping one, or
\* the accept loop would wait for a wake-up that has already happened.
AsleepOnlyInSleep == phase = "awake" /\ request = "none" => ~isAsleep

\* Why both hold: an inductive invariant.  Only an answering module is asked for
\* anything once Init is over, and g_asleep follows the transition last recorded.
SleepInv ==
  /\ RegisteredAnswers
  /\ AsleepOnlyInSleep
  /\ module = "off" => request = "none"
  /\ module # "answering" => ~noted /\ ~isAsleep
  /\ pc = "init" => module # "answering"
  /\ noted => request # "none" /\ isAsleep = (request = "sleep")
  /\ request = "sleep" => phase = "falling"
  /\ request = "wake" => phase \in {"waking", "awake"}
  /\ request = "none" /\ isAsleep => phase \in {"falling", "asleep"}

\* Every request of the console is acknowledged, whatever the accept loop and its
\* clients are doing: the agent never hangs the console.
ConsoleNeverHangs == request # "none" ~> request = "none"

\* The agent heals: in a console that stays awake with its network up, the port
\* is eventually listened on, unless a client is being served.
Reachable == pc = "accepting" /\ listener = "alive"
Heals ==
  (phase = "awake" /\ net) ~> (Reachable \/ peer = "alive" \/ phase # "awake")
=============================================================================
