---------------------------- MODULE SleepProofs ----------------------------
(* Theorems about SleepWake, for any number of sleeps and any WedgedAfter.    *)
EXTENDS SleepWake, TLAPS

\* Every variable keeps its type: the error count never reaches the number that
\* makes the loop rebuild, and no more sleeps begin than the bound allows.
THEOREM TypeCorrect == Spec => []TypeOK
<1>1. Init => TypeOK
  <2>1. 0 \in 0..MaxSleeps /\ 0 \in 0..(WedgedAfter - 1)
    BY SleepAssumption DEF SleepAssumption
  <2>2. QED
    BY <2>1, Zenon DEF Init, TypeOK
<1>2. TypeOK /\ [Next]_vars => TypeOK'
  <2> SUFFICES ASSUME TypeOK, [Next]_vars PROVE TypeOK'
    OBVIOUS
  <2> USE DEF TypeOK, console, psc, server
  <2>1. CASE StartSleep
    <3>1. sleeps' \in 0..MaxSleeps
      BY <2>1, SleepAssumption DEF SleepAssumption, StartSleep
    <3>2. QED
      BY <2>1, <3>1, Zenon DEF StartSleep, Asks
  <2>2. CASE Sleep \/ StartWake \/ Wake
    BY <2>2, Zenon DEF Sleep, StartWake, Wake, Asks
  <2>3. CASE NetDown \/ NetUp
    BY <2>3, Zenon DEF NetDown, NetUp
  <2>4. CASE AckNext
    <3>1. isAsleep' \in BOOLEAN /\ woke' \in BOOLEAN /\ noted' \in BOOLEAN
      BY <2>4 DEF AckNext, NoteRequest, Acknowledge
    <3>2. QED
      BY <2>4, <3>1, Zenon DEF AckNext, NoteRequest, Acknowledge
  <2>5. CASE InitPsc \/ StartAckThread
    BY <2>5, Zenon DEF InitPsc, StartAckThread
  <2>6. CASE OpenListener \/ Accept \/ EndServe
    <3>1. errors' \in 0..(WedgedAfter - 1)
      BY <2>6, SleepAssumption DEF SleepAssumption, OpenListener, Accept, EndServe
    <3>2. QED
      BY <2>6, <3>1, Zenon DEF OpenListener, Accept, EndServe
  <2>7. CASE AcceptFails
    <3>1. errors' \in 0..(WedgedAfter - 1)
      BY <2>7, SleepAssumption DEF SleepAssumption, AcceptFails, Rebuild
    <3>2. QED
      BY <2>7, <3>1, Zenon DEF AcceptFails, Rebuild
  <2>8. CASE UNCHANGED vars
    <3>1. net' \in BOOLEAN /\ noted' \in BOOLEAN /\ isAsleep' \in BOOLEAN /\ woke' \in BOOLEAN
      BY <2>8, Zenon DEF vars
    <3>2. sleeps' \in 0..MaxSleeps /\ errors' \in 0..(WedgedAfter - 1)
      BY <2>8 DEF vars
    <3>3. phase' = phase /\ request' = request /\ module' = module
      BY <2>8 DEF vars
    <3>4. pc' = pc /\ listener' = listener /\ peer' = peer
      BY <2>8 DEF vars
    <3>5. QED
      BY <3>1, <3>2, <3>3, <3>4
  <2> QED
    BY <2>1, <2>2, <2>3, <2>4, <2>5, <2>6, <2>7, <2>8 DEF Next, ConsoleNext, ServerNext
<1>3. QED
  BY <1>1, <1>2, PTL DEF Spec

\* SleepInv is inductive: the power-state flags follow the console's requests
\* through every interleaving with the network and the accept loop.
LEMMA SleepInvariant == Spec => []SleepInv
<1>1. Init => SleepInv
  BY DEF Init, SleepInv, RegisteredAnswers, AsleepOnlyInSleep
<1>2. SleepInv /\ [Next]_vars => SleepInv'
  <2> SUFFICES ASSUME SleepInv, [Next]_vars PROVE SleepInv'
    OBVIOUS
  <2> USE DEF SleepInv, RegisteredAnswers, AsleepOnlyInSleep, console, psc, server
  <2>1. CASE ConsoleNext
    <3>1. CASE StartSleep
      BY <3>1 DEF StartSleep, Asks
    <3>2. CASE Sleep
      BY <3>2 DEF Sleep
    <3>3. CASE StartWake
      BY <3>3 DEF StartWake, Asks
    <3>4. CASE Wake
      BY <3>4 DEF Wake, Asks
    <3>5. CASE NetDown
      BY <3>5 DEF NetDown
    <3>6. CASE NetUp
      BY <3>6 DEF NetUp
    <3> QED BY <2>1, <3>1, <3>2, <3>3, <3>4, <3>5, <3>6 DEF ConsoleNext
  <2>2. CASE AckNext
    <3>1. CASE NoteRequest
      BY <3>1 DEF NoteRequest
    <3>2. CASE Acknowledge
      BY <3>2 DEF Acknowledge
    <3> QED BY <2>2, <3>1, <3>2 DEF AckNext
  <2>3. CASE InitPsc
    BY <2>3 DEF InitPsc
  <2>4. CASE StartAckThread
    BY <2>4 DEF StartAckThread
  <2>5. CASE OpenListener
    BY <2>5 DEF OpenListener
  <2>6. CASE AcceptFails
    BY <2>6 DEF AcceptFails, Rebuild
  <2>7. CASE Accept
    BY <2>7 DEF Accept
  <2>8. CASE EndServe
    BY <2>8 DEF EndServe
  <2>9. CASE UNCHANGED vars
    BY <2>9 DEF vars
  <2> QED
    BY <2>1, <2>2, <2>3, <2>4, <2>5, <2>6, <2>7, <2>8, <2>9 DEF Next, ServerNext
<1>3. QED
  BY <1>1, <1>2, PTL DEF Spec

\* The console is never made to wait for a module without an acknowledgement
\* thread, whenever it goes to sleep (power_state.cpp:107-116).
THEOREM NobodyWaitsInVain == Spec => []RegisteredAnswers
<1>1. SleepInv => RegisteredAnswers
  BY DEF SleepInv
<1>2. QED
  BY <1>1, SleepInvariant, PTL

\* g_asleep, which parks the accept loop, is never left over from a sleep that is
\* already past (power_state.cpp:72-76 and server.cpp:630-633).
THEOREM AwakeIsNoticed == Spec => []AsleepOnlyInSleep
<1>1. SleepInv => AsleepOnlyInSleep
  BY DEF SleepInv
<1>2. QED
  BY <1>1, SleepInvariant, PTL
=============================================================================
