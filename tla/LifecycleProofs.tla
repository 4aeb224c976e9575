-------------------------- MODULE LifecycleProofs --------------------------
(***************************************************************************)
(* Theorems about the life of a console, for any number of boots and any   *)
(* sets of power requests.                                                 *)
(***************************************************************************)
EXTENDS Lifecycle, TLAPS

-----------------------------------------------------------------------------
(* The watchdog on its own.                                                  *)

\* The count of the watchdog is exact over any number of boots (guards.cpp:156-189).
LEMMA WatchdogCounts == Spec => []CountIsExact
<1>1. Init => CountInv
  BY DEF Init, CountInv
<1>2. CountInv /\ [Next]_vars => CountInv'
  BY DEF CountInv, Next, Running, vars, Boot, OpenToWrite, Write, CardFails,
         ClientAuthenticates, PowerLoss
<1>3. CountInv => CountIsExact
  BY DEF CountInv, CountIsExact
<1>4. QED
  BY <1>1, <1>2, <1>3, PTL DEF Spec

\* "healthy" means that a client has been there, whatever the card and the power do
\* (guards.cpp:180-196).
LEMMA WatchdogReached == Spec => [](ReachedInv /\ HealthyIfReached)
<1>1. Init => ReachedInv
  BY DEF Init, ReachedInv
<1>2. ReachedInv /\ [Next]_vars => ReachedInv'
  BY DEF ReachedInv, Next, Running, vars, Boot, OpenToWrite, Write, CardFails,
         ClientAuthenticates, PowerLoss
<1>3. ReachedInv => HealthyIfReached
  BY DEF ReachedInv, HealthyIfReached
<1>4. QED
  BY <1>1, <1>2, <1>3, PTL DEF Spec

-----------------------------------------------------------------------------
(* The watchdog among power requests.                                        *)

\* Every step of the console is one of the watchdog or leaves it alone.
LEMMA WatchdogStep == [LifecycleNext]_all => [Next]_vars
BY DEF LifecycleNext, Start, Watch, Serve, Transition, Outage, all, Next

LEMMA LifecycleIsWatchdog == LifecycleSpec => Spec
<1>1. LifecycleInit => Init
  BY DEF LifecycleInit
<1>2. QED
  BY <1>1, WatchdogStep, PTL DEF LifecycleSpec, Spec

\* The boot count is exact over any number of boots, whoever ends them, as long as no
\* rewrite of its file goes wrong (guards.cpp:156-189).
THEOREM CountsExactly == LifecycleSpec => []CountIsExact
BY LifecycleIsWatchdog, WatchdogCounts, PTL

\* "healthy" means that a client has been there, whatever the card and the power do
\* (guards.cpp:191-196).
THEOREM HealthyMeansReached == LifecycleSpec => []HealthyIfReached
BY LifecycleIsWatchdog, WatchdogReached, PTL

\* A scheduled transition leaves the watchdog nothing to write: only an authenticated
\* client schedules one, and its authentication has cleared the count.
QuietInv == at # "off" /\ thread # "none" => at = "running" /\ count = 0

LEMMA QuietInvariant == LifecycleSpec => []QuietInv
<1>1. LifecycleInit => QuietInv
  BY DEF LifecycleInit, Init, QuietInv
<1>2. ReachedInv /\ QuietInv /\ [LifecycleNext]_all => QuietInv'
  <2> SUFFICES ASSUME ReachedInv, QuietInv, [LifecycleNext]_all PROVE QuietInv'
    OBVIOUS
  <2>1. CASE Start
    BY <2>1 DEF Start, P!Restart, QuietInv
  <2>2. CASE Watch
    BY <2>2 DEF Watch, Running, OpenToWrite, Write, ClientAuthenticates, power, QuietInv
  <2>3. CASE Serve
    BY <2>3 DEF Serve, vars, ReachedInv, QuietInv
  <2>4. CASE Transition
    BY <2>4 DEF Transition, P!PowerThread, PowerLoss, vars, QuietInv
  <2>5. CASE Outage
    BY <2>5 DEF Outage, PowerLoss, QuietInv
  <2>6. CASE UNCHANGED all
    BY <2>6 DEF all, vars, power, QuietInv
  <2>7. QED
    BY <2>1, <2>2, <2>3, <2>4, <2>5, <2>6 DEF LifecycleNext
<1>3. QED
  BY <1>1, <1>2, LifecycleIsWatchdog, WatchdogReached, PTL DEF LifecycleSpec

\* A transition the agent itself makes never cuts off a rewrite of the boot count
\* (power.cpp:26-33 against guards.cpp:180-189).
THEOREM OwnTransitionsSpareCount == LifecycleSpec => PowerSparesCount
<1>1. QuietInv /\ [LifecycleNext]_all
        => [performed = "none" /\ performed' # "none" => mishaps' = mishaps]_all
  <2> SUFFICES ASSUME QuietInv, LifecycleNext, performed = "none", performed' # "none"
               PROVE  mishaps' = mishaps
    BY DEF all
  <2>1. CASE Transition
    BY <2>1 DEF Transition, P!PowerThread, PowerLoss, QuietInv
  <2>2. CASE Serve
    BY <2>2 DEF Serve, vars
  <2>3. CASE Start \/ Watch \/ Outage
    BY <2>3 DEF Start, P!Restart, Watch, Outage, power
  <2>4. QED
    BY <2>1, <2>2, <2>3 DEF LifecycleNext
<1>2. QED
  BY <1>1, QuietInvariant, PTL DEF LifecycleSpec, PowerSparesCount

-----------------------------------------------------------------------------
(* Types.                                                                    *)

LEMMA WatchdogTypes == Spec => []TypeOK
<1>1. Init => TypeOK
  BY WatchdogAssumption DEF WatchdogAssumption, Init, TypeOK, Stages
<1>2. TypeOK /\ [Next]_vars => TypeOK'
  <2> SUFFICES ASSUME TypeOK, [Next]_vars PROVE TypeOK'
    OBVIOUS
  <2> USE WatchdogAssumption DEF WatchdogAssumption, TypeOK, Stages, CardFails
  <2>1. CASE Boot
    <3>1. /\ boots' \in 0..MaxBoots /\ file' \in 0..boots'
          /\ count' \in 0..boots' /\ streak' \in 0..boots'
      BY <2>1 DEF Boot
    <3>2. at' \in Stages /\ mishaps' \subseteq {"card", "power"}
      BY <2>1 DEF Boot
    <3> QED BY <3>1, <3>2
  <2>2. CASE Running
    <3>1. UNCHANGED boots /\ file' \in 0..boots /\ count' \in 0..boots /\ streak' \in 0..boots
      BY <2>2 DEF Running, OpenToWrite, Write, ClientAuthenticates
    <3>2. at' \in Stages
      BY <2>2 DEF Running, OpenToWrite, Write, ClientAuthenticates
    <3>3. mishaps' \subseteq {"card", "power"}
      BY <2>2, Zenon DEF Running, OpenToWrite, Write, ClientAuthenticates
    <3> QED BY <3>1, <3>2, <3>3
  <2>3. CASE PowerLoss
    <3>1. mishaps' \subseteq {"card", "power"}
      BY <2>3 DEF PowerLoss
    <3> QED BY <2>3, <3>1 DEF PowerLoss
  <2>4. CASE UNCHANGED vars
    BY <2>4 DEF vars
  <2>5. QED
    BY <2>1, <2>2, <2>3, <2>4 DEF Next
<1>3. QED
  BY <1>1, <1>2, PTL DEF Spec

\* Every variable keeps its type over any number of boots: no count exceeds the number
\* of boots there have been, and every request has one of the answers a handler gives.
THEOREM TypesCorrect == LifecycleSpec => []TypesOK
<1>1. LifecycleInit => P!TypeOK
  BY DEF LifecycleInit, P!Init, P!TypeOK
<1>2. P!TypeOK /\ [LifecycleNext]_all => P!TypeOK'
  <2> SUFFICES ASSUME P!TypeOK, [LifecycleNext]_all PROVE P!TypeOK'
    OBVIOUS
  <2> USE DEF P!TypeOK
  <2>1. CASE Start
    BY <2>1 DEF Start, P!Restart
  <2>2. CASE Serve
    BY <2>2 DEF Serve, P!Handle, P!AlreadyScheduled, P!Schedule, P!CannotSchedule,
       P!Handling, P!Answers, P!Remember, P!Action
  <2>3. CASE Transition
    BY <2>3 DEF Transition, P!PowerThread
  <2>4. CASE Watch \/ Outage \/ UNCHANGED all
    BY <2>4 DEF Watch, Outage, all, power
  <2>5. QED
    BY <2>1, <2>2, <2>3, <2>4 DEF LifecycleNext
<1>3. QED
  BY <1>1, <1>2, LifecycleIsWatchdog, WatchdogTypes, PTL DEF LifecycleSpec, TypesOK

-----------------------------------------------------------------------------
(* The power requests.                                                       *)

\* The flag, the thread and what is pending tell the same story.
ScheduleInv ==
  /\ started <=> thread # "none"
  /\ started <=> first # "none"
  /\ started => pending = first
  /\ performed # "none" => started /\ performed = pending

\* Of competing power requests the first acknowledged one is carried out, whatever
\* failed before it or came after it (power.cpp:35-54).
THEOREM FirstRequestWins == LifecycleSpec => []FirstAcknowledgedWins
<1>1. LifecycleInit => ScheduleInv
  BY DEF LifecycleInit, P!Init, ScheduleInv
<1>2. ScheduleInv /\ [LifecycleNext]_all => ScheduleInv'
  <2> SUFFICES ASSUME ScheduleInv, [LifecycleNext]_all PROVE ScheduleInv'
    OBVIOUS
  <2>1. CASE Start
    BY <2>1 DEF Start, P!Restart, ScheduleInv
  <2>2. CASE Serve
    BY <2>2 DEF Serve, P!Handle, P!AlreadyScheduled, P!Schedule, P!CannotSchedule,
       P!Handling, P!Answers, P!Remember, P!Action, ScheduleInv
  <2>3. CASE Transition
    BY <2>3 DEF Transition, P!PowerThread, ScheduleInv
  <2>4. CASE Watch \/ Outage \/ UNCHANGED all
    BY <2>4 DEF Watch, Outage, all, power, ScheduleInv
  <2>5. QED
    BY <2>1, <2>2, <2>3, <2>4 DEF LifecycleNext
<1>3. ScheduleInv => FirstAcknowledgedWins
  BY DEF ScheduleInv, FirstAcknowledgedWins, P!FirstWins
<1>4. QED
  BY <1>1, <1>2, <1>3, PTL DEF LifecycleSpec
=============================================================================
