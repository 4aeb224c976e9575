---------------------------- MODULE EventsProofs ----------------------------
(* Theorems about Debugger and Events, for any number of processes, register *)
(* slots, unread events, watch requests and polls.                           *)
EXTENDS Events, Induction

USE DEF NoPid

\* No command of the debugger disturbs the session: the old target is resumed
\* before the handle is given up, and handle and process id change together.
LEMMA CommandsKeepSession ==
  ASSUME SessionAgrees, Commands
  PROVE SessionAgrees'
<1> USE DEF SessionAgrees, OnlyTargetFrozen, ModulesAgree, Attached, sessionVars
<1>1. ASSUME NEW p \in {NoPid} \cup Pids, NEW pause \in BOOLEAN, DebugAttach(p, pause)
      PROVE SessionAgrees'
  BY <1>1 DEF DebugAttach, Resumed
<1>2. ASSUME NEW p \in {NoPid} \cup Pids, DebugModules(p) PROVE SessionAgrees'
  BY <1>2 DEF DebugModules
<1>3. ASSUME NEW resume \in BOOLEAN, DebugPollEvents(resume) PROVE SessionAgrees'
  BY <1>3 DEF DebugPollEvents, NotAttached, ContinueAll, Resumed
<1>4. CASE DebugContinue
  BY <1>4 DEF DebugContinue, NotAttached, ContinueAll, Resumed
<1>5. CASE DebugBreak
  BY <1>5 DEF DebugBreak, NotAttached
<1>6. CASE DebugDetach
  BY <1>6 DEF DebugDetach, Resumed
<1>7. ASSUME NEW whenGone, ThroughHandle(whenGone) PROVE SessionAgrees'
  BY <1>7 DEF ThroughHandle, NotAttached
<1>8. ASSUME NEW a, NEW s, NEW slot, NEW m, NEW c, DebugSetWatchpoint(a, s, slot, m, c)
      PROVE SessionAgrees'
  BY <1>8 DEF DebugSetWatchpoint, NotAttached
<1>9. ASSUME NEW a, NEW slot, DebugSetBreakpoint(a, slot) PROVE SessionAgrees'
  BY <1>9 DEF DebugSetBreakpoint, NotAttached
<1>10. ASSUME NEW slot, NEW w, DebugClearBreakpoint(slot, w) PROVE SessionAgrees'
  BY <1>10 DEF DebugClearBreakpoint, NotAttached
<1>11. ASSUME NEW which, NEW c, NEW v, DebugSetHwBpRaw(which, c, v) PROVE SessionAgrees'
  BY <1>11 DEF DebugSetHwBpRaw, NotAttached
<1> QED
  BY <1>1, <1>2, <1>3, <1>4, <1>5, <1>6, <1>7, <1>8, <1>9, <1>10, <1>11
  DEF Commands, DebugReadMem, DebugWriteMem, DebugMemMap, DebugThreads,
      DebugRegisters, DebugSearch, DebugWriteRegisters, DebugBacktrace

\* Nothing the agent has stopped is ever out of reach of its handle, and
\* debug.modules speaks of the process that debug.read_mem reads (debug.cpp:120-212
\* and 655-665): SessionAgrees is inductive, and neither a wait nor a process that
\* traps, ends or is replaced disturbs it.
THEOREM SessionIsConsistent == Spec => []SessionAgrees
<1>1. Init => SessionAgrees
  BY DEF Init, DbgInit, SessionAgrees, OnlyTargetFrozen, ModulesAgree, Attached
<1>2. SessionAgrees /\ [Next]_vars => SessionAgrees'
  <2> SUFFICES ASSUME SessionAgrees, [Next]_vars PROVE SessionAgrees'
    OBVIOUS
  <2>1. ASSUME UNCHANGED sessionVars PROVE SessionAgrees'
    BY <2>1 DEF SessionAgrees, OnlyTargetFrozen, ModulesAgree, Attached, sessionVars
  <2>2. CASE Commands
    BY <2>2, CommandsKeepSession
  <2>3. ASSUME NEW event \in Events, NEW buttons, NEW polls,
               WaitEvent(event, buttons, polls)
        PROVE SessionAgrees'
    BY <2>1, <2>3 DEF WaitEvent
  <2>4. CASE Poll
    BY <2>1, <2>4 DEF Poll
  <2>5. ASSUME NEW button, PressOrRelease(button) PROVE SessionAgrees'
    BY <2>1, <2>5 DEF PressOrRelease, dbgVars
  <2>6. CASE DbgStarts
    BY <2>1, <2>6 DEF DbgStarts, dbgVars
  <2>7. ASSUME NEW p, NEW terminated, TargetExits(p, terminated) PROVE SessionAgrees'
    BY <2>7 DEF TargetExits, SessionAgrees, OnlyTargetFrozen, ModulesAgree, Attached
  <2>8. CASE TargetTraps
    BY <2>8 DEF TargetTraps, SessionAgrees, OnlyTargetFrozen, ModulesAgree, Attached
  <2>9. CASE UNCHANGED vars
    BY <2>1, <2>9 DEF vars, dbgVars
  <2> QED
    BY <2>2, <2>3, <2>4, <2>5, <2>6, <2>7, <2>8, <2>9 DEF Next, ConsoleSteps
<1>3. QED
  BY <1>1, <1>2, PTL DEF Spec


\* The steps of the debugger that leave its answer alone.
LEMMA QuietSteps ==
  ASSUME [Next]_vars, ~Commands, ~Poll,
         ~(\E event \in Events, buttons \in SUBSET {"A", "B"}, polls \in Polls :
             WaitEvent(event, buttons, polls))
  PROVE  UNCHANGED <<reply, wait, slots>>
<1>1. CASE UNCHANGED vars
  BY <1>1 DEF vars, dbgVars
<1>2. ASSUME NEW button, PressOrRelease(button) PROVE UNCHANGED <<reply, wait, slots>>
  BY <1>2 DEF PressOrRelease, dbgVars
<1>3. CASE DbgStarts /\ UNCHANGED wait
  BY <1>3 DEF DbgStarts, dbgVars
<1>4. ASSUME NEW p, NEW terminated, TargetExits(p, terminated), UNCHANGED wait
      PROVE UNCHANGED <<reply, wait, slots>>
  BY <1>4 DEF TargetExits
<1>5. CASE TargetTraps /\ UNCHANGED wait
  BY <1>5 DEF TargetTraps
<1> QED
  BY <1>1, <1>2, <1>3, <1>4, <1>5 DEF Next, ConsoleSteps

LEMMA WhatIsSaid ==
  ASSUME NEW code, NEW pid, NEW says, Answer(code, pid, says)
  PROVE  reply'.says = says
BY DEF Answer

\* The words that promise a running target.
Told == {"running", "kept running", "detached, resumed"}

\* An answer that tells its user that the target runs is given with nothing left
\* stopped, whatever was queued and whichever session came before (debug.cpp:120-208):
\* what was stopped was the target of the session, and its events have been read.
THEOREM RunningMeansRunning == Spec => SaysRunningIsRunning
<1>1. ASSUME SessionAgrees, Commands, reply'.says \in Told PROVE frozen' = {}
  <2> USE DEF NotAttached
  <2>a. ASSUME NEW code, NEW pid, NEW says, Answer(code, pid, says), says \notin Told PROVE FALSE
    BY <1>1, <2>a, WhatIsSaid
  <2>0. Resumed = {}
    BY <1>1 DEF SessionAgrees, OnlyTargetFrozen, Resumed
  <2>1. ASSUME NEW p \in {NoPid} \cup Pids, NEW pause \in BOOLEAN, DebugAttach(p, pause)
        PROVE frozen' = {}
    <3>1. CASE pause
      BY <2>a, <2>0, <2>1, <3>1 DEF Told, DebugAttach
    <3>2. CASE ~pause
      BY <2>0, <2>1, <3>2 DEF DebugAttach
    <3> QED
      BY <3>1, <3>2
  <2>2. ASSUME NEW p \in {NoPid} \cup Pids, DebugModules(p) PROVE FALSE
    BY <2>a, <2>2 DEF Told, DebugModules
  <2>3. ASSUME NEW resume \in BOOLEAN, DebugPollEvents(resume) PROVE frozen' = {}
    <3>0. ~NotAttached
      BY <2>a DEF Told
    <3>1. CASE resume
      <4>1. DrainEvents /\ ContinueAll(unread')
        BY <2>3, <3>0, <3>1, Zenon DEF DebugPollEvents
      <4> QED BY <2>0, <4>1 DEF ContinueAll, DrainEvents
    <3>2. CASE ~resume
      BY <2>a, <2>3, <3>2 DEF Told, DebugPollEvents
    <3> QED
      BY <3>1, <3>2
  <2>4. CASE DebugContinue
    BY <2>a, <2>4 DEF Told, DebugContinue
  <2>5. CASE DebugBreak
    BY <2>a, <2>5 DEF Told, DebugBreak
  <2>6. CASE DebugDetach
    BY <2>0, <2>6 DEF DebugDetach
  <2>7. ASSUME NEW whenGone \in {"ok", "failed"}, ThroughHandle(whenGone) PROVE FALSE
    BY <2>a, <2>7 DEF Told, ThroughHandle
  <2>8. ASSUME NEW a, NEW s, NEW slot, NEW m, NEW c, DebugSetWatchpoint(a, s, slot, m, c)
        PROVE FALSE
    BY <2>a, <2>8 DEF Told, DebugSetWatchpoint, SetRegister, BadArg, HwBpFailed
  <2>9. ASSUME NEW a, NEW slot, DebugSetBreakpoint(a, slot) PROVE FALSE
    BY <2>a, <2>9 DEF Told, DebugSetBreakpoint, SetRegister, BadArg, HwBpFailed
  <2>10. ASSUME NEW slot, NEW w, DebugClearBreakpoint(slot, w) PROVE FALSE
    BY <2>a, <2>10 DEF Told, DebugClearBreakpoint, SetRegister, BadArg, HwBpFailed
  <2>11. ASSUME NEW which, NEW c, NEW v, DebugSetHwBpRaw(which, c, v) PROVE FALSE
    BY <2>a, <2>11 DEF Told, DebugSetHwBpRaw, SetRegister
  <2> QED
    BY <1>1, <2>1, <2>2, <2>3, <2>4, <2>5, <2>6, <2>7, <2>8, <2>9, <2>10, <2>11
    DEF Commands, DebugReadMem, DebugWriteMem, DebugMemMap, DebugThreads,
        DebugRegisters, DebugSearch, DebugWriteRegisters, DebugBacktrace
<1>2. QED
  BY <1>1, SessionIsConsistent, PTL DEF Spec, SaysRunningIsRunning, Told

\* What a look at the console relies on: a foreground application exists, and a
\* request that waits names an event.
Requests == [event : Events \cup {"none"}, pid : Nat, buttons : SUBSET {"A", "B"}, left : Int]

WaitInv ==
  /\ born \in Nat /\ alive \subseteq 1..born /\ fg \in alive \cup {NoPid}
  /\ wait \in Requests /\ (wait.event = "none" <=> wait = Idle)

LEMMA OneLess ==
  ASSUME NEW w \in Requests
  PROVE  LET v == [w EXCEPT !.left = @ - 1] IN v \in Requests /\ v.event = w.event
<1> DEFINE n == w.left - 1
<1>1. n \in Int
  BY DEF Requests
<1> HIDE DEF n
<1>2. [w EXCEPT !.left = n] \in Requests /\ [w EXCEPT !.left = n].event = w.event
  BY <1>1 DEF Requests
<1> QED
  BY <1>2 DEF n

LEMMA IdleIsRequest == Idle \in Requests /\ Idle.event = "none"
BY DEF Idle, Waiting, Requests

LEMMA WaitInvariant == Spec => []WaitInv
<1>1. Init => WaitInv
  BY IdleIsRequest DEF Init, ProcInit, EventsInit, WaitInv
<1>2. WaitInv /\ [Next]_vars => WaitInv'
  <2> SUFFICES ASSUME WaitInv, [Next]_vars PROVE WaitInv'
    OBVIOUS
  <2>1. ASSUME UNCHANGED <<procVars, wait>> PROVE WaitInv'
    BY <2>1 DEF WaitInv, procVars
  <2>2. ASSUME NEW event \in Events, NEW buttons \in SUBSET {"A", "B"}, NEW polls \in Polls,
               WaitEvent(event, buttons, polls)
        PROVE  WaitInv'
    <3>1. fg \in Nat /\ polls \in Int
      BY PollsAssumption DEF WaitInv
    <3>2. \A pid \in Nat, b \in SUBSET {"A", "B"} :
             LET w == Waiting(event, pid, b, polls) IN w \in Requests /\ w.event = event
      BY <3>1 DEF Waiting, Requests
    <3>3. event # "none" /\ NoPid \in Nat
      BY DEF Events
    <3> DEFINE pid == IF event = "app_change" THEN ForegroundPid ELSE NoPid
               b == IF event = "button" THEN buttons ELSE {}
    <3>6. pid \in Nat /\ b \in SUBSET {"A", "B"}
      BY <3>1, <3>3 DEF ForegroundPid
    <3>7. wait' = wait \/ wait' = Waiting(event, pid, b, polls)
      BY <2>2, Zenon DEF WaitEvent
    <3> HIDE DEF pid, b
    <3>4. wait' \in Requests /\ (wait' = wait \/ wait'.event = event)
      BY <3>2, <3>6, <3>7 DEF WaitInv
    <3>8. WaitEvent(event, buttons, polls) => UNCHANGED procVars
      BY DEF WaitEvent
    <3> QED
      BY <2>2, <3>3, <3>4, <3>8, IdleIsRequest DEF WaitInv, procVars
  <2>3. CASE Poll
    <3>1. wait' = Idle \/ wait' = [wait EXCEPT !.left = @ - 1]
      BY ONLY Poll, Zenon DEF Poll
    <3>2. UNCHANGED procVars
      BY <2>3 DEF Poll
    <3>3. wait # Idle
      BY <2>3 DEF Poll
    <3>4. wait' \in Requests /\ (wait'.event = "none" <=> wait' = Idle)
      BY <3>1, <3>3, OneLess, IdleIsRequest DEF WaitInv
    <3> QED
      BY <3>2, <3>4 DEF WaitInv, procVars
  <2>4. ASSUME NEW p, Exits(p), UNCHANGED wait PROVE WaitInv'
    BY <2>4 DEF Exits, WaitInv
  <2>5. CASE DbgStarts /\ UNCHANGED wait
    BY <2>5 DEF DbgStarts, Launch, Starts, WaitInv
  <2> QED
    BY <2>1, <2>2, <2>3, <2>4, <2>5
    DEF Next, ConsoleSteps, PressOrRelease, TargetTraps, TargetExits, vars
<1>3. QED
  BY <1>1, <1>2, PTL DEF Spec

\* What has happened since a request was entered explains what a look finds now.
Edges == {"start", "exit"}
HistoryInv ==
  /\ wait.event = "app_start" => /\ fg # NoPid => "start" \in happened
                                 /\ fg = NoPid /\ "start" \in happened => "exit" \in happened
  /\ wait.event = "app_exit" => /\ fg = NoPid => "exit" \in happened
                                /\ fg # NoPid /\ "exit" \in happened => "start" \in happened
  /\ wait.event = "app_change" =>
        /\ wait.pid \in 0..born
        /\ fg # wait.pid => happened \cap Edges # {}
        /\ fg = wait.pid => \/ happened \cap Edges = {}
                            \/ wait.pid = NoPid /\ Edges \subseteq happened
        /\ fg # NoPid /\ wait.pid = NoPid => "start" \in happened
  /\ wait.event = "button" =>
        /\ pressed \subseteq wait.buttons \/ "press" \in happened
        /\ wait.buttons \subseteq pressed \/ "release" \in happened
        /\ "press" \in happened /\ "release" \notin happened => pressed # wait.buttons

\* A step of the console, or none, during a wait for an application.
LEMMA AppHistory ==
  ASSUME WaitInv, HistoryInv, UNCHANGED <<wait, pressed>>, Seen(AppEdges),
         \/ UNCHANGED procVars
         \/ Starts
         \/ \E p : Exits(p)
  PROVE  HistoryInv'
<1>0. born \in Nat /\ alive \subseteq 1..born /\ fg \in alive \cup {0} /\ wait' = wait
      /\ pressed' = pressed
  BY DEF WaitInv
<1>1. CASE wait = Idle
  <2>1. wait.event = "none"
    BY <1>1 DEF WaitInv
  <2> QED BY <1>0, <2>1 DEF HistoryInv
<1>2. CASE wait # Idle
  <2>1. happened' = happened \cup AppEdges
    BY <1>2 DEF Seen
  <2>2. \/ fg' = fg /\ happened' = happened
        \/ fg = 0 /\ fg' = born + 1 /\ happened' = happened \cup {"start"}
        \/ fg # 0 /\ fg' = 0 /\ happened' = happened \cup {"exit"}
    BY <1>0, <2>1 DEF AppEdges, procVars, Starts, Exits
  <2>3. born' \in {born, born + 1}
    BY DEF procVars, Starts, Exits
  <2>a. ("press" \in happened' <=> "press" \in happened)
        /\ ("release" \in happened' <=> "release" \in happened)
    BY <2>2
  <2>4. wait.event = "button" => HistoryInv'
    BY <1>0, <2>a DEF HistoryInv
  <2>5. wait.event = "app_start" => HistoryInv'
    BY <1>0, <2>2 DEF HistoryInv
  <2>6. wait.event = "app_exit" => HistoryInv'
    BY <1>0, <2>2 DEF HistoryInv
  <2>7. wait.event = "app_change" => HistoryInv'
    BY <1>0, <2>2, <2>3 DEF HistoryInv, Edges
  <2>8. wait.event \notin {"button", "app_start", "app_exit", "app_change"} => HistoryInv'
    BY <1>0 DEF HistoryInv
  <2> QED BY <2>4, <2>5, <2>6, <2>7, <2>8
<1> QED BY <1>1, <1>2

\* Whatever the player does meanwhile.
LEMMA ButtonHistory ==
  ASSUME WaitInv, HistoryInv, NEW button, PressOrRelease(button)
  PROVE  HistoryInv'
<1>1. wait.event = "button" /\ wait' = wait /\ wait # Idle
  BY IdleIsRequest DEF PressOrRelease
<1>2. happened' = happened \cup ButtonEdges
  BY <1>1 DEF PressOrRelease, Seen
<1>3. pressed' \in {pressed \cup {button}, pressed \ {button}}
  BY DEF PressOrRelease
<1>4. \/ pressed' = pressed /\ happened' = happened
      \/ /\ pressed \subseteq pressed' /\ pressed' # pressed
         /\ happened' = happened \cup {"press"}
      \/ /\ pressed' \subseteq pressed /\ pressed' # pressed
         /\ happened' = happened \cup {"release"}
  BY <1>2, <1>3 DEF ButtonEdges
<1> QED BY <1>1, <1>4 DEF HistoryInv

LEMMA HistoryInvariant == Spec => []HistoryInv
<1>1. Init => HistoryInv
  BY IdleIsRequest DEF Init, EventsInit, HistoryInv
<1>2. WaitInv /\ HistoryInv /\ [Next]_vars => HistoryInv'
  <2> SUFFICES ASSUME WaitInv, HistoryInv, [Next]_vars PROVE HistoryInv'
    OBVIOUS
  <2>1. ASSUME UNCHANGED <<procVars, wait, pressed, happened>> PROVE HistoryInv'
    BY <2>1 DEF HistoryInv, procVars
  <2>2. ASSUME NEW event \in Events, NEW buttons \in SUBSET {"A", "B"}, NEW polls \in Polls,
               WaitEvent(event, buttons, polls)
        PROVE  HistoryInv'
    <3> DEFINE pid == IF event = "app_change" THEN ForegroundPid ELSE NoPid
               b == IF event = "button" THEN buttons ELSE {}
               level == \/ event = "app_start" /\ AppRunning
                        \/ event = "app_exit" /\ ~AppRunning
    <3>1. IF level THEN wait' = wait ELSE wait' = Waiting(event, pid, b, polls)
      BY <2>2, Zenon DEF WaitEvent
    <3>2. wait = Idle /\ happened' = {} /\ pressed' = wait'.buttons /\ UNCHANGED <<fg, born>>
      BY <2>2 DEF WaitEvent, procVars
    <3>3. CASE level
      BY <3>1, <3>2, <3>3, IdleIsRequest DEF HistoryInv
    <3>4. CASE ~level
      <4>1. wait'.event = event /\ wait'.pid = pid /\ wait'.buttons = b
        BY <3>1, <3>4 DEF Waiting
      <4>2. pressed' = b
        BY <3>2, <4>1
      <4>3. fg \in 0..born
        BY DEF WaitInv
      <4>4. event = "app_start" => fg = 0
        BY <3>4 DEF AppRunning, ForegroundPid
      <4>5. event = "app_exit" => fg # 0
        BY <3>4 DEF AppRunning, ForegroundPid
      <4>6. event = "app_change" => pid = fg
        BY DEF ForegroundPid
      <4> HIDE DEF pid, b, level
      <4> QED BY <3>2, <4>1, <4>2, <4>3, <4>4, <4>5, <4>6 DEF HistoryInv, Edges
    <3> QED BY <3>3, <3>4
  <2>3. CASE Poll
    <3>1. wait' = Idle \/ wait' = [wait EXCEPT !.left = @ - 1]
      BY ONLY Poll, Zenon DEF Poll
    <3>2. UNCHANGED <<fg, born>> /\ (wait' # Idle => UNCHANGED <<pressed, happened>>)
      BY <2>3 DEF Poll, procVars
    <3>3. CASE wait' = Idle
      BY <3>3, IdleIsRequest DEF HistoryInv
    <3>4. CASE wait' # Idle
      <4>1. wait'.event = wait.event /\ wait'.pid = wait.pid /\ wait'.buttons = wait.buttons
        BY <3>1, <3>4 DEF WaitInv, Requests
      <4> QED BY <3>2, <3>4, <4>1 DEF HistoryInv
    <3> QED BY <3>3, <3>4
  <2>4. ASSUME ConsoleSteps, Seen(AppEdges), UNCHANGED <<wait, pressed>>
        PROVE  HistoryInv'
    <3>1. \/ UNCHANGED procVars
          \/ Starts
          \/ \E p : Exits(p)
      BY <2>4 DEF ConsoleSteps, DbgStarts, Launch, TargetExits, TargetTraps
    <3> QED BY <2>4, <3>1, AppHistory
  <2> QED
    BY <2>1, <2>2, <2>3, <2>4, ButtonHistory DEF Next, vars
<1>3. QED
  BY <1>1, <1>2, WaitInvariant, PTL DEF Spec

\* A wait reports nothing that did not happen since it was entered, and each look passes
\* over only what was undone before it (events.cpp:92-157), for any number of processes
\* and looks: HistoryInv ties what a look finds to what has happened.
THEOREM WaitsMissLittle == Spec => WaitsMissOnlyTheUndone
<1>1. ASSUME WaitInv, HistoryInv, [Next]_vars, wait # Idle, wait' # wait, wait.event # "other"
      PROVE  IF wait' = Idle /\ reply'.says = "fired" THEN Caused ELSE UndoneAtMost
  <2>1. Poll
    BY <1>1 DEF Next, ConsoleSteps, PressOrRelease, WaitEvent, vars
  <2>2. wait.event \in Events \ {"other"}
    BY <1>1 DEF WaitInv, Requests
  <2>3. wait.event # "other"
    BY <1>1
  <2>4. ASSUME Fired PROVE wait' = Idle /\ Answer("ok", ForegroundPid, "fired")
    BY ONLY <2>1, <2>3, <2>4, Zenon DEF Poll
  <2>5. ASSUME ~Fired, wait' = Idle PROVE Answer("ok", NoPid, "timed out")
    <3>1. wait' # [wait EXCEPT !.left = @ - 1]
      BY <1>1, <2>5, OneLess, IdleIsRequest DEF WaitInv
    <3> QED BY ONLY <2>1, <2>3, <2>5, <3>1, Zenon DEF Poll
  <2>6. (wait' = Idle /\ reply'.says = "fired") <=> Fired
    BY <2>4, <2>5, WhatIsSaid
  <2>7. ASSUME Fired PROVE Caused
    <3>1. wait.event = "app_start" => Caused
      BY <1>1, <2>7 DEF Fired, Caused, AppRunning, ForegroundPid, HistoryInv
    <3>2. wait.event = "app_exit" => Caused
      BY <1>1, <2>7 DEF Fired, Caused, AppRunning, ForegroundPid, HistoryInv
    <3>3. wait.event = "app_change" => Caused
      BY <1>1, <2>7 DEF Fired, Caused, ForegroundPid, HistoryInv, Edges
    <3>4. wait.event = "button" => Caused
      BY <1>1, <2>7 DEF Fired, Caused, HistoryInv
    <3> QED BY <2>2, <3>1, <3>2, <3>3, <3>4 DEF Events
  <2>8. ASSUME ~Fired PROVE UndoneAtMost
    <3>1. wait.event = "app_start" => UndoneAtMost
      BY <1>1, <2>8 DEF Fired, UndoneAtMost, AppRunning, ForegroundPid, HistoryInv
    <3>2. wait.event = "app_exit" => UndoneAtMost
      BY <1>1, <2>8 DEF Fired, UndoneAtMost, AppRunning, ForegroundPid, HistoryInv
    <3>3. wait.event = "app_change" => UndoneAtMost
      BY <1>1, <2>8 DEF Fired, UndoneAtMost, ForegroundPid, HistoryInv, Edges
    <3>4. wait.event = "button" => UndoneAtMost
      BY <1>1, <2>8 DEF Fired, UndoneAtMost, HistoryInv
    <3> QED BY <2>2, <3>1, <3>2, <3>3, <3>4 DEF Events
  <2> QED BY <2>6, <2>7, <2>8
<1>2. QED
  BY <1>1, WaitInvariant, HistoryInvariant, PTL DEF Spec, WaitsMissOnlyTheUndone

(***************************************************************************)
(* Types, and what the debug registers watch.                              *)
(***************************************************************************)

LEMMA Bounds == MaxPid \in Nat /\ MaxUnread \in Nat /\ 1 <= MaxUnread
BY MaxPidAssumption, SlotAssumption

\* What every command does to the session: the ids it remembers and the processes it
\* stops are those of processes that exist.
LEMMA AmongTheAlive ==
  ASSUME DbgTypeOK, UNCHANGED <<born, alive, fg>>,
         {g_debug', g_pid'} \subseteq {NoPid, g_debug, g_pid} \cup alive,
         frozen' \subseteq alive, unread' \in {unread, Queued, 0, 1},
         DOMAIN slots' = DOMAIN slots
  PROVE  DbgTypeOK'
<1>1. {g_debug', g_pid'} \subseteq 0..born
  <2>1. born \in Nat /\ alive \subseteq 1..born
    BY Bounds DEF DbgTypeOK, ProcTypeOK
  <2>2. {NoPid, g_debug, g_pid} \cup alive \subseteq 0..born
    <3>1. g_debug \in 0..born /\ g_pid \in 0..born
      BY DEF DbgTypeOK
    <3>2. alive \subseteq 0..born /\ 0 \in 0..born
      BY <2>1
    <3> QED BY <3>1, <3>2, Zenon DEF NoPid
  <2>3. born' = born
    OBVIOUS
  <2> QED BY <2>2, <2>3
<1>2. unread' \in 0..MaxUnread
  BY Bounds DEF DbgTypeOK, Queued
<1> QED BY <1>1, <1>2 DEF DbgTypeOK, ProcTypeOK

LEMMA CommandsKeepTypes ==
  ASSUME DbgTypeOK, Commands, UNCHANGED procVars
  PROVE  DbgTypeOK'
<1> USE DEF sessionVars, NotAttached, Attached
<1>0. UNCHANGED <<born, alive, fg>> /\ frozen \subseteq alive /\ fg \in alive \cup {NoPid}
  BY DEF procVars, DbgTypeOK, ProcTypeOK
<1>a. ASSUME UNCHANGED sessionVars, DOMAIN slots' = DOMAIN slots PROVE DbgTypeOK'
  BY <1>0, <1>a, AmongTheAlive
<1>b. ASSUME NEW r, NEW armed, NEW says, NEW refused, SetRegister(r, armed, says, refused)
      PROVE  DOMAIN slots' = DOMAIN slots
  BY <1>b DEF SetRegister
<1>1. ASSUME NEW p \in {NoPid} \cup Pids, NEW pause \in BOOLEAN, DebugAttach(p, pause)
      PROVE DbgTypeOK'
  <2>1. {g_debug', g_pid'} \subseteq {NoPid, g_debug, g_pid} \cup alive
    BY <1>1 DEF DebugAttach
  <2>2. frozen' \subseteq alive /\ unread' \in {0, 1} /\ UNCHANGED slots
    BY <1>0, <1>1 DEF DebugAttach, Resumed
  <2> QED BY <1>0, <2>1, <2>2, AmongTheAlive
<1>2. ASSUME NEW p \in {NoPid} \cup Pids, DebugModules(p) PROVE DbgTypeOK'
  BY <1>a, <1>2 DEF DebugModules
<1>3. ASSUME NEW resume \in BOOLEAN, DebugPollEvents(resume) PROVE DbgTypeOK'
  BY <1>0, <1>3, AmongTheAlive DEF DebugPollEvents, ContinueAll, Resumed, DrainEvents
<1>4. CASE DebugContinue
  BY <1>0, <1>4, AmongTheAlive DEF DebugContinue, ContinueAll, Resumed
<1>5. CASE DebugBreak
  BY <1>0, <1>5, AmongTheAlive DEF DebugBreak
<1>6. CASE DebugDetach
  BY <1>0, <1>6, AmongTheAlive DEF DebugDetach, Resumed
<1>7. ASSUME NEW whenGone, ThroughHandle(whenGone) PROVE DbgTypeOK'
  BY <1>a, <1>7 DEF ThroughHandle
<1>8. ASSUME NEW a, NEW s, NEW slot, NEW m, NEW c, DebugSetWatchpoint(a, s, slot, m, c)
      PROVE DbgTypeOK'
  BY <1>a, <1>b, <1>8 DEF DebugSetWatchpoint, BadArg
<1>9. ASSUME NEW a, NEW slot, DebugSetBreakpoint(a, slot) PROVE DbgTypeOK'
  BY <1>a, <1>b, <1>9 DEF DebugSetBreakpoint, BadArg
<1>10. ASSUME NEW slot, NEW w, DebugClearBreakpoint(slot, w) PROVE DbgTypeOK'
  BY <1>a, <1>b, <1>10 DEF DebugClearBreakpoint, BadArg
<1>11. ASSUME NEW which, NEW c, NEW v, DebugSetHwBpRaw(which, c, v) PROVE DbgTypeOK'
  BY <1>a, <1>b, <1>11 DEF DebugSetHwBpRaw
<1> QED
  BY <1>1, <1>2, <1>3, <1>4, <1>5, <1>6, <1>7, <1>8, <1>9, <1>10, <1>11
  DEF Commands, DebugReadMem, DebugWriteMem, DebugMemMap, DebugThreads,
      DebugRegisters, DebugSearch, DebugWriteRegisters, DebugBacktrace

\* The session, the registers and the processes keep their types.
LEMMA DebuggerTypes == Spec => []DbgTypeOK
<1>1. Init => DbgTypeOK
  <2> SUFFICES ASSUME Init PROVE DbgTypeOK
    OBVIOUS
  <2>1. born = 0 /\ alive = {} /\ fg = 0 /\ g_debug = 0 /\ g_pid = 0 /\ frozen = {}
        /\ unread = 0 /\ DOMAIN slots = Registers
    BY DEF Init, ProcInit, DbgInit
  <2> QED BY <2>1, Bounds DEF DbgTypeOK, ProcTypeOK
<1>2. DbgTypeOK /\ [Next]_vars => DbgTypeOK'
  <2> SUFFICES ASSUME DbgTypeOK, [Next]_vars PROVE DbgTypeOK'
    OBVIOUS
  <2>1. CASE Commands /\ UNCHANGED procVars
    BY <2>1, CommandsKeepTypes
  <2>2. ASSUME UNCHANGED <<born, alive, fg, g_debug, g_pid, frozen, unread, slots>>
        PROVE  DbgTypeOK'
    BY <2>2 DEF DbgTypeOK, ProcTypeOK
  <2>3. ASSUME NEW event, NEW buttons, NEW polls, WaitEvent(event, buttons, polls)
        PROVE  DbgTypeOK'
    BY <2>2, <2>3 DEF WaitEvent, sessionVars, procVars
  <2>4. CASE Poll
    BY <2>2, <2>4 DEF Poll, sessionVars, procVars
  <2>5. CASE DbgStarts
    <3>1. /\ born < MaxPid /\ born' = born + 1 /\ alive' = alive \cup {born + 1}
          /\ fg' \in {fg, born + 1}
          /\ UNCHANGED <<g_debug, g_pid, frozen, unread, slots>>
      BY <2>5 DEF DbgStarts, Launch, Starts, dbgVars, sessionVars
    <3> QED BY <3>1, Bounds DEF DbgTypeOK, ProcTypeOK
  <2>6. ASSUME NEW p, NEW terminated, TargetExits(p, terminated) PROVE DbgTypeOK'
    <3>1. /\ born' = born /\ alive' = alive \ {p} /\ frozen' = frozen \ {p}
          /\ fg' = (IF fg = p THEN NoPid ELSE fg)
          /\ unread' \in {unread, Queued} /\ UNCHANGED <<g_debug, g_pid, slots>>
      BY <2>6 DEF TargetExits, Exits
    <3>2. unread' \in 0..MaxUnread
      BY <3>1, Bounds DEF DbgTypeOK, Queued
    <3> QED BY <3>1, <3>2 DEF DbgTypeOK, ProcTypeOK
  <2>7. CASE TargetTraps
    <3>1. UNCHANGED <<born, alive, fg, g_debug, g_pid, slots>> /\ g_debug \in alive
          /\ frozen' = frozen \cup {g_debug} /\ unread' = Queued
      BY <2>7 DEF TargetTraps, procVars
    <3>2. frozen' \subseteq alive
      BY <3>1 DEF DbgTypeOK
    <3> QED BY <3>1, <3>2, AmongTheAlive
  <2> QED
    BY <2>1, <2>2, <2>3, <2>4, <2>5, <2>6, <2>7
    DEF Next, ConsoleSteps, PressOrRelease, vars, dbgVars, sessionVars, procVars
<1>3. QED
  BY <1>1, <1>2, PTL DEF Spec

\* What a register stands for, if the agent encoded its control word.
Exact(reg) ==
  reg.asked # {} => reg.ctl.access \X {reg.base + b : b \in reg.ctl.bytes} = reg.asked

\* Whether a register is exact does not depend on what the other registers hold, nor on
\* whether the kernel refused.
LEMMA ArmsTruly ==
  ASSUME DbgTypeOK, WatchesWhatWasAsked, NEW r, NEW armed, NEW says, NEW refused,
         SetRegister(r, armed, says, refused), Exact(armed)
  PROVE  WatchesWhatWasAsked'
<1>0. WatchesWhatWasAsked <=> \A q \in Registers : Exact(slots[q])
  BY DEF WatchesWhatWasAsked, Exact
<1>1. CASE UNCHANGED slots
  BY <1>1 DEF WatchesWhatWasAsked
<1>2. CASE slots' = [slots EXCEPT ![r] = armed]
  <2>1. \A q \in Registers : slots'[q] = IF q = r THEN armed ELSE slots[q]
    BY <1>2 DEF DbgTypeOK
  <2>2. \A q \in Registers : Exact(slots'[q])
    BY <1>0, <2>1, Zenon
  <2> QED BY <2>2 DEF WatchesWhatWasAsked, Exact
<1> QED BY <1>1, <1>2 DEF SetRegister

\* A watchpoint inside one doubleword selects exactly the accesses and bytes asked for.
LEMMA ByteSelect ==
  ASSUME NEW addr \in Nat, NEW size \in {1, 2, 4, 8}, (addr % 8) + size <= 8, NEW lsc
  PROVE  LET base == addr - (addr % 8)
             bas == (addr - base)..(addr - base) + size - 1
         IN Exact(Armed(base, WatchpointCtl(lsc, bas), lsc \X (addr..addr + size - 1)))
<1> DEFINE offset == addr % 8
           base == addr - offset
<1>1. offset \in 0..7 /\ base \in Int /\ addr = base + offset
  OBVIOUS
<1> HIDE DEF offset, base
<1>2. addr - base = offset
  BY <1>1
<1>3. offset..offset + size - 1 \subseteq 0..7
  BY <1>1 DEF offset
<1>4. WatchpointCtl(lsc, offset..offset + size - 1)
         = [access |-> lsc, bytes |-> offset..offset + size - 1]
  BY <1>3 DEF WatchpointCtl
<1>5. \A x \in addr..addr + size - 1 :
         x - base \in offset..offset + size - 1 /\ base + (x - base) = x
  BY <1>1
<1>6. \A b \in offset..offset + size - 1 : base + b \in addr..addr + size - 1
  BY <1>1
<1>7. {base + b : b \in offset..offset + size - 1} = addr..addr + size - 1
  BY <1>5, <1>6
<1> DEFINE bas == offset..offset + size - 1
           range == addr..addr + size - 1
<1> HIDE DEF bas, range
<1>8. {base + b : b \in bas} = range
  BY <1>7 DEF bas, range
<1>9. Exact(Armed(base, [access |-> lsc, bytes |-> bas], lsc \X range))
  BY <1>8 DEF Exact, Armed
<1> QED BY <1>2, <1>4, <1>9 DEF base, offset, bas, range

\* Every debug register whose control word the agent encoded stands for exactly the accesses
\* to exactly the bytes its client asked for, at any address, of any size and in any mode
\* (debug.cpp:458-540); what a client's own word selects is not the agent's doing.
THEOREM WatchesAreExact == Spec => []WatchesWhatWasAsked
<1>0. \A base, ctl : Exact(Armed(base, ctl, {}))
  BY DEF Exact, Armed
<1>1. Init => WatchesWhatWasAsked
  <2>1. Free.asked = {}
    BY DEF Free, Armed
  <2>2. Init => \A r \in Registers : slots[r] = Free
    BY DEF Init, DbgInit
  <2> QED BY <2>1, <2>2 DEF WatchesWhatWasAsked
<1>2. DbgTypeOK /\ WatchesWhatWasAsked /\ [Next]_vars => WatchesWhatWasAsked'
  <2> SUFFICES ASSUME DbgTypeOK, WatchesWhatWasAsked, [Next]_vars
               PROVE  WatchesWhatWasAsked'
    OBVIOUS
  <2>1. ASSUME UNCHANGED slots PROVE WatchesWhatWasAsked'
    BY <2>1 DEF WatchesWhatWasAsked
  <2>2. ASSUME NEW w \in Watches, NEW slot, NEW mode, NEW ctls,
               DebugSetWatchpoint(w[1], w[2], slot, mode, ctls)
        PROVE  WatchesWhatWasAsked'
    <3> DEFINE base == w[1] - (w[1] % 8)
               bas == (w[1] - base)..(w[1] - base) + w[2] - 1
               armed == Armed(base, WatchpointCtl(Lsc(mode), bas),
                              Lsc(mode) \X (w[1]..w[1] + w[2] - 1))
               mine == IF ctls = {} THEN {armed} ELSE {Armed(base, ctl, {}) : ctl \in ctls}
               fits == ~((w[1] - base) + w[2] > 8)
    <3>1. w[1] \in Nat /\ w[2] \in {1, 2, 4, 8} /\ w[1] - base = w[1] % 8
      BY SlotAssumption
    <3>2. \/ UNCHANGED slots
          \/ /\ fits
             /\ \E a \in mine : SetRegister(kWatchpointBase + slot, a, "armed", HwBpFailed)
      BY <2>2, Zenon DEF DebugSetWatchpoint, NotAttached, BadArg
    <3>3. fits => (w[1] % 8) + w[2] <= 8
      BY <3>1
    <3>4. fits => Exact(armed)
      BY <3>1, <3>3, ByteSelect
    <3>5. ASSUME fits, NEW a \in mine PROVE Exact(a)
      <4> HIDE DEF armed, base, fits
      <4> QED BY <1>0, <3>4, <3>5
    <3> HIDE DEF armed, base, bas, mine, fits
    <3> QED BY <2>1, <3>2, <3>5, ArmsTruly
  <2>3. ASSUME NEW w \in Watches, NEW slot, DebugSetBreakpoint(w[1], slot)
        PROVE  WatchesWhatWasAsked'
    <3> DEFINE asked == {"execute"} \X (w[1]..w[1] + 3)
               armed == Armed(w[1], kBreakpointCtl, asked)
    <3>1. w[1] \in Nat
      BY SlotAssumption
    <3>2. UNCHANGED slots \/ SetRegister(slot, armed, "armed", HwBpFailed)
      BY <2>3, Zenon DEF DebugSetBreakpoint, NotAttached, BadArg
    <3>3. {w[1] + b : b \in 0..3} = w[1]..w[1] + 3
      <4>1. \A x \in w[1]..w[1] + 3 : x - w[1] \in 0..3 /\ w[1] + (x - w[1]) = x
        BY <3>1
      <4> QED BY <3>1, <4>1
    <3>4. kBreakpointCtl.access \X {w[1] + b : b \in kBreakpointCtl.bytes} = asked
      BY <3>3 DEF kBreakpointCtl
    <3>5. Exact(armed)
      <4> HIDE DEF asked
      <4> QED BY <3>4 DEF Exact, Armed
    <3> HIDE DEF armed
    <3> QED BY <2>1, <3>2, <3>5, ArmsTruly
  <2>4. ASSUME NEW r, NEW says, NEW refused, NEW base, NEW ctl,
               SetRegister(r, Armed(base, ctl, {}), says, refused)
        PROVE  WatchesWhatWasAsked'
    BY <1>0, <2>4, ArmsTruly
  <2>5. ASSUME NEW slot, NEW w, DebugClearBreakpoint(slot, w) PROVE WatchesWhatWasAsked'
    BY <2>1, <2>4, <2>5 DEF DebugClearBreakpoint, Free, NotAttached, BadArg
  <2>6. ASSUME NEW which, NEW ctl, NEW v, DebugSetHwBpRaw(which, ctl, v)
        PROVE  WatchesWhatWasAsked'
    BY <2>1, <2>4, <2>6 DEF DebugSetHwBpRaw, NotAttached
  <2>7. CASE Commands
    BY <2>1, <2>2, <2>3, <2>5, <2>6, <2>7
    DEF Commands, DebugAttach, DebugModules, DebugPollEvents, DebugContinue, DebugBreak,
        DebugDetach, DebugReadMem, DebugWriteMem, DebugMemMap, DebugThreads, DebugRegisters,
        DebugSearch, DebugWriteRegisters, DebugBacktrace, ThroughHandle, NotAttached
  <2>8. ASSUME ~Commands PROVE UNCHANGED slots
    BY <2>8, QuietSteps DEF WaitEvent, Poll
  <2> QED BY <2>1, <2>7, <2>8
<1>3. QED
  BY <1>1, <1>2, DebuggerTypes, PTL DEF Spec

\* The variables keep their types, for any number of processes, polls and registers:
\* a process the kernel has stopped exists, and a wait never has more looks left than
\* its request may take (events.cpp:81-112).
THEOREM EventsTypes == Spec => []TypeOK
<1> DEFINE RequestOK ==
             /\ wait = Idle \/ \E polls \in Polls : wait.left \in 1..polls
             /\ wait.pid \in 0..born
             /\ wait.buttons \cup pressed \subseteq {"A", "B"}
<1>1. Init => RequestOK
  BY DEF Init, ProcInit, EventsInit, Idle, Waiting, NoPid
<1>2. DbgTypeOK /\ WaitInv /\ RequestOK /\ [Next]_vars => RequestOK'
  <2> SUFFICES ASSUME DbgTypeOK, WaitInv, RequestOK, [Next]_vars PROVE RequestOK'
    OBVIOUS
  <2>0. Idle.pid = 0 /\ Idle.buttons = {} /\ born \in Nat /\ fg \in 0..born
    BY DEF Idle, Waiting, NoPid, WaitInv
  <2>1. CASE UNCHANGED <<wait, pressed>> /\ born' \in {born, born + 1}
    BY <2>0, <2>1
  <2>2. ASSUME NEW event \in Events, NEW buttons \in SUBSET {"A", "B"}, NEW polls \in Polls,
               WaitEvent(event, buttons, polls)
        PROVE  RequestOK'
    <3> DEFINE pid == IF event = "app_change" THEN ForegroundPid ELSE NoPid
               b == IF event = "button" THEN buttons ELSE {}
    <3>1. pid \in 0..born /\ b \subseteq {"A", "B"} /\ polls \in Nat \ {0}
      BY <2>0, PollsAssumption DEF ForegroundPid, NoPid
    <3>2. wait' = Idle \/ wait' = Waiting(event, pid, b, polls)
      BY <2>2, Zenon DEF WaitEvent
    <3>3. pressed' = wait'.buttons /\ born' = born
      BY <2>2 DEF WaitEvent, procVars
    <3> HIDE DEF pid, b
    <3>4. polls \in 1..polls
      BY <3>1
    <3>5. CASE wait' = Idle
      BY <2>0, <3>3, <3>5
    <3>6. CASE wait' = Waiting(event, pid, b, polls)
      <4>1. wait'.pid = pid /\ wait'.buttons = b /\ wait'.left = polls
        BY <3>6 DEF Waiting
      <4> QED BY <3>1, <3>3, <3>4, <4>1
    <3> QED BY <3>2, <3>5, <3>6
  <2>3. CASE Poll
    <3>1. wait # Idle /\ born' = born
      BY <2>3 DEF Poll, procVars
    <3>2. \/ wait' = Idle
          \/ wait.left # 1 /\ wait' = [wait EXCEPT !.left = @ - 1]
      BY ONLY Poll, Zenon DEF Poll
    <3>3. pressed' = {} \/ pressed' = pressed
      BY <2>3 DEF Poll
    <3>4. CASE wait' = Idle
      BY <2>0, <3>1, <3>3, <3>4
    <3>5. CASE wait.left # 1 /\ wait' = [wait EXCEPT !.left = @ - 1]
      <4> DEFINE n == wait.left - 1
      <4>1. PICK polls \in Polls : wait.left \in 1..polls
        BY <3>1
      <4>2. n \in 1..polls
        BY <3>5, <4>1, PollsAssumption
      <4> HIDE DEF n
      <4>3. wait' = [wait EXCEPT !.left = n]
        BY <3>5 DEF n
      <4>4. wait'.left = n /\ wait'.pid = wait.pid /\ wait'.buttons = wait.buttons
        BY <4>3 DEF WaitInv, Requests
      <4> QED BY <3>1, <3>3, <4>2, <4>4
    <3> QED BY <3>2, <3>4, <3>5
  <2>4. ASSUME NEW button \in {"A", "B"}, PressOrRelease(button) PROVE RequestOK'
    <3>1. UNCHANGED <<wait, born>>
      BY <2>4 DEF PressOrRelease, procVars
    <3>2. pressed' \subseteq {"A", "B"}
      BY <2>4 DEF PressOrRelease
    <3> QED BY <3>1, <3>2
  <2> QED
    BY <2>1, <2>2, <2>3, <2>4
    DEF Next, ConsoleSteps, DbgStarts, Launch, Starts, TargetExits, Exits, TargetTraps, vars,
        procVars
<1>3. WaitInv /\ DbgTypeOK /\ RequestOK => TypeOK
  BY DEF TypeOK, WaitInv, Requests
<1>4. QED
  BY <1>1, <1>2, <1>3, WaitInvariant, DebuggerTypes, PTL DEF Spec

-----------------------------------------------------------------------------
(* The frame walk of debug.backtrace, for any memory.                        *)

\* A frame pointer that climbs from the one before it, is aligned, can be read and has a
\* return address beside it.
IsNextFrame(next, prev, fp) ==
  fp > prev /\ fp % 8 = 0 /\ fp \in DOMAIN next /\ next[fp].ret # 0

\* The pointer that frame i of a walk is read from.
PointerTo(fp, next, walk, i) == IF i = 1 THEN fp ELSE next[walk[i - 1]].fp

LEMMA Climbing ==
  ASSUME NEW n \in Nat, NEW f, \A i \in 1..n : f[i] \in Nat,
         \A i \in 1..n - 1 : f[i] < f[i + 1]
  PROVE  \A i, j \in 1..n : i < j => f[i] < f[j]
<1> SUFFICES ASSUME NEW i \in 1..n PROVE \A j \in 1..n : i < j => f[i] < f[j]
  OBVIOUS
<1> DEFINE T == {j \in 0..n : i < j => f[i] < f[j]}
<1>1. 0 \in T
  OBVIOUS
<1>2. ASSUME NEW j \in 0..n - 1, j \in T PROVE j + 1 \in T
  <2>1. CASE j < i
    BY <2>1
  <2>2. CASE j = i
    BY <2>2
  <2>3. CASE i < j
    <3>1. f[i] < f[j] /\ f[j] < f[j + 1] /\ f[i] \in Nat /\ f[j] \in Nat /\ f[j + 1] \in Nat
      BY <1>2, <2>3
    <3>2. f[i] < f[j + 1]
      BY <3>1
    <3> QED BY <3>2
  <2> QED BY <2>1, <2>2, <2>3
<1> HIDE DEF T
<1>3. \A j \in 0..n : j \in T
  BY <1>1, <1>2, UpTo
<1>4. \A j \in 1..n : j \in T
  BY <1>3
<1> QED BY <1>4 DEF T

\* A backtrace follows the chain of frames (debug.backtrace, debug.cpp), in any memory: each
\* frame is found from the one before, further up the stack, so that the walk cannot run in
\* a circle; and it stops only at the maximum or at a pointer that is no next frame.
THEOREM BacktraceIsChain ==
  ASSUME NEW fp \in Nat, NEW next, \A x \in DOMAIN next : next[x].fp \in Nat,
         NEW maxFrames \in Nat \ {0}
  PROVE  LET walk == FramesOf(fp, next, maxFrames)
             Reaches(i) == IsNextFrame(next, IF i = 1 THEN 0 ELSE walk[i - 1],
                                       PointerTo(fp, next, walk, i))
         IN /\ walk \in Seq(Nat) /\ Len(walk) < maxFrames
            /\ \A i \in 1..Len(walk) : Reaches(i) /\ walk[i] = PointerTo(fp, next, walk, i)
            /\ Len(walk) + 1 = maxFrames \/ ~Reaches(Len(walk) + 1)
            /\ \A i, j \in 1..Len(walk) : i < j => walk[i] < walk[j]
<1> DEFINE after(x) == IF x \in DOMAIN next THEN next[x].fp ELSE 0
           Solves(at) == at = [i \in Nat |-> IF i = 0 THEN fp ELSE after(at[i - 1])]
           at == CHOOSE at : Solves(at)
<1>1. /\ at \in [Nat -> Nat] /\ at[0] = fp
      /\ \A n \in Nat : at[n + 1] = after(at[n])
  <2> DEFINE step == [n \in Nat |-> [x \in Nat |-> after(x)]]
  <2>1. step \in [Nat -> [Nat -> Nat]]
    OBVIOUS
  <2>2. PICK g \in [Nat -> Nat] : g[0] = fp /\ \A n \in Nat : g[n + 1] = step[n][g[n]]
    <3> HIDE DEF step, after, at
    <3>1. \E g : Iteration(g, Nat, fp, step)
      BY <2>1, Iterates
    <3> QED BY <3>1 DEF Iteration
  <2>3. \A n \in Nat : g[n + 1] = after(g[n])
    BY <2>2
  <2> HIDE DEF after, step
  <2>4. Solves(g)
    <3>1. \A n \in Nat \ {0} : n - 1 \in Nat /\ (n - 1) + 1 = n
      OBVIOUS
    <3>2. \A n \in Nat \ {0} : g[n] = after(g[n - 1])
      BY <2>3, <3>1
    <3>3. \A n \in Nat : g[n] = IF n = 0 THEN fp ELSE after(g[n - 1])
      BY <2>2, <3>2
    <3> QED BY <3>3
  <2>5. Solves(at)
    <3> HIDE DEF Solves
    <3> QED BY <2>4
  <2> HIDE DEF at
  <2>6. \A n \in Nat : n + 1 \in Nat /\ n + 1 # 0 /\ (n + 1) - 1 = n
    OBVIOUS
  <2>7. at[0] = fp /\ \A n \in Nat : at[n + 1] = after(at[n])
    BY <2>5, <2>6
  <2>8. at \in [Nat -> Nat]
    <3> DEFINE T == {n \in Nat : at[n] \in Nat}
    <3>1. 0 \in T
      BY <2>7
    <3>2. ASSUME NEW n \in T PROVE n + 1 \in T
      <4>1. after(at[n]) \in Nat
        BY DEF after
      <4> HIDE DEF after
      <4> QED BY <2>7, <4>1
    <3>3. T = Nat
      <4> HIDE DEF T
      <4>1. T \subseteq Nat
        BY DEF T
      <4> QED BY <3>1, <3>2, <4>1, EveryNatural
    <3>4. \A n \in Nat : at[n] \in Nat
      BY <3>3
    <3> HIDE DEF after
    <3>5. at = [n \in Nat |-> at[n]]
      BY <2>5
    <3> QED BY <3>4, <3>5
  <2> QED BY <2>7, <2>8
<1> DEFINE follows(i) == /\ at[i] # 0 /\ at[i] % 8 = 0
                         /\ at[i] > (IF i = 0 THEN 0 ELSE at[i - 1])
                         /\ at[i] \in DOMAIN next /\ next[at[i]].ret # 0
           walked == {n \in 0..maxFrames - 1 : \A i \in 0..n - 1 : follows(i)}
           n == CHOOSE n \in walked : \A m \in walked : m <= n
           walk == [i \in 1..n |-> at[i - 1]]
<1>2. FramesOf(fp, next, maxFrames) = walk
  BY DEF FramesOf
<1> HIDE DEF at
<1>3. n \in walked /\ \A m \in walked : m <= n
  <2>1. 0 \in walked /\ walked \subseteq 0..maxFrames - 1 /\ maxFrames - 1 \in Nat
    OBVIOUS
  <2> HIDE DEF walked
  <2>2. \E m \in walked : \A k \in walked : k <= m
    BY <2>1, Largest
  <2> QED BY <2>2
<1> HIDE DEF n
<1>4. n \in Nat /\ n < maxFrames /\ \A i \in 0..n - 1 : follows(i)
  BY <1>3
<1>5. n + 1 = maxFrames \/ ~follows(n)
  <2>1. n + 1 \notin walked
    BY <1>3, <1>4
  <2>2. CASE n + 1 \in 0..maxFrames - 1
    <3>1. PICK i \in 0..(n + 1) - 1 : ~follows(i)
      BY <2>1, <2>2
    <3>2. i \in 0..n - 1 \/ i = n
      BY <1>4
    <3> HIDE DEF follows
    <3> QED BY <1>4, <3>1, <3>2
  <2> QED BY <1>4, <2>2
<1> DEFINE Reaches(i) == IsNextFrame(next, IF i = 1 THEN 0 ELSE walk[i - 1],
                                     PointerTo(fp, next, walk, i))
<1>6. walk \in Seq(Nat) /\ Len(walk) = n
  <2>1. \A i \in 1..n : at[i - 1] \in Nat
    BY <1>1
  <2>2. walk \in [1..n -> Nat]
    BY <2>1
  <2> HIDE DEF walk
  <2> QED BY <1>4, <2>2
<1>7. ASSUME NEW i \in 1..n + 1
      PROVE  /\ PointerTo(fp, next, walk, i) = at[i - 1]
             /\ (IF i = 1 THEN 0 ELSE walk[i - 1]) = (IF i - 1 = 0 THEN 0 ELSE at[i - 2])
  <2>1. CASE i = 1
    BY <1>1, <2>1 DEF PointerTo
  <2>2. CASE i # 1
    <3>1. i - 1 \in 1..n /\ i - 2 \in 0..n - 1 /\ i - 2 \in Nat /\ (i - 2) + 1 = i - 1
      BY <1>4, <2>2
    <3>2. walk[i - 1] = at[i - 2]
      BY <3>1
    <3>3. at[i - 2] \in DOMAIN next
      BY <1>4, <3>1
    <3>4. at[i - 1] = next[at[i - 2]].fp
      BY <1>1, <3>1, <3>3
    <3> HIDE DEF walk
    <3> QED BY <2>2, <3>1, <3>2, <3>4 DEF PointerTo
  <2> QED BY <2>1, <2>2
<1>8. ASSUME NEW i \in 1..n + 1 PROVE Reaches(i) <=> follows(i - 1)
  <2>1. i - 1 \in Nat /\ at[i - 1] \in Nat /\ (i - 1 # 0 => at[i - 2] \in Nat)
        /\ (i - 1) - 1 = i - 2
    BY <1>1
  <2>2. Reaches(i) <=> IsNextFrame(next, IF i - 1 = 0 THEN 0 ELSE at[i - 2], at[i - 1])
    BY <1>7
  <2> QED BY <2>1, <2>2 DEF IsNextFrame
<1>9. \A i \in 1..n : Reaches(i) /\ walk[i] = PointerTo(fp, next, walk, i)
  <2> TAKE i \in 1..n
  <2>1. follows(i - 1) /\ walk[i] = at[i - 1] /\ i \in 1..n + 1
    BY <1>4
  <2> HIDE DEF walk, follows, Reaches
  <2> QED BY <1>7, <1>8, <2>1
<1>10. n + 1 = maxFrames \/ ~Reaches(n + 1)
  <2>1. n + 1 \in 1..n + 1 /\ (n + 1) - 1 = n
    BY <1>4
  <2> QED BY <1>5, <1>8, <2>1
<1>11. \A i, j \in 1..n : i < j => walk[i] < walk[j]
  <2>1. \A i \in 1..n : walk[i] \in Nat
    <3> HIDE DEF walk
    <3> QED BY <1>6
  <2>2. ASSUME NEW i \in 1..n - 1 PROVE walk[i] < walk[i + 1]
    <3>1. follows(i) /\ walk[i] = at[i - 1] /\ walk[i + 1] = at[i]
      BY <1>4
    <3>2. at[i] \in Nat /\ at[i - 1] \in Nat /\ i # 0
      BY <1>1
    <3> HIDE DEF walk
    <3> QED BY <3>1, <3>2
  <2> HIDE DEF walk
  <2> QED BY <1>4, <2>1, <2>2, Climbing
<1> HIDE DEF walk, n
<1> QED BY <1>2, <1>4, <1>6, <1>9, <1>10, <1>11

\* What the runs evaluate over small memories, by the theorem above.
THEOREM BacktracesEnd == Spec => []BacktraceTrue
<1>1. FramesTrue
  <2> SUFFICES ASSUME NEW fp \in {0, 8, 12, 16}, NEW maxFrames \in 1..4,
                      NEW next \in [{8, 12, 16, 24} -> [fp : {0, 8, 16, 24}, ret : {0, 1}]]
               PROVE  LET walk == FramesOf(fp, next, maxFrames) IN
                      /\ Len(walk) < maxFrames
                      /\ \A i, j \in DOMAIN walk : i < j => walk[i] < walk[j]
                      /\ (/\ fp = 8 /\ next[8] = [fp |-> 16, ret |-> 1]
                          /\ next[16] = [fp |-> 0, ret |-> 1] /\ maxFrames = 4)
                            => walk = <<8, 16>>
    BY DEF FramesTrue
  <2> DEFINE walk == FramesOf(fp, next, maxFrames)
             Reaches(i) == IsNextFrame(next, IF i = 1 THEN 0 ELSE walk[i - 1],
                                       PointerTo(fp, next, walk, i))
  <2>1. fp \in Nat /\ maxFrames \in Nat \ {0} /\ DOMAIN next = {8, 12, 16, 24}
    OBVIOUS
  <2>2. \A x \in DOMAIN next : next[x].fp \in Nat
    OBVIOUS
  <2>3. /\ walk \in Seq(Nat) /\ Len(walk) < maxFrames
        /\ \A i \in 1..Len(walk) : Reaches(i) /\ walk[i] = PointerTo(fp, next, walk, i)
        /\ Len(walk) + 1 = maxFrames \/ ~Reaches(Len(walk) + 1)
        /\ \A i, j \in 1..Len(walk) : i < j => walk[i] < walk[j]
    BY <2>1, <2>2, BacktraceIsChain, Zenon
  <2> HIDE DEF walk
  <2>4. DOMAIN walk = 1..Len(walk) /\ Len(walk) \in Nat
    BY <2>3
  <2>5. ASSUME fp = 8, next[8] = [fp |-> 16, ret |-> 1], next[16] = [fp |-> 0, ret |-> 1],
               maxFrames = 4
        PROVE  walk = <<8, 16>>
    <3>1. next[8].fp = 16 /\ next[8].ret = 1 /\ next[16].fp = 0 /\ next[16].ret = 1
      BY <2>5
    <3>2. Reaches(1) /\ PointerTo(fp, next, walk, 1) = 8
      BY <2>1, <2>5, <3>1 DEF IsNextFrame, PointerTo
    <3>3. Len(walk) >= 1 /\ walk[1] = 8
      BY <2>3, <2>4, <2>5, <3>2
    <3>4. PointerTo(fp, next, walk, 2) = 16 /\ Reaches(2)
      BY <2>1, <3>1, <3>3 DEF IsNextFrame, PointerTo
    <3>5. Len(walk) >= 2 /\ walk[2] = 16
      BY <2>3, <2>4, <2>5, <3>3, <3>4
    <3>6. PointerTo(fp, next, walk, 3) = 0 /\ ~Reaches(3)
      BY <3>1, <3>5 DEF IsNextFrame, PointerTo
    <3>7. Len(walk) = 2
      BY <2>3, <2>4, <2>5, <3>5, <3>6
    <3> QED BY <2>3, <3>3, <3>5, <3>7
  <2>6. \A i, j \in DOMAIN walk : i < j => walk[i] < walk[j]
    BY <2>3, <2>4, Zenon
  <2> QED BY <2>3, <2>5, <2>6, Zenon DEF walk
<1>2. BacktraceTrue
  BY <1>1 DEF BacktraceTrue
<1> QED BY <1>2, PTL
=============================================================================
