------------------------------- MODULE Events -------------------------------
(***************************************************************************)
(* wait_event of handlers/events.cpp, composed with the debugger and the   *)
(* processes it looks at. The one service thread sits in the handler and   *)
(* looks every 200 ms: until it answers no other command is served, while  *)
(* the player and the programs of the console go on between the looks.     *)
(***************************************************************************)
EXTENDS Debugger

CONSTANT Polls   \* the numbers of polls a request may take: its timeout_ms,
                 \* clamped to 100..kMaxWaitMs, in steps of kPollNs
ASSUME PollsAssumption == Polls \subseteq Nat \ {0}

VARIABLES wait,     \* the request being served
          pressed,  \* the buttons the player holds down
          happened  \* history: what has happened since the request was entered

vars == <<procVars, dbgVars, wait, pressed, happened>>

Events == {"app_start", "app_exit", "app_change", "button", "other"}

\* pid and buttons are start_pid and start_buttons, kept where they are used;
\* left is how many more times the thread looks.
Waiting(event, pid, buttons, left) ==
    [event |-> event, pid |-> pid, buttons |-> buttons, left |-> left]
Idle == Waiting("none", NoPid, {}, 0)

AppRunning == ForegroundPid # NoPid

EventsInit == wait = Idle /\ pressed = {} /\ happened = {}

\* The entry of the handler: a level-triggered event that holds is answered at
\* once. What the debugger answered before is of no interest any more.
WaitEvent(event, buttons, polls) ==
    /\ wait = Idle
    /\ IF (event = "app_start" /\ AppRunning) \/ (event = "app_exit" /\ ~AppRunning)
       THEN /\ wait' = wait
            /\ Answer("ok", ForegroundPid, "fired")
       ELSE /\ wait' = Waiting(event, IF event = "app_change" THEN ForegroundPid ELSE NoPid,
                               IF event = "button" THEN buttons ELSE {}, polls)
            /\ Answer("ok", NoPid, "")
    /\ pressed' = wait'.buttons /\ happened' = {}
    /\ UNCHANGED <<sessionVars, slots, procVars>>

\* Mutant: app_change compares only whether there is an application.
FiredByPresence ==
    CASE wait.event = "app_start" -> AppRunning
      [] wait.event = "app_exit" -> ~AppRunning
      [] wait.event = "app_change" -> AppRunning # (wait.pid # NoPid)
      [] wait.event = "button" -> pressed \notin {{}, wait.buttons}
      [] OTHER -> FALSE

\* What a look decides.
Fired ==
    CASE wait.event = "app_start" -> AppRunning
      [] wait.event = "app_exit" -> ~AppRunning
      [] wait.event = "app_change" -> ForegroundPid # wait.pid
      [] wait.event = "button" -> pressed \notin {{}, wait.buttons}
      [] OTHER -> FALSE

\* Mutant: the time that has passed is not counted.
PollForEver ==
    /\ wait # Idle
    /\ IF Fired
       THEN wait' = Idle /\ Answer("ok", ForegroundPid, "fired")
       ELSE UNCHANGED <<wait, reply>>
    /\ UNCHANGED <<pressed, happened, sessionVars, slots, procVars>>

\* One round of the loop: sleep, look, and answer or go on. An unknown event is
\* noticed only here.
Poll ==
    /\ wait # Idle
    /\ IF wait.event = "other"
       THEN wait' = Idle /\ Answer("bad_arg", NoPid, "")
       ELSE IF Fired
            THEN wait' = Idle /\ Answer("ok", ForegroundPid, "fired")
            ELSE IF wait.left = 1
                 THEN wait' = Idle /\ Answer("ok", NoPid, "timed out")
                 ELSE wait' = [wait EXCEPT !.left = @ - 1] /\ UNCHANGED reply
    /\ IF wait' = Idle THEN pressed' = {} /\ happened' = {} ELSE UNCHANGED <<pressed, happened>>
    /\ UNCHANGED <<sessionVars, slots, procVars>>

\* What a step of the console adds to what has happened during a wait.
AppEdges == IF fg' = fg THEN {} ELSE IF fg' = NoPid THEN {"exit"} ELSE {"start"}
ButtonEdges == (IF pressed' \subseteq pressed THEN {} ELSE {"press"})
               \cup (IF pressed \subseteq pressed' THEN {} ELSE {"release"})
Seen(edges) == happened' = IF wait = Idle THEN {} ELSE happened \cup edges

\* The player's hands: followed only while a handler looks at them.
PressOrRelease(button) ==
    /\ wait.event = "button"
    /\ pressed' \in {pressed \cup {button}, pressed \ {button}}
    /\ Seen(ButtonEdges)
    /\ UNCHANGED <<wait, procVars, dbgVars>>

ConsoleSteps ==
    \/ DbgStarts
    \/ \E p \in Pids, terminated \in BOOLEAN : TargetExits(p, terminated)
    \/ TargetTraps

Next ==
    \/ wait = Idle /\ Commands /\ UNCHANGED <<procVars, wait, pressed, happened>>
    \/ \E event \in Events, buttons \in SUBSET {"A", "B"}, polls \in Polls :
          WaitEvent(event, buttons, polls)
    \/ Poll
    \/ \E button \in {"A", "B"} : PressOrRelease(button)
    \/ ConsoleSteps /\ Seen(AppEdges) /\ UNCHANGED <<wait, pressed>>

Init == ProcInit /\ DbgInit /\ EventsInit

\* The thread wakes up from each svcSleepThread.
Spec ==
    /\ Init
    /\ [][Next]_vars
    /\ WF_vars(Poll)

(***************************************************************************)
(* Properties                                                              *)
(***************************************************************************)
TypeOK ==
    /\ DbgTypeOK
    /\ wait.event \in Events \cup {"none"}
    /\ wait = Idle \/ \E polls \in Polls : wait.left \in 1..polls
    /\ wait.pid \in 0..born /\ wait.buttons \cup pressed \subseteq {"A", "B"}

\* What a request waits for has happened since it was entered.
Caused ==
    CASE wait.event = "app_start" -> "start" \in happened
      [] wait.event = "app_exit" -> "exit" \in happened
      [] wait.event = "app_change" -> happened \cap {"start", "exit"} # {}
      [] wait.event = "button" -> happened \cap {"press", "release"} # {}

\* It has not happened, or it was undone since: an application that came and went
\* (or, for app_exit, went and came), buttons that were pressed and let go.
UndoneAtMost ==
    CASE wait.event = "app_start" -> "start" \in happened => "exit" \in happened
      [] wait.event = "app_exit" -> "exit" \in happened => "start" \in happened
      [] wait.event = "app_change" ->
            \/ happened \cap {"start", "exit"} = {}
            \/ wait.pid = NoPid /\ {"start", "exit"} \subseteq happened
      [] wait.event = "button" -> "press" \in happened => "release" \in happened

\* A wait reports nothing that did not happen during it, and no look passes over
\* anything but what is already undone when the look comes: a relaunch between
\* two looks, a termination by the debugger or a second press is not lost. What
\* is brief enough to be lost, against "nothing happened within the window", is
\* an application where there was none before that came and went, buttons let go
\* before the look, and buttons held from the start that are pressed again.
WaitsMissOnlyTheUndone ==
    [][wait # Idle /\ wait' # wait /\ wait.event # "other" =>
          IF wait' = Idle /\ reply'.says = "fired" THEN Caused ELSE UndoneAtMost]_vars

\* A wait never holds the service thread for ever: every client gets its turn,
\* with a target the agent has frozen and that nobody can resume meanwhile too.
WaitEnds == wait # Idle ~> wait = Idle

\* debug.backtrace over every small memory (debug.cpp:729-747): FramesTrue, a
\* fact about FramesOf, which the initial states are enough to evaluate.
BacktraceTrue == Init => FramesTrue
=============================================================================
