----------------------------- MODULE Processes -----------------------------
(***************************************************************************)
(* The processes of the console as the agent sees them through pm:dmnt     *)
(* and pm:shell: which exist, and which is the foreground application.     *)
(* Process ids are never used twice; 0 is "none", as in the code.          *)
(* Handlers of titles.cpp that change this state are operators here; the   *)
(* modules that hold debug handles or search tables over processes extend  *)
(* this one.                                                               *)
(***************************************************************************)
EXTENDS Integers, FiniteSets

CONSTANT MaxPid   \* bound: how many processes are ever started

ASSUME MaxPidAssumption == MaxPid \in Nat \ {0}

VARIABLES born,   \* number of processes started so far; their ids are 1..born
          alive,  \* ids of the processes that exist
          fg      \* the foreground application, or NoPid

procVars == <<born, alive, fg>>

NoPid == 0
Pids == 1..MaxPid

ProcTypeOK ==
    /\ born \in 0..MaxPid
    /\ alive \subseteq 1..born
    /\ fg \in alive \cup {NoPid}

ProcInit == born = 0 /\ alive = {} /\ fg = NoPid

\* pmdmntGetApplicationProcessId with the code's "|| pid == 0".
ForegroundPid == fg

\* A process starts: as the foreground application if there is none, or
\* beside it (an applet, a sysmodule).
Starts ==
    /\ born < MaxPid
    /\ born' = born + 1
    /\ alive' = alive \cup {born + 1}
    /\ \/ fg = NoPid /\ fg' = born + 1
       \/ fg' = fg

Exits(p) ==
    /\ p \in alive
    /\ alive' = alive \ {p}
    /\ fg' = IF fg = p THEN NoPid ELSE fg
    /\ UNCHANGED born

\* launch: pm:shell starts the title or refuses it.
Launch == Starts

\* terminate with a title, or without one for the foreground application.
Terminate(p) == Exits(p)
=============================================================================
