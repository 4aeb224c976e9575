---------------------------- MODULE PowerAction ----------------------------
(***************************************************************************)
(* Requested power transitions (handlers/power.cpp).  The handler schedules *)
(* the transition on a thread of its own, which waits half a second so     *)
(* that the reply gets out and then calls bpc; requests that arrive in the *)
(* meantime find one scheduled already.                                    *)
(***************************************************************************)
EXTENDS Naturals

CONSTANTS
  Reboots,     \* requests of power.reboot, power.reboot_payload and agent.restart
  Shutdowns    \* requests of power.shutdown

VARIABLES
  started,    \* the static flag of SchedulePowerAction
  pending,    \* g_pending_action
  thread,     \* the power thread
  result,     \* what each request was answered
  first,      \* history: what the first acknowledged request asked for
  performed   \* what bpc has done to the console, "none" while it runs

vars == <<started, pending, thread, result, first, performed>>

Requests == Reboots \cup Shutdowns

\* Mutant of Action: a third action is asked for, which the power thread lacks.
ActionWithPayload(r) == IF r \in Reboots THEN "payload" ELSE "shutdown"

Action(r) == IF r \in Reboots THEN "reboot" ELSE "shutdown"

TypeOK ==
  /\ started \in BOOLEAN
  /\ pending \in {"reboot", "shutdown"}
  /\ thread \in {"none", "sleeping", "ended"}
  /\ result \in [Requests -> {"none", "ok", "bpc_failed"}]
  /\ first \in {"none", "reboot", "shutdown"}
  /\ performed \in {"none", "reboot", "shutdown"}

Init ==
  /\ started = FALSE /\ pending = "reboot" /\ thread = "none"
  /\ result = [r \in Requests |-> "none"]
  /\ first = "none" /\ performed = "none"

-----------------------------------------------------------------------------
Answers(r, o) == result' = [result EXCEPT ![r] = o]

Remember(r) == first' = IF first = "none" THEN Action(r) ELSE first

\* The console still runs and request r is being handled.
Handling(r) == performed = "none" /\ result[r] = "none"

\* Mutant of AlreadyScheduled: the action is noted before the flag is looked at.
AlreadyScheduledOverwrites(r) ==
  /\ Handling(r) /\ started
  /\ pending' = Action(r)
  /\ Answers(r, "ok") /\ Remember(r)
  /\ UNCHANGED <<started, thread, performed>>

\* "One transition is enough": a second request is acknowledged at once.
AlreadyScheduled(r) ==
  /\ Handling(r) /\ started
  /\ Answers(r, "ok") /\ Remember(r)
  /\ UNCHANGED <<started, pending, thread, performed>>

Schedule(r) ==
  /\ Handling(r) /\ ~started
  /\ pending' = Action(r)
  /\ thread' = "sleeping" /\ started' = TRUE
  /\ Answers(r, "ok") /\ Remember(r)
  /\ UNCHANGED performed

\* Mutant of CannotSchedule: the flag is set before the thread has been started.
CannotScheduleButStarted(r) ==
  /\ Handling(r) /\ ~started
  /\ pending' = Action(r) /\ started' = TRUE
  /\ Answers(r, "bpc_failed")
  /\ UNCHANGED <<thread, first, performed>>

\* The thread cannot be created or started.
CannotSchedule(r) ==
  /\ Handling(r) /\ ~started
  /\ pending' = Action(r)
  /\ Answers(r, "bpc_failed")
  /\ UNCHANGED <<started, thread, first, performed>>

\* PowerThread wakes up and calls bpc; nobody looks at what it returns.
PowerThread ==
  /\ thread = "sleeping"
  /\ thread' = "ended"
  /\ \/ performed' = pending
     \/ UNCHANGED performed
  /\ UNCHANGED <<started, pending, result, first>>

\* The agent starts anew: its flags are those of a new process.
Restart ==
  /\ started' = FALSE /\ pending' = "reboot" /\ thread' = "none"
  /\ result' = [r \in Requests |-> "none"]
  /\ first' = "none" /\ performed' = "none"

Handle == \E r \in Requests : AlreadyScheduled(r) \/ Schedule(r) \/ CannotSchedule(r)

-----------------------------------------------------------------------------
(* Properties.                                                               *)

Acknowledged == \E r \in Requests : result[r] = "ok"

\* The console does what the first acknowledged request asked for: neither a
\* request that failed earlier nor one that came later changes that.
FirstWins == performed # "none" => performed = first

\* bpc has refused the transition.
Refused == thread = "ended" /\ performed = "none"
=============================================================================
