----------------------------- MODULE Lifecycle -----------------------------
(***************************************************************************)
(* The life of a console from boot to boot: the watchdog that counts its   *)
(* boots (Watchdog) and the power requests that end them (PowerAction).    *)
(* One thread serves clients: it authenticates them, which resets the      *)
(* watchdog, and handles their requests; the power thread goes its own way *)
(* and takes the console down in the middle of whatever happens.           *)
(***************************************************************************)
EXTENDS Watchdog

CONSTANTS Reboots, Shutdowns

ASSUME LifecycleAssumption == Reboots \cap Shutdowns = {}

VARIABLES started, pending, thread, result, first, performed

power == <<started, pending, thread, result, first, performed>>

P == INSTANCE PowerAction

all == <<vars, power>>

LifecycleInit == Init /\ P!Init

\* main starts: WatchdogOnBoot first, with the variables of a new process.
Start == Boot /\ P!Restart

\* The rest of WatchdogOnBoot, and authenticating clients.
Watch == Running /\ UNCHANGED power

\* A client that has authenticated sends a power request.
Serve == at = "running" /\ streak = 0 /\ P!Handle /\ UNCHANGED vars

\* The power thread takes the console down, unless bpc refuses.
Transition ==
  /\ at # "off" /\ P!PowerThread
  /\ IF performed' # "none" THEN PowerLoss ELSE UNCHANGED vars

\* The console crashes, or somebody switches it off.
Outage == PowerLoss /\ UNCHANGED power

LifecycleNext == Start \/ Watch \/ Serve \/ Transition \/ Outage

\* The power thread does not sleep forever; everything else is up to others.
LifecycleSpec == LifecycleInit /\ [][LifecycleNext]_all /\ WF_all(Transition)

-----------------------------------------------------------------------------
(* Properties.                                                               *)

TypesOK == TypeOK /\ P!TypeOK

\* Of competing power requests the first acknowledged one is carried out.
FirstAcknowledgedWins == P!FirstWins

\* An acknowledged request takes the console down, unless bpc refuses.
GoesDown == (at # "off" /\ P!Acknowledged) ~> (at = "off" \/ P!Refused)

\* A transition the agent itself makes never cuts off a rewrite of the count: the
\* only connection that rewrites it has done so before it can ask for anything.
PowerSparesCount ==
  [][performed = "none" /\ performed' # "none" => mishaps' = mishaps]_all
=============================================================================
