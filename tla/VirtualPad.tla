----------------------------- MODULE VirtualPad -----------------------------
(***************************************************************************)
(* The virtual controller (namespace vpad, handlers/input.cpp) and the two *)
(* threads that drive it without a lock: "service", the server thread that *)
(* runs the input handlers and lets go of the pad when its client leaves,  *)
(* and "worker", the lockscreen thread that presses B after boot and to    *)
(* keep the console awake (lockscreen.cpp).                                *)
(*                                                                         *)
(* Both threads have the same priority on the same core, so one runs until *)
(* it blocks: a step of the model is what a thread does between two        *)
(* blocking calls, up to and including the effect of the second.  The      *)
(* calls into hid go through one session, which answers them in order.     *)
(***************************************************************************)
EXTENDS Sequences, Integers

CONSTANTS
  Presses,       \* kPresses
  ClearOnBoot,   \* clear_lockscreen_on_boot
  KeepAwake,     \* keep_awake_minutes # 0
  ControlTier,   \* the configured tier is at least Control
  HidMayFail     \* hid may refuse to attach the pad or to take an autopilot state

ASSUME PadAssumption ==
  /\ Presses \in Nat \ {0}
  /\ ClearOnBoot \in BOOLEAN /\ KeepAwake \in BOOLEAN
  /\ ControlTier \in BOOLEAN /\ HidMayFail \in BOOLEAN

VARIABLES
  step,       \* where each thread is in its own code
  call,       \* the blocking call it is in, inside Ensure, SetButtons or Release
  granted,    \* what hid answers to that call
  queue,      \* the threads hid has still to answer, in order
  attached,   \* g_attached
  presses,    \* presses the worker has made since boot
  reply,      \* what the last Input answered
  buf, dev,   \* hid: the work buffer and the virtual device are attached
  held,       \* hid: what the virtual device holds down
  finger,     \* hid: the touch screen autopilot holds a finger down
  keyboard,   \* hid: the keyboard autopilot
  app         \* an application is in the foreground

threads == <<step, call, granted, queue, attached, presses, reply>>
pad     == <<buf, dev, held>>
other   == <<finger, keyboard, app>>
vars    == <<threads, pad, other>>

Thread == {"service", "worker"}
ServiceSteps == {"noClient", "idle", "open", "press", "hold", "unpress", "release",
                 "touching", "typing"}
WorkerSteps == {"gap", "open", "press", "hold", "unpress", "release", "nap", "done"}
PadCalls == {"attachBuf", "attachDev", "undoBuf", "set", "relSet", "relDev", "relBuf"}

TypeOK ==
  /\ step \in [Thread -> ServiceSteps \cup WorkerSteps]
  /\ step["service"] \in ServiceSteps /\ step["worker"] \in WorkerSteps
  /\ call \in [Thread -> PadCalls \cup {"none", "logging"}]
  /\ granted \in [Thread -> BOOLEAN]
  /\ queue \in Seq(Thread)
  /\ attached \in BOOLEAN
  /\ presses \in 0..Presses
  /\ reply \in {"none", "ok", "hdls_failed"}
  /\ buf \in BOOLEAN /\ dev \in BOOLEAN
  /\ held \in {"nothing", "B", "mask"}
  /\ finger \in BOOLEAN /\ keyboard \in {"off", "clear", "down"}
  /\ app \in BOOLEAN

\* ScheduleUnlock starts the worker, or does not.
Unlocks == (ClearOnBoot \/ KeepAwake) /\ ControlTier

Init ==
  /\ \E w \in IF Unlocks THEN {"gap", "done"} ELSE {"done"} :
       step = [t \in Thread |-> IF t = "service" THEN "noClient" ELSE w]
  /\ call = [t \in Thread |-> "none"]
  /\ granted = [t \in Thread |-> FALSE]
  /\ queue = <<>>
  /\ attached = FALSE /\ presses = 0 /\ reply = "none"
  /\ buf = FALSE /\ dev = FALSE /\ held = "nothing"
  /\ finger = FALSE /\ keyboard = "off" /\ app = FALSE

-----------------------------------------------------------------------------
(* Calling hid, and getting its answer.                                      *)

\* The threads that wait once t has left: it leaves the head of the queue, or was
\* not in it.
WithoutThread(t) == IF queue # <<>> /\ Head(queue) = t THEN Tail(queue) ELSE queue

\* Thread t makes call c, having left its previous one; hid grants it or not.
Calls(t, c, grant) ==
  /\ call' = [call EXCEPT ![t] = c]
  /\ granted' = [granted EXCEPT ![t] = grant]
  /\ queue' = Append(WithoutThread(t), t)

\* Thread t has the answer to call c: it is the next one to run.
Answered(t, c) == call[t] = c /\ Head(queue) = t

\* Thread t leaves its call.
Returns(t) ==
  /\ call' = [call EXCEPT ![t] = "none"]
  /\ granted' = [granted EXCEPT ![t] = FALSE]
  /\ queue' = WithoutThread(t)

Outcomes(possible) == IF HidMayFail THEN {possible, FALSE} ELSE {possible}

-----------------------------------------------------------------------------
(* Where a thread goes on after an operation on the pad.                     *)

\* The worker after PressB: the boot presses first, then one per nudge.
Rested(n) == IF n < Presses THEN "gap" ELSE "release"

Count == IF presses < Presses THEN presses + 1 ELSE presses

\* The operation of thread t succeeded, or its failure is ignored.
Advance(t) ==
  /\ step' = [step EXCEPT ![t] =
       CASE @ = "open" -> "press"
         [] @ = "press" -> "hold"
         [] @ = "unpress" /\ t = "service" -> "idle"
         [] @ = "unpress" /\ t = "worker" -> Rested(Count)
         [] @ = "release" /\ t = "service" -> "noClient"
         [] @ = "release" /\ t = "worker" -> IF KeepAwake THEN "nap" ELSE "done"]
  /\ presses' = IF t = "worker" /\ step[t] = "unpress" THEN Count ELSE presses
  /\ reply' = IF t = "service" /\ step[t] = "unpress" THEN "ok" ELSE reply

\* Ensure returned false.  Input fails and PressB gives up; SetButtons fails
\* too, and nobody looks at what it returns.
NoPad(t) ==
  \/ step[t] # "open" /\ Advance(t)
  \/ /\ step[t] = "open" /\ t = "service"
     /\ step' = [step EXCEPT ![t] = "idle"] /\ reply' = "hdls_failed"
     /\ UNCHANGED presses
  \/ /\ step[t] = "open" /\ t = "worker"
     /\ step' = [step EXCEPT ![t] = Rested(Count)] /\ presses' = Count
     /\ UNCHANGED reply

\* Mutant of Buttons: a press is not followed by a release.
ButtonsStay(t) == IF t = "worker" THEN "B" ELSE "mask"

\* What SetButtons asks for.
Buttons(t) ==
  IF step[t] = "unpress" THEN "nothing" ELSE IF t = "worker" THEN "B" ELSE "mask"

-----------------------------------------------------------------------------
(* Ensure and SetButtons.                                                    *)

Using(t) == step[t] \in {"open", "press", "unpress"}

\* SetButtons, with the pad attached: hand the state to hid.
SetState(t) ==
  /\ Calls(t, "set", dev)
  /\ held' = IF dev THEN Buttons(t) ELSE held

\* Ensure, on an attached pad: return at once.
Reuse(t) ==
  /\ Using(t) /\ call[t] = "none" /\ attached
  /\ \/ step[t] = "open" /\ Advance(t) /\ UNCHANGED <<call, granted, queue, held>>
     \/ step[t] # "open" /\ SetState(t) /\ UNCHANGED <<step, presses, reply>>
  /\ UNCHANGED <<attached, buf, dev, other>>

\* Ensure, on a detached pad: attach the work buffer, which only one can be.
AttachBuf(t) ==
  /\ Using(t) /\ call[t] = "none" /\ ~attached
  /\ \E g \in Outcomes(~buf) : Calls(t, "attachBuf", g) /\ buf' = (buf \/ g)
  /\ UNCHANGED <<step, attached, presses, reply, dev, held, other>>

\* Without a work buffer Ensure returns false; with one it attaches the device.
AttachDev(t) ==
  /\ Answered(t, "attachBuf")
  /\ \/ /\ ~granted[t] /\ Returns(t) /\ NoPad(t)
        /\ UNCHANGED dev
     \/ /\ granted[t]
        /\ \E g \in Outcomes(buf /\ ~dev) : Calls(t, "attachDev", g) /\ dev' = (dev \/ g)
        /\ UNCHANGED <<step, presses, reply>>
  /\ UNCHANGED <<attached, buf, held, other>>

\* Mutant of Attached: the work buffer is kept when the device is refused.
AttachedKeepsBuf(t) ==
  /\ Answered(t, "attachDev")
  /\ \/ /\ granted[t] /\ attached' = TRUE
        /\ call' = [call EXCEPT ![t] = "logging"]
        /\ granted' = [granted EXCEPT ![t] = FALSE]
        /\ queue' = WithoutThread(t)
        /\ UNCHANGED <<buf, held>>
     \/ /\ ~granted[t] /\ Calls(t, "undoBuf", TRUE)
        /\ UNCHANGED <<attached, buf, held>>
  /\ UNCHANGED <<step, presses, reply, dev, other>>

\* The device is attached and the pad ready, once the log line is written; or the
\* device was refused, and the work buffer is released.
Attached(t) ==
  /\ Answered(t, "attachDev")
  /\ \/ /\ granted[t] /\ attached' = TRUE
        /\ call' = [call EXCEPT ![t] = "logging"]
        /\ granted' = [granted EXCEPT ![t] = FALSE]
        /\ queue' = WithoutThread(t)
        /\ UNCHANGED <<buf, held>>
     \/ /\ ~granted[t] /\ Calls(t, "undoBuf", TRUE)
        /\ buf' = FALSE
        /\ UNCHANGED <<attached, held>>
  /\ UNCHANGED <<step, presses, reply, dev, other>>

GiveUp(t) ==
  /\ Answered(t, "undoBuf")
  /\ Returns(t) /\ NoPad(t)
  /\ UNCHANGED <<attached, pad, other>>

\* Back from the log: Ensure returns true, and SetButtons goes on.
Logged(t) ==
  /\ call[t] = "logging"
  /\ \/ step[t] = "open" /\ Returns(t) /\ Advance(t) /\ UNCHANGED held
     \/ step[t] # "open" /\ SetState(t) /\ UNCHANGED <<step, presses, reply>>
  /\ UNCHANGED <<attached, buf, dev, other>>

\* SetButtons returns; its caller ignores whether hid took the state.
WasSet(t) ==
  /\ Answered(t, "set")
  /\ Returns(t) /\ Advance(t)
  /\ UNCHANGED <<attached, pad, other>>

\* The sleep between press and release is over.
HoldOver(t) ==
  /\ step[t] = "hold"
  /\ step' = [step EXCEPT ![t] = "unpress"]
  /\ UNCHANGED <<call, granted, queue, attached, presses, reply, pad, other>>

-----------------------------------------------------------------------------
(* Release.                                                                  *)

\* Nothing is attached: nothing to do.
NothingToRelease(t) ==
  /\ step[t] = "release" /\ call[t] = "none" /\ ~attached
  /\ Advance(t)
  /\ UNCHANGED <<call, granted, queue, attached, pad, other>>

\* First let go of every button, ...
ReleaseButtons(t) ==
  /\ step[t] = "release" /\ call[t] = "none" /\ attached
  /\ Calls(t, "relSet", dev)
  /\ held' = "nothing"
  /\ UNCHANGED <<step, attached, presses, reply, buf, dev, other>>

\* ... then detach the device, ...
ReleaseDev(t) ==
  /\ Answered(t, "relSet")
  /\ Calls(t, "relDev", TRUE)
  /\ dev' = FALSE /\ held' = "nothing"
  /\ UNCHANGED <<step, attached, presses, reply, buf, other>>

\* ... then the work buffer, ...
ReleaseBuf(t) ==
  /\ Answered(t, "relDev")
  /\ Calls(t, "relBuf", TRUE)
  /\ buf' = FALSE /\ dev' = FALSE /\ held' = "nothing"
  /\ UNCHANGED <<step, attached, presses, reply, other>>

\* ... and only then say so.
Released(t) ==
  /\ Answered(t, "relBuf")
  /\ attached' = FALSE
  /\ Returns(t) /\ Advance(t)
  /\ UNCHANGED <<pad, other>>

-----------------------------------------------------------------------------
(* The server thread: one client after another.                              *)

ServiceGoes(from, to) ==
  /\ step["service"] = from
  /\ step' = [step EXCEPT !["service"] = to]
  /\ UNCHANGED <<call, granted, queue, attached, presses, pad, app>>

Connect == ServiceGoes("noClient", "idle") /\ UNCHANGED <<reply, finger, keyboard>>

\* Mutant of Disconnect: ServeConnection returns without releasing the pad.
DisconnectKeepsPad ==
  ServiceGoes("idle", "noClient") /\ UNCHANGED <<reply, finger, keyboard>>

Disconnect == ServiceGoes("idle", "release") /\ UNCHANGED <<reply, finger, keyboard>>

Input == ServiceGoes("idle", "open") /\ reply' = "none" /\ UNCHANGED <<finger, keyboard>>

\* Touch: a row of autopilot states, each of which may be refused.
Touch == ServiceGoes("idle", "touching") /\ UNCHANGED <<reply, finger, keyboard>>

TouchMoves ==
  ServiceGoes("touching", "touching") /\ finger' = TRUE /\ UNCHANGED <<reply, keyboard>>

TouchFails ==
  /\ HidMayFail
  /\ ServiceGoes("touching", "idle") /\ UNCHANGED <<reply, finger, keyboard>>

TouchEnds ==
  /\ finger
  /\ ServiceGoes("touching", "idle") /\ finger' = FALSE /\ UNCHANGED <<reply, keyboard>>

\* TypeText: a key down, a key up, for every character that has a key.
TypeText == ServiceGoes("idle", "typing") /\ UNCHANGED <<reply, finger, keyboard>>

KeyDown ==
  ServiceGoes("typing", "typing") /\ keyboard' = "down" /\ UNCHANGED <<reply, finger>>

KeyUp ==
  /\ keyboard = "down"
  /\ ServiceGoes("typing", "typing") /\ keyboard' = "clear" /\ UNCHANGED <<reply, finger>>

KeyFails ==
  /\ HidMayFail
  /\ ServiceGoes("typing", "idle") /\ UNCHANGED <<reply, finger, keyboard>>

TypingEnds ==
  ServiceGoes("typing", "idle") /\ keyboard' = "off" /\ UNCHANGED <<reply, finger>>

-----------------------------------------------------------------------------
(* The worker's sleeps.                                                      *)

\* The first sleep, or the one between two boot presses, is over.
NextPress ==
  /\ step["worker"] = "gap"
  /\ step' = [step EXCEPT !["worker"] = "open"]
  /\ UNCHANGED <<call, granted, queue, attached, presses, reply, pad, other>>

\* Time for a nudge, unless an application is running.
Nudge ==
  /\ step["worker"] = "nap" /\ ~app
  /\ step' = [step EXCEPT !["worker"] = "open"]
  /\ UNCHANGED <<call, granted, queue, attached, presses, reply, pad, other>>

\* Somebody starts or leaves a game.
AppChanges ==
  /\ app' = ~app
  /\ UNCHANGED <<threads, pad, finger, keyboard>>

-----------------------------------------------------------------------------
PadStep(t) ==
  \/ Reuse(t) \/ AttachBuf(t) \/ AttachDev(t) \/ Attached(t) \/ GiveUp(t)
  \/ Logged(t) \/ WasSet(t) \/ HoldOver(t)
  \/ NothingToRelease(t) \/ ReleaseButtons(t) \/ ReleaseDev(t) \/ ReleaseBuf(t)
  \/ Released(t)

ServiceStep ==
  \/ Connect \/ Disconnect \/ Input
  \/ Touch \/ TouchMoves \/ TouchFails \/ TouchEnds
  \/ TypeText \/ KeyDown \/ KeyUp \/ KeyFails \/ TypingEnds

Next ==
  \/ \E t \in Thread : PadStep(t)
  \/ ServiceStep
  \/ NextPress \/ Nudge \/ AppChanges

Spec == Init /\ [][Next]_vars

\* Calls into hid return and sleeps end; clients and players do as they like.
FairSpec ==
  /\ Spec
  /\ \A t \in Thread : WF_vars(PadStep(t))
  /\ WF_vars(NextPress)

-----------------------------------------------------------------------------
(* Properties.                                                               *)

\* Once neither thread is inside vpad, the flag both read without a lock and the
\* two things attached at hid agree: nothing leaks and nothing is used detached.
FlagIsTrue ==
  (\A t \in Thread : call[t] = "none") => attached = dev /\ dev = buf

\* hid holds a button down only while a thread is pressing: "no phantom buttons
\* are left held" (input.cpp:56), whoever detached or re-attached the pad meanwhile.
Pressing(t) == step[t] \in {"press", "hold", "unpress"}
NoPhantomButtons == held # "nothing" => \E t \in Thread : Pressing(t)

\* With no client and the boot presses over, the physical controller has the
\* console: the pad of a client that left is never re-attached for good.
PhysicalInControl ==
  step["service"] = "noClient" /\ step["worker"] \in {"nap", "done"} => ~dev /\ ~buf

\* The same as liveness (protocol.hpp:290-291): after a client leaves, and
\* whatever the worker is doing with the pad, it is detached at some later time.
PhysicalRegains == step["service"] = "noClient" ~> ~dev

-----------------------------------------------------------------------------
(***************************************************************************)
(* Why: an inductive invariant.  hid answers in order and its answers are  *)
(* all a thread goes by, so what is attached follows from the calls the    *)
(* two threads are in and from which of them is answered first.            *)
(***************************************************************************)
Other(t) == IF t = "service" THEN "worker" ELSE "service"

Waits(t) == call[t] \in PadCalls
IsFirst(t) == queue = <<t>> \/ queue = <<t, Other(t)>>

\* hid owes an answer to exactly the threads that wait for one.
InOrder ==
  \/ queue = <<>> /\ \A t \in Thread : ~Waits(t)
  \/ \E t \in Thread : queue = <<t>> /\ Waits(t) /\ ~Waits(Other(t))
  \/ \E t \in Thread : queue = <<t, Other(t)>> /\ Waits(t) /\ Waits(Other(t))

GotBuf(t) == call[t] = "attachBuf" /\ granted[t]
GotDev(t) == call[t] = "attachDev" /\ granted[t]

\* The work buffer t attached is gone again: the other thread, answered after t,
\* has released it.
Undone(t) == IsFirst(t) /\ call[Other(t)] \in {"undoBuf", "relBuf"}

\* With the flag up, what is attached is what no release has got to yet.
WhileAttached == attached =>
  /\ dev <=> \A t \in Thread : call[t] \notin {"relDev", "relBuf"}
  /\ buf <=> \A t \in Thread : call[t] # "relBuf"
  /\ \A t \in Thread : call[t] \notin {"attachDev", "undoBuf"} /\ ~GotBuf(t)

\* With the flag down, it is what some Ensure has been granted and no release has
\* taken away since; a release still under way was there before that Ensure.
WhileDetached == ~attached =>
  /\ dev <=> \E t \in Thread : GotDev(t) /\ call[Other(t)] # "relBuf"
  /\ buf => \E t \in Thread : (GotBuf(t) \/ call[t] = "attachDev") /\ ~Undone(t)
  /\ \A t \in Thread :
       /\ (GotBuf(t) \/ GotDev(t)) /\ ~Undone(t) => buf
       /\ GotBuf(t) => ~GotBuf(Other(t)) /\ ~GotDev(Other(t))
       /\ GotBuf(t) /\ call[Other(t)] = "attachDev" => IsFirst(Other(t))
       /\ GotDev(t) => call[Other(t)] \notin {"attachDev", "undoBuf", "relSet"}
       /\ GotDev(t) /\ call[Other(t)] = "relDev" => IsFirst(Other(t))
       /\ GotDev(t) /\ call[Other(t)] = "relBuf" => IsFirst(t)
       /\ call[t] = "relSet" => IsFirst(t)

\* Where in its own code a thread can be inside a call.
InStep ==
  \A t \in Thread :
    /\ step[t] \notin {"open", "press", "unpress", "release"} => call[t] = "none"
    /\ step[t] = "release" => call[t] \in {"none", "relSet", "relDev", "relBuf"}
    /\ step[t] # "release" => call[t] \notin {"relSet", "relDev", "relBuf"}
    /\ step[t] = "open" => call[t] # "set"

\* A button is held by a thread that still has to let go of it and will be able to.
Holding(t) ==
  \/ step[t] = "press" /\ call[t] = "set"
  \/ step[t] = "hold"
  \/ step[t] = "unpress" /\ call[t] \in {"none", "logging"}
HeldInv == held # "nothing" =>
  /\ dev
  /\ \E t \in Thread : Holding(t)
  /\ attached \/ \E t \in Thread :
       GotDev(t) /\ IsFirst(t) /\ step[Other(t)] = "press" /\ call[Other(t)] = "set"

\* Only a thread that comes back to release the pad leaves it attached.
SomebodyReleases ==
  attached => step["service"] # "noClient" \/ step["worker"] \notin {"nap", "done"}

PadInv == InOrder /\ WhileAttached /\ WhileDetached /\ InStep /\ HeldInv /\ SomebodyReleases
=============================================================================
