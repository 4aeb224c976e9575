------------------------------ MODULE Debugger ------------------------------
(***************************************************************************)
(* The live debugger, handlers/debug.cpp: one debug session, the target it *)
(* stops, the events it has to read and the hardware breakpoint registers. *)
(*                                                                         *)
(* The kernel is external and modelled from how the code uses it:          *)
(*   - svcDebugActiveProcess and svcBreakDebugProcess stop the target and  *)
(*     queue events; so does every fault, and nothing more accrues until   *)
(*     the target is continued;                                            *)
(*   - closing the handle resumes the target;                              *)
(*   - svcContinueDebugEvent is certain to resume only a target whose      *)
(*     events have been read: the code drains before it wherever the       *)
(*     target must run, and never looks at the result.                     *)
(* The session is global: it belongs to no connection and outlives them.   *)
(***************************************************************************)
EXTENDS Processes, Sequences

CONSTANTS BpSlots,    \* kMaxBreakpointSlots
          WpSlots,    \* kMaxWatchpointSlots
          MaxUnread,  \* bound on the queue of unread debug events
          Watches,    \* the <<address, size>> pairs a client asks to watch
          Ctls        \* the control words a client composes itself

ASSUME SlotAssumption ==
    /\ BpSlots \in 1..16 /\ WpSlots \in 1..16
    /\ MaxUnread \in Nat \ {0}
    /\ Watches \subseteq Nat \X {1, 2, 4, 8}
    /\ Ctls \subseteq [access : SUBSET {"load", "store", "execute"}, bytes : SUBSET (0..7)]

VARIABLES g_debug,  \* the process the debug handle is open on; NoPid = INVALID_HANDLE
          g_pid,    \* the process id remembered beside the handle
          frozen,   \* processes the kernel has stopped for a debugger
          unread,   \* debug events queued and not read
          slots,    \* debug registers: what each is armed with
          reply     \* the last answer: its code, the process it is about, and
                    \* what the user is told of it: by the reply itself or by
                    \* the tool of tools/debug.py and tools/core.py around it

sessionVars == <<g_debug, g_pid, frozen, unread>>
dbgVars == <<sessionVars, slots, reply>>

kWatchpointBase == 16
Registers == (0..BpSlots - 1) \cup (kWatchpointBase..kWatchpointBase + WpSlots - 1)

\* What a debug register holds: the doubleword, the control word - as the kinds of
\* access and the bytes it selects - and, a history, the accesses to the bytes
\* that the client asked to be told of. With a word of the client's own the
\* agent has encoded nothing, and nothing is recorded as asked.
Armed(base, ctl, asked) == [base |-> base, ctl |-> ctl, asked |-> asked]
Disabled == [access |-> {}, bytes |-> {}]
Free == Armed(0, Disabled, {})

Answer(code, pid, says) == reply' = [code |-> code, pid |-> pid, says |-> says]

DbgInit ==
    /\ g_debug = NoPid /\ g_pid = NoPid
    /\ frozen = {} /\ unread = 0
    /\ slots = [r \in Registers |-> Free]
    /\ reply = [code |-> "ok", pid |-> NoPid, says |-> ""]

Attached == g_debug # NoPid

\* The "if (!Attached(reply)) return false" every command but attach, detach
\* and modules starts with.
NotAttached ==
    /\ ~Attached
    /\ Answer("not_attached", NoPid, "")
    /\ UNCHANGED <<sessionVars, slots>>

(***************************************************************************)
(* The session                                                             *)
(***************************************************************************)
\* Mutant: the old handle is forgotten, not closed.
Leaked == frozen

\* svcCloseHandle resumes what the handle had stopped; its events are gone.
Resumed == frozen \ {g_debug}

Queued == IF unread < MaxUnread THEN unread + 1 ELSE unread

\* Mutant: the target is continued with its events unread.
SkipEvents == UNCHANGED unread

\* Reading every queued event.
DrainEvents == unread' = 0

\* svcContinueDebugEvent after "left" events are still unread.
ContinueAll(left) ==
    \/ frozen' = Resumed
    \/ left > 0 /\ frozen' = frozen

\* debug.attach: "p" is the pid of the request, NoPid for the foreground
\* application. An older session is closed before anything can fail.
DebugAttach(p, pause) ==
    LET target == IF p = NoPid THEN ForegroundPid ELSE p IN
    /\ \/ /\ target # NoPid
          /\ target \in alive
          /\ g_debug' = target /\ g_pid' = target
          /\ frozen' = IF pause THEN Resumed \cup {target} ELSE Resumed \ {target}
          /\ unread' = IF pause THEN 1 ELSE 0
          /\ Answer("ok", target, IF pause THEN "paused" ELSE "running")
       \/ /\ g_debug' = NoPid /\ g_pid' = g_pid
          /\ frozen' = Resumed /\ unread' = 0
          /\ Answer(IF target = NoPid THEN "no_app" ELSE "attach_failed",
                    NoPid, "")
    /\ UNCHANGED slots

DebugDetach ==
    /\ g_debug' = NoPid
    /\ g_pid' = IF Attached THEN NoPid ELSE g_pid
    /\ frozen' = Resumed /\ unread' = 0
    /\ Answer("ok", NoPid, "detached, resumed")
    /\ UNCHANGED slots

\* The reply holds the events alone; that resume "keeps it running" is what the
\* tool tells its user. An event that comes between the drain and the continue
\* stops the target as one that comes just after both does.
DebugPollEvents(resume) ==
    \/ NotAttached
    \/ /\ Attached
       /\ DrainEvents
       /\ IF resume THEN ContinueAll(unread') ELSE UNCHANGED frozen
       /\ Answer("ok", g_debug, IF resume THEN "kept running" ELSE "events")
       /\ UNCHANGED <<g_debug, g_pid, slots>>

\* Events are not read here; the tool answers "Target resumed (still attached)".
DebugContinue ==
    \/ NotAttached
    \/ /\ Attached
       /\ ContinueAll(unread)
       /\ Answer("ok", g_debug, "resumed")
       /\ UNCHANGED <<g_debug, g_pid, unread, slots>>

\* A target that has stopped for good cannot be broken into.
DebugBreak ==
    \/ NotAttached
    \/ /\ Attached
       /\ \/ /\ g_debug \in alive
             /\ frozen' = frozen \cup {g_debug}
             /\ unread' = Queued
             /\ Answer("ok", g_debug, "paused")
          \/ /\ Answer("break_failed", g_debug, "")
             /\ UNCHANGED <<frozen, unread>>
       /\ UNCHANGED <<g_debug, g_pid, slots>>

(***************************************************************************)
(* Reading and writing the target. Every call goes through the handle, so  *)
(* a target that is gone fails the call - except that a walk over memory   *)
(* regions then ends at once and is answered ok with nothing in it.        *)
(***************************************************************************)
ThroughHandle(whenGone) ==
    \/ NotAttached
    \/ /\ Attached
       /\ \/ g_debug \in alive /\ Answer("ok", g_debug, "data")
          \/ g_debug \in alive /\ Answer("failed", g_debug, "")
          \/ g_debug \notin alive /\ Answer(whenGone, g_debug, "")
       /\ UNCHANGED <<sessionVars, slots>>

DebugReadMem == ThroughHandle("failed")
DebugMemMap == ThroughHandle("ok")
DebugThreads == ThroughHandle("failed")
DebugRegisters == ThroughHandle("failed")
DebugSearch == ThroughHandle("ok")
DebugBacktrace == ThroughHandle("failed")

\* The two that alter the target: "failed" also stands for an empty payload, no
\* known register name, and the thread not being stopped at an event.
DebugWriteMem == ThroughHandle("failed")
DebugWriteRegisters == ThroughHandle("failed")

\* debug.modules needs no session: it asks ldr:dmnt about a process given by
\* id, by default the attached one.
DebugModules(p) ==
    LET pid == IF p # NoPid THEN p ELSE IF Attached THEN g_pid ELSE ForegroundPid IN
    /\ \/ pid \in alive /\ Answer("ok", pid, "modules")
       \/ Answer(IF pid = NoPid THEN "no_pid" ELSE "ldr_failed", pid, "")
    /\ UNCHANGED <<sessionVars, slots>>

\* Mutant: frame pointers need not go up.
FramesLoop(fp, next, maxFrames) ==
    LET at[i \in Nat] ==
            IF i = 0 THEN fp
            ELSE IF at[i - 1] \in DOMAIN next THEN next[at[i - 1]].fp ELSE 0
        follows(i) == at[i] \in DOMAIN next /\ next[at[i]].ret # 0
        walked == {n \in 0..maxFrames - 1 : \A i \in 0..n - 1 : follows(i)}
    IN [i \in 1..(CHOOSE n \in walked : \A m \in walked : m <= n) |-> at[i - 1]]

\* The frame-pointer walk of debug.backtrace: from fp, "next" gives the pair
\* at each address that can be read (a zero return address ends a chain).
\* What is returned is the frame pointers of frames 1, 2, ...
FramesOf(fp, next, maxFrames) ==
    LET at[i \in Nat] ==
            IF i = 0 THEN fp
            ELSE IF at[i - 1] \in DOMAIN next THEN next[at[i - 1]].fp ELSE 0
        follows(i) ==
            /\ at[i] # 0 /\ at[i] % 8 = 0
            /\ at[i] > (IF i = 0 THEN 0 ELSE at[i - 1])
            /\ at[i] \in DOMAIN next /\ next[at[i]].ret # 0
        walked == {n \in 0..maxFrames - 1 : \A i \in 0..n - 1 : follows(i)}
    IN [i \in 1..(CHOOSE n \in walked : \A m \in walked : m <= n) |-> at[i - 1]]

(***************************************************************************)
(* Hardware breakpoints and watchpoints                                    *)
(***************************************************************************)
\* svcSetHardwareBreakPoint: the kernel programs the register or refuses.
SetRegister(r, armed, says, refused) ==
    \/ /\ r \in Registers
       /\ slots' = [slots EXCEPT ![r] = armed]
       /\ Answer("ok", g_debug, says)
    \/ refused /\ UNCHANGED slots

HwBpFailed == Answer("hw_bp_failed", g_debug, "")
BadArg == Answer("bad_arg", NoPid, "") /\ UNCHANGED slots

\* Mutant: the select field of four bits that breakpoints have.
WatchpointNarrow(lsc, bas) == [access |-> lsc, bytes |-> bas \cap 0..3]

\* DBGWCR: the byte-address-select field is eight bits wide.
WatchpointCtl(lsc, bas) == [access |-> lsc, bytes |-> bas \cap 0..7]

\* The access types of the modes; any other mode is refused.
Modes == {"read", "write", "rw", "other"}
Lsc(mode) == CASE mode = "read" -> {"load"}
               [] mode = "write" -> {"store"}
               [] mode = "rw" -> {"load", "store"}

\* "ctls" is the request's own control word, or empty: then the agent encodes one.
DebugSetWatchpoint(addr, size, slot, mode, ctls) ==
    LET base == addr - (addr % 8)
        offset == addr - base
        bas == offset..offset + size - 1
    IN \/ NotAttached
       \/ /\ Attached
          /\ IF addr = 0 \/ slot \notin 0..WpSlots - 1 \/ offset + size > 8 \/ mode = "other"
             THEN BadArg
             ELSE \E armed \in
                        IF ctls = {}
                        THEN {Armed(base, WatchpointCtl(Lsc(mode), bas),
                                    Lsc(mode) \X (addr..addr + size - 1))}
                        ELSE {Armed(base, ctl, {}) : ctl \in ctls} :
                     SetRegister(kWatchpointBase + slot, armed, "armed", HwBpFailed)
          /\ UNCHANGED sessionVars

kBreakpointCtl == [access |-> {"execute"}, bytes |-> 0..3]

DebugSetBreakpoint(addr, slot) ==
    \/ NotAttached
    \/ /\ Attached
       /\ IF addr = 0 \/ addr % 4 # 0 \/ slot \notin 0..BpSlots - 1
          THEN BadArg
          ELSE SetRegister(slot, Armed(addr, kBreakpointCtl, {"execute"} \X (addr..addr + 3)),
                           "armed", HwBpFailed)
       /\ UNCHANGED sessionVars

DebugClearBreakpoint(slot, watchpoint) ==
    \/ NotAttached
    \/ /\ Attached
       /\ IF slot \notin 0..(IF watchpoint THEN WpSlots ELSE BpSlots) - 1
          THEN BadArg
          ELSE SetRegister((IF watchpoint THEN kWatchpointBase ELSE 0) + slot, Free,
                           "cleared", HwBpFailed)
       /\ UNCHANGED sessionVars

\* Any register with a control word and a value of the client's; the answer is
\* "rc", and no error, when the kernel refuses too.
DebugSetHwBpRaw(which, ctl, value) ==
    \/ NotAttached
    \/ /\ Attached
       /\ SetRegister(which, Armed(value, ctl, {}), "rc", Answer("ok", g_debug, "rc"))
       /\ UNCHANGED sessionVars

(***************************************************************************)
(* The target                                                              *)
(***************************************************************************)
\* Mutant: the kernel objects of a process that ended are kept.
ExitsFrozen(p, terminated) ==
    /\ terminated \/ p \notin frozen
    /\ Exits(p)
    /\ UNCHANGED <<g_debug, g_pid, frozen, unread, slots, reply>>

\* A process ends by itself or is terminated. A stopped one does nothing by
\* itself. Its debugger gets an event; the handle stays open on nothing.
TargetExits(p, terminated) ==
    /\ terminated \/ p \notin frozen
    /\ Exits(p)
    /\ frozen' = frozen \ {p}
    /\ unread' = IF p = g_debug THEN Queued ELSE unread
    /\ UNCHANGED <<g_debug, g_pid, slots, reply>>

\* A fault, a break or a thread event in the target: it stops until continued.
TargetTraps ==
    /\ Attached /\ g_debug \in alive \ frozen
    /\ frozen' = frozen \cup {g_debug}
    /\ unread' = Queued
    /\ UNCHANGED <<g_debug, g_pid, slots, reply, procVars>>

(***************************************************************************)
(* The specification                                                       *)
(***************************************************************************)
Commands ==
    \/ \E p \in {NoPid} \cup Pids, pause \in BOOLEAN : DebugAttach(p, pause)
    \/ \E p \in {NoPid} \cup Pids : DebugModules(p)
    \/ \E resume \in BOOLEAN : DebugPollEvents(resume)
    \/ DebugContinue \/ DebugBreak \/ DebugDetach
    \/ DebugReadMem \/ DebugWriteMem \/ DebugMemMap \/ DebugThreads
    \/ DebugRegisters \/ DebugSearch \/ DebugWriteRegisters \/ DebugBacktrace
    \/ \E w \in Watches, slot \in 0..WpSlots, mode \in Modes,
          ctls \in {{}} \cup {{ctl} : ctl \in Ctls} :
          DebugSetWatchpoint(w[1], w[2], slot, mode, ctls)
    \/ \E w \in Watches, slot \in 0..BpSlots : DebugSetBreakpoint(w[1], slot)
    \/ \E slot \in 0..BpSlots, w \in BOOLEAN : DebugClearBreakpoint(slot, w)
    \/ \E which \in 0..kWatchpointBase + WpSlots, ctl \in Ctls : DebugSetHwBpRaw(which, ctl, 0)

DbgStarts == Launch /\ UNCHANGED dbgVars

\* Clients come and go without a step here: a connection that ends only
\* releases the virtual controller, and the session stays.
DbgNext ==
    \/ Commands /\ UNCHANGED procVars
    \/ DbgStarts
    \/ \E p \in Pids, terminated \in BOOLEAN : TargetExits(p, terminated)
    \/ TargetTraps

DbgSpec == ProcInit /\ DbgInit /\ [][DbgNext]_<<procVars, dbgVars>>

(***************************************************************************)
(* Properties                                                              *)
(***************************************************************************)
DbgTypeOK ==
    /\ ProcTypeOK
    /\ {g_debug, g_pid} \subseteq 0..born
    /\ frozen \subseteq alive
    /\ unread \in 0..MaxUnread
    /\ DOMAIN slots = Registers

\* The three parts of a session agree. A process the agent has stopped is the
\* one its handle is open on, so the next continue, detach or attach of any
\* client lets it go; and the process id beside the handle is that process's, so
\* that a module base and the memory read behind it belong together. No order
\* of attaches, failed attaches, exits and detaches leaves a frozen process that
\* nothing can resume, or an id of an older target.
OnlyTargetFrozen == frozen \subseteq {g_debug}
ModulesAgree == Attached => g_pid = g_debug
SessionAgrees == OnlyTargetFrozen /\ ModulesAgree

\* A user who is told that the target runs - by a non-pausing attach ("target
\* running while attached"), a poll that resumes ("keeps it running") or a detach
\* ("target resumed") - is told so while nothing on the console is left stopped,
\* neither the target nor that of an earlier session, whatever was queued and
\* whatever failed before.
SaysRunningIsRunning ==
    [][reply'.says \in {"running", "kept running", "detached, resumed"} /\ Commands
          => frozen' = {}]_<<procVars, dbgVars>>

\* debug.continue has resumed the target when its user is told so.
ResumedIsRunning ==
    [][reply'.says = "resumed" /\ DebugContinue => frozen' = {}]_<<procVars, dbgVars>>

\* A register whose control word the agent encoded stands for exactly the accesses
\* to exactly the bytes asked for, whatever the other registers hold and whichever
\* calls the kernel refused. (A client that sends a word of its own, with
\* set_watchpoint's "ctl" or debug.set_hwbp_raw, gets what that word selects.)
WatchesWhatWasAsked ==
    \A r \in Registers : slots[r].asked # {} =>
        slots[r].ctl.access \X {slots[r].base + b : b \in slots[r].ctl.bytes} = slots[r].asked

\* No chain of frame pointers, looping or broken, keeps a backtrace going or
\* lists a frame twice, and a proper chain is listed whole.
FramesTrue ==
    \A fp \in {0, 8, 12, 16}, maxFrames \in 1..4 :
    \A next \in [{8, 12, 16, 24} -> [fp : {0, 8, 16, 24}, ret : {0, 1}]] :
        LET walk == FramesOf(fp, next, maxFrames) IN
        /\ Len(walk) < maxFrames
        /\ \A i, j \in DOMAIN walk : i < j => walk[i] < walk[j]
        /\ (/\ fp = 8 /\ next[8] = [fp |-> 16, ret |-> 1]
            /\ next[16] = [fp |-> 0, ret |-> 1] /\ maxFrames = 4) => walk = <<8, 16>>
=============================================================================
