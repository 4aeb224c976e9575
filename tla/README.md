# TLA+ specifications of switchMCP

switchMCP lets an MCP host operate a Nintendo Switch. It has two programs of its
own: the **MCP server** on a PC (Python, `src/server/src/switch_mcp/`) and the
**agent** on the console (C++, `src/agent/source/`), a system module started at
boot. A tool of the server calls the agent over one TCP connection; the agent
serves one client at a time and drives the console through system services.

This directory holds specifications of the parts of the two programs whose
correctness depends on order: on retries against restarts, on two threads that
share a device, on sleep against the accept loop, on power requests against files
being rewritten, on a debug session that outlives its clients, on a search over a
game that runs on, on copies cut off half-way. Contents:

1. [Inventory](#inventory): the components, their state, what makes them correct
2. [Plan](#plan): the modules, in the order in which they are written
3. [Modules](#modules): how state and actions correspond to the code
4. [Runs](#runs): what TLC checks, with which bounds
5. [Fairness](#fairness)
6. [Theorems](#theorems): what is proved, from what, and how
7. [Findings](#findings): where the code and its documents disagree
8. [What is left out](#what-is-left-out)

To check and to prove:

    tlc -config SessionCore.cfg MCSession
    tlapm SessionProofs.tla

## Inventory

### On the PC

| component | state | operations | what makes it correct |
|---|---|---|---|
| **agent client** (`clients/agentd.py`, `clients/base.py`) | lock, reader and writer, `_id`, `auth_method` | `call`, `_roundtrip`, `_connect`, the two handshakes, `_discard_connection`, `read_file`, `write_file` | a command that must not run twice is never re-sent after the agent may have got it; a reply is that of its call; what the caller is told is true; the lock is always released |
| **server-side guards** (`guards.py`) | outstanding confirmation tokens with their age, allowed directories | issue and redeem a token, resolve a path, refuse unsafe binds | one token authorises one effect, once, within its lifetime; all in one synchronous function |
| **MCP tools** (`tools/*.py`, `app.py`, `server.py`, `screen.py`) | the last screen | one call of the client per tool; loops that wait for the screen or replay macros | tools are one call each, plus formatting |
| **botbase client** (`clients/botbase.py`, `clients/factory.py`) | a TCP connection | a line protocol for consoles without the agent | one answer per command |
| **discovery** (`discovery.py`) | none | a bounded scan of the local network | terminates |

### On the console

| component | state | operations | what makes it correct |
|---|---|---|---|
| **server** (`server.cpp`) | listener, the connection served, its authentication | accept, authenticate, read, dispatch, answer, hang up, rebuild the listener | no handler without authentication; the only slot is always freed; the port comes back after sleep |
| **dispatch** (`server.cpp:35-144`, `298-395`) | the command table, tier and opt-ins | check the tier, dry run, journal, call the handler | a refused or dry-run command changes nothing |
| **virtual controller** (`handlers/input.cpp`) | `g_attached`, work buffer and device at hid, touch and keyboard autopilots | `Ensure`, `SetButtons`, `Release`; input, touch, type | no button stays down, the physical controller gets the console back |
| **lockscreen worker** (`lockscreen.cpp`) | a thread, presses made | boot presses, keep-awake nudges | shares the pad without breaking it |
| **power state** (`power_state.cpp`) | psc module, `g_asleep`, `g_woke` | register, acknowledge transitions, tell the accept loop | the console never waits for an answer that does not come |
| **power handlers** (`handlers/power.cpp`) | `started`, `g_pending_action`, a thread | reboot, shutdown, restart; device registers | the first acknowledged request is carried out |
| **boot watchdog, journal, preflight** (`handlers/guards.cpp`) | `g_boot_count` and its file; the journal | count boots, reset on authentication; append, rotate, read | the count is the number of boots in a row without a client |
| **save mounts** (`handlers/savedata.cpp`) | `g_save_mounted`, the mount itself | mount, re-mount, unmount, resolve | what is mounted can be addressed, and is what is listed |
| **file handlers** (`handlers/fs.cpp`, `path.cpp`) | files | chunked read and write, copy, back up, restore, find, grep | a restore happens wholly or not at all; what a search or a transfer loses is known; paths stay below their device |
| **debugger** (`handlers/debug.cpp`) | `g_debug`, `g_pid`, the target, breakpoint slots | attach, break, continue, watch, detach | one session; what is stopped can be let go; who is told that the target runs is told the truth |
| **memory search** (`handlers/memsearch.cpp`, `cheat.cpp`) | candidates, the cheat process | begin, next, results, reset | nothing is invented, nothing missed without a word; the table stays small |
| **events** (`handlers/events.cpp`) | none between calls | wait for an event, record input | a wait reports only what happened, misses only what was undone at once, and ends; a recording replays as it was made |
| **configuration** (`config.cpp`) | the settings and `config.ini` | parse, clamp, generate a token, write a default file | what the user wrote stays; an unreadable tier is never more permissive |
| **system, hardware, titles, album, screen handlers** | none | one system call each | report what the service answers |
| **start, log, JSON, USB transport** | the log file | started once; the USB transport is reached by no code | |

### How they interact

* A tool takes the client's lock and holds it for the whole call. The client opens a
  connection if it has none, answers the agent's challenge (or falls back to the
  legacy handshake), writes one frame and reads the next one that comes.
* In the agent **one thread** accepts, authenticates and runs handlers. Beside it run
  the lockscreen worker, the acknowledgement thread of power state and, for half a
  second, the power thread. All have the same priority on the same core: a thread
  runs until it blocks. They share `vpad`'s globals, the flags of power state and
  the flags of the power handlers, none of them under a lock.
* Authentication resets the watchdog; a power request ends the process; a boot starts
  the watchdog, power state, the worker and the accept loop, in that order.
* Sleep takes the network away, and with it the listener and every connection.
* Every command passes the dispatcher, whose tier and opt-ins are those of the last
  boot. The debug session, the candidates of a search and the save mount belong to the
  process, not to a connection: they outlive the client that made them, and the game
  they were made from.

### Hard behaviours

Calls retried against an agent that may have run them, or may be another
incarnation; links that die silently; peers that close in an orderly way, which the
other side does not notice; callers that cancel; a socket's buffer that outlives
`close()`; two threads attaching one device; a console that sleeps between any two
steps; power that goes while a file is half-written; a target that traps, ends or is
replaced under its debugger; copies that fail at any file; limits that end a scan. `PROJECT.json` lists each, at
its line, as a hazard, with the properties that would catch it.

## Plan

Written first because everything else depends on it, then outward:

| | module | status |
|---|---|---|
| 1 | `Session`: client and agent over TCP; `RemoteCall`, what a call promises; `SessionRefines`, that it does | done |
| 2 | `VirtualPad`: the pad and its two threads | done |
| 3 | `SleepWake`: accept loop, power state, a console that sleeps | done |
| 4 | `Watchdog`, `PowerAction`, and `Lifecycle`, which composes them | done |
| 5 | `Processes`, `Debugger`, and `Events`, which composes them with `wait_event` | done |
| 6 | `MemSearch`: the narrowing search, over `Processes` | done |
| 7 | `Config`, `Dispatch`, `FileOps`, and `Storage`, which composes them with the save mount and the journal | done |
| 8 | `Macro`: recording and replay | done |

Every safety property the runs check is a theorem. Still worth proving: what of
`RemoteCall` survives when callers cancel, and the type invariant of `Storage`, of
which `StorageProofs` proves the parts its theorems need.

Two components were considered and are not modelled. `guards.py` redeems a token in one
synchronous function, called before a tool's first `await`: no two calls interleave in
it. `botbase.py` sends one line per command and retries nothing.

## Modules

### `Session`: one client, one agent, TCP between them

`Calls` are invocations of `AgentClient.call`, each made once; a call is characterised
by the sets it belongs to: `Idempotent` and `FireAndForget` (`agentd.py:61-81`),
`Large` (its payload does not fit the socket at once, so that `drain()` blocks),
`Oversized` (its JSON may exceed `MAX_JSON`), `Permitted` (the agent's tier and opt-ins
let it through).

| variables | code |
|---|---|
| `pc`, `cur`, `attempt` | where the holder of `self._lock` is, in `call`, `_connect`, `_authenticate`, `_roundtrip` |
| `conn`, `id`, `authMethod` | `self._writer`, `self._id`, `self.auth_method` |
| `outcome`, `answer` | what `call` returned or raised; whose reply it returned |
| `toAgent`, `toClient`, `closed`, `hungUp`, `lost` | frames under way and what became of each connection |
| `up`, `backlog`, `serving`, `stage`, `out` | the accept loop, `Authenticate`, `ServeConnection` |
| `goingDown` | a power action is scheduled |
| `tokenMatches` | both sides hold the same token; the card may be edited between boots |
| `applied` | history: how often the handler of each call ran |

The client's actions are the stretches between two awaits. `TransientError` is the
`except transient` clause with its four outcomes; everything that may raise goes
through it. `Discard` is `_discard_connection`. `Cancel` is a `CancelledError`, which
that clause does not catch. `DrainFails` leaves it open whether the buffered frame
still gets out, as `writer.close()` does not drop it.

The agent's actions are the frames it reads: `SendChallenge`, `AcceptPeer`,
`RefusePeer`, `Execute` (a handler, as one step, with its success or failure),
`WriteReply`, and the ways to leave a connection: `WriteFails`, `PeerGone`,
`PeerSilent` (the receive timeouts).

TCP is modelled by what either program can observe of it: frames of a connection
arrive in order; a dead link delivers a prefix of what was under way and then
nothing; an orderly close is not noticed by a writer; a reset may or may not have
been noticed when the connection is next used. `Crash` is a crash of the agent, or
the power action that a command scheduled; `Boot` starts it anew.

### `RemoteCall` and `SessionRefines`

`RemoteCall` is what callers rely on, with a holder, outcomes and run counts only: a
call is run only while its fate is open, once unless it may be repeated; "ok" is
said of a call that has run; "unreachable", "denied" and "too big" of one that has
not and never will. `SessionRefines` maps `cur` to the holder and keeps the rest.

### `VirtualPad`

`step` is where each of the two threads is in its own code, `call` the blocking call
it is in inside `Ensure`, `SetButtons` or `Release`, `queue` the calls hid has still
to answer; `attached` is `g_attached`; `buf`, `dev`, `held`, `finger`, `keyboard` are
hid's. Every blocking call (hid, sleep, a log file) is a point where the other thread
may run, and only those are. hid answers calls in order, and may refuse to attach
when the device is attached already or, with `HidMayFail`, for reasons of its own;
it does not refuse to set, detach or release a device that is there. `finger` and
`keyboard` follow the two autopilots, which nothing takes back after a refusal.

### `SleepWake`

The console's transitions, the requests psc makes and waits for, the network, the
acknowledgement thread and `Server::Run` down to the listener, the error count and
the peer being served. `NoteRequest` and `Acknowledge` are the two halves of the body
of `AckThread`: it records the request, then acknowledges it. `Accept` and `EndServe`
stand for everything `Session` says about a connection.

### `Watchdog`, `PowerAction`, `Lifecycle`

`Watchdog` is `WatchdogOnBoot` and `WatchdogOnConnect` call by call: read, truncate,
write, each of which the card may refuse, with the power going in between. `streak`
and `mishaps` are history. `PowerAction` is `SchedulePowerAction` and its thread.
`Lifecycle` composes them as the agent does: the server thread authenticates clients
and handles their requests, so that power requests are only made by a client that
has authenticated, while the power thread strikes at any time; a boot resets every
variable of the process.

### `Processes`

What pm tells the agent: the processes that exist and the one in the foreground.
`launch` and `terminate` are its operators, and programs start and end on their own.
Ids are never used twice, so that a stale id is one of a process that is gone.

### `Debugger` and `Events`

`Debugger` is `debug.cpp`. `g_debug` is the process the handle is open on (`NoPid` is
`INVALID_HANDLE`), `g_pid` the id kept beside it, `frozen` what the kernel has stopped,
`unread` the queue of debug events, `slots` the hardware registers. Every command is an
action with its guards in the order of the code; the answer of a command is a code,
the process it is about and what the user is told of that process, by the reply or by the
tool of `tools/debug.py` around it ("running", "kept running", "resumed"). The kernel is
external: attaching and breaking stop the target and queue events, closing the handle
resumes it, and continuing is certain to resume only a target whose events have been
read. So `DrainEvents` before `ContinueAll`, or its absence (`debug.continue`), matters.
A register holds a doubleword, a control word (the accesses and the bytes it selects)
and, as history, the accesses the client asked to be told of. `SetRegister` is
`svcSetHardwareBreakPoint`, which may refuse; `WatchpointCtl` is the word the agent
encodes; a client may send one of its own with `debug.set_watchpoint` (`ctl`) or
`debug.set_hwbp_raw`, and the agent then encodes nothing. `FramesOf` is the frame walk of
`debug.backtrace` as a function. Commands that only read are one step with the ways
they fail.

`Events` adds `wait_event`: `wait` is the request being served with what was noted at its
start, `Poll` one round of the 200 ms loop, with the events in the order of the code
(an unknown event is noticed by the first look only). While it waits no command is
served, but processes start, end and trap, and the player presses buttons; `happened` is
history, the kinds of what has happened during the wait. No connection appears: a client that leaves changes nothing here.

### `MemSearch`

`mem` is the memory of the game in the foreground, which it rewrites between any two
requests; `cheat` the process dmnt:cht is attached to; `g_candidates` the table, from
address to last value. `SearchBegin` computes the table of one request from the
chunks of its regions (`ChunksOf`), those that can be read, those reached within the
budget (`ScannedBefore`) and the first `kMaxCandidates` hits (`FirstOf`); the code's three
nested loops visit chunks and addresses in ascending order, so that this is what they
leave. A scan is one step although the game runs on while the chunks are read, and
nothing is lost by that: each chunk is read once, by one call, and its values go into
the table as read, so a scan of a changing game finds what a scan of one memory finds -
the memory that has in each chunk what was there when it was read; `mem` may be
any memory before and after the step. What a game that *ends* during the scan takes
away is no such memory: `gone` lets a request miss any of the ranges in `MCGones`, one of
which begins behind the first chunk. `SearchNext` filters. `truth` and `whole` are history: the table of a complete
search, and whether the first scan said it was one.

### `Config` and `Dispatch`

`Config` is `LoadConfig` in three steps (parse, truncate, write), between which the
power may go; `ini` is the file and `cfg` what the running agent took from it. Reading
the file may fail to open it or break off after any of the keys (`Readings`); what was
not read has its default. A tier that is none of the three names reads as "observe". A
file that has no token, or whose token was not read (`misread`, a history), is written
anew from the defaults. The user edits the file with the console off or while the agent
runs, with the settings it had. `Dispatch` is the table of commands, their tiers and whether they
mutate, and `Entered`, the conditions on the way to a handler.

### `FileOps` and `Storage`

`FileOps` has the algorithms: `NormalizePath` over the segments of a path, `WalkFind`
as a recursive function over the entries of a tree in the order of the walk, `FsGrep`
over lines that match, do not, or match only behind the characters it keeps, one
request of `fs.read` and `fs.write`, and the loops of `read_file` and `write_file` of the
client over those requests. Each request comes with what the card does to it (`IoOutcomes`):
how much was moved, which may fall short of what was asked, and whether the file could only
be opened anew.

`Storage` composes them with the dispatcher. `sd` is the card, `save` the committed save,
`save_dev` the device while a handler has it mounted, `task` the copy under way:
`BackupSave` or `RestoreSave` starts it, `CopyTree` copies one file with any of the
outcomes in `CopyOutcomes` (whole, cut off, skipped, not opened), `EndCopy` commits or
drops. Each mutating command ends with `JournalAppend`, as in `ServeConnection`; that
includes its rotation, which may fail. The journal's two files can be addressed by a
client like any other (`FsOnJournal`); `untouched`, a history, says that none has. `mounted` and `g_save_mounted` are the browsing
mount and its flag. `good` is history: what the last good backup holds. A title saves
when no handler holds its save, and the power goes at any step.

### `Macro`

`record_input` sampling the pad, then `send_input_sequence` of the server playing what
was recorded, in samples of 50 ms.

Definitions called *Mutant of X*, or *Mutant* in front of the definition they are of, are
plausible mistakes in it. They are reachable from no specification; putting one in
the place of the original makes the run named in `PROJECT.json` fail, which shows
that the property depends on what the code does.

## Runs

| run | bounds | shows |
|---|---|---|
| `session_core` | a one-shot and an idempotent call, 1 dead link, 1 crash, backlog 2, HMAC required, cancelling allowed; 3.4 million states | `AtMostOnce`, `UnreachableIsUntouched`, `OnlyAuthenticated`; until a caller cancels, `AnswersMatch`; `NoLateExecution` |
| `session_promise` | a large and possibly oversized write and a reboot, 1 dead link, legacy handshake allowed; 355 thousand states | `KeepsPromise` (refinement), `LockReleased`, `SlotReleased` |
| `pad_shared` | 3 boot presses (`kPresses`), both options on, hid refusing what it may; 48 thousand states | `FlagIsTrue`, `NoPhantomButtons`, `PhysicalInControl`, `PhysicalRegains` |
| `sleep_psc` | 3 sleeps, 20 failures before a rebuild (the code's number); 3 thousand states | `RegisteredAnswers`, `AsleepOnlyInSleep`, `ConsoleNeverHangs`, `Heals` |
| `lifecycle` | 5 boots, 2 reboot and 2 shutdown requests per boot; 25 thousand states | `CountIsExact`, `HealthyIfReached`, `FirstAcknowledgedWins`, `GoesDown`, `PowerSparesCount` |
| `events` | 2 processes, one register of each kind, 2 unread events, 4 ranges to watch in every mode and with a control word of the client's, 2 buttons, waits of 1 and 2 looks; 387 thousand states | `SessionAgrees`, `WatchesWhatWasAsked`, `SaysRunningIsRunning`, `WaitsMissOnlyTheUndone`, `WaitEnds`; `BacktraceTrue` |
| `memory` | a region of one chunk and a half and one of a byte, bytes 0 and 1, a cap of 2, budgets below and above the regions, a game that ends between two chunks, 2 processes, one filter after a scan; 35 thousand states | `NarrowSound`, `NarrowKeeps` |
| `storage` | a save of 2 files of 2 chunks and 2 versions, 5 operations with 3 of them before the start, a journal that rotates after 1 entry, 3 config files, 1 edit, the files of the save interchangeable (symmetry); 2.3 million states | `BackupHoldsSave`, `MountedIsReachable`, `JournalIsTail`, `ObserveChangesNothing`, `RestoreAllOrNothing`, `TokenSettles`; `SearchesMissTheUnseen`, `TransfersLoseTheUnmoved`, `PathsStayBelow` |

Why the bounds are enough. Two calls suffice for `Session`: a call can be disturbed
only by what an earlier one left behind (its connection, its frames, `authMethod`),
and two attempts of each give four connections, more than the backlog holds. One dead
link and one crash suffice for every combination of "before sending", "after sending"
and "while retrying", because the second attempt is the last. Three sleeps cover every
order of two transitions and what they leave behind for a third. In `Lifecycle` a
count that went wrong shows two boots later. In `Events` two processes give a target, a
replacement and a process beside either, and a handle holds one at a time; a wait of two
looks has one between its start and its end. In `MemSearch` the larger region ends in
a chunk that is shorter than the others, the client's own range starts inside a
mapping and leaves it, and every combination of cap, budget and region that vanishes
occurs; one filter suffices, as a second one starts from a table like that of the
first. In `Storage` two files are what it takes for a copy to be partial, two chunks
for a file to be, and two operations cover a backup and what may disturb it before a
power loss; `OtherFiles` is empty because the backup's files are plain files of the card to
every other command. The files of a save are told apart by no action, and no property
has progress in it, so the symmetry is sound. The theorems below do not depend on any of these bounds.

Four properties are facts about operators, not about steps: `BacktraceTrue`,
`SearchesMissTheUnseen`, `TransfersLoseTheUnmoved` and `PathsStayBelow` quantify over all small inputs
of `FramesOf`, `FsFind`, `FsGrep`, `ReadFile`, `WriteFile` and `NormalizePath`
and compare with a reference definition. They are evaluated in the initial states: stack
chains over four frames, trees of three entries, files of up to two chunks with every way
for each request to fall short, paths of four segments. What the operators do for every input is proved (`BacktraceIsChain`,
`FindIsComplete`, `GrepIsComplete`, `UploadLosesTheUnwritten`, `DownloadIsABeginning`,
`PathsAreNormal`).

The runs that end in a counterexample are listed under [Findings](#findings).

Deadlock is not checked: every run ends when the calls, sleeps or boots it allows are
used up. That nothing stops *before* that is what the liveness properties say.

## Fairness

* `Session`: weak fairness of the client's progress as a whole and of the agent's as a
  whole. Every wait of the client is inside `asyncio.wait_for`, so some action of the
  lock's holder happens; the server thread runs while it has something to do, and
  receive timeouts and keepalive make it notice a peer that is gone. Handlers are
  assumed to return. Nothing is assumed of callers, links, crashes, or of the
  timeouts for peers that are merely silent.
* `VirtualPad`: calls into hid return and the worker's sleeps end. Clients and players
  do as they like; a client that stays is no excuse for `PhysicalRegains`, which starts
  when it leaves.
* `SleepWake`: both threads run while the console does, the network comes back at some
  time after a wake-up, and a wake-up once begun completes. Nothing is assumed
  of `accept()` returning a connection.
* `Lifecycle`: the power thread wakes up from its half second.
* `Events`: `svcSleepThread` returns, so that the service thread looks again. The debugger,
  the memory search and the storage have no fairness: what they promise is safety.

## Theorems

TLAPS proves the following for any values of the constants that satisfy the
assumptions next to them.

**`SessionProofs`** (any sets of calls, any number of dead links and crashes, any
backlog):

* `TypeCorrect`.
* `RunsAtMostOnce`, `UnreachableNeverRan`. `AtMostOnce` alone is not inductive: it says
  nothing of frames under way. `AtMostOnceInv` adds, for each one-shot call, that
  while it counts as unsent it has left no frame and no run, that a frame under way
  excludes a run, and that there is at most one (`OnceInv`), and ties the lock's holder
  to `pc` (`HolderInv`). Lemma `QuietStep` disposes of the steps that do not concern
  a call, `TransientErrorOnce` of the except clause.
* `AnswersAlwaysMatch`. Ids are not compared, so the reason must be elsewhere:
  `OneExchange` says that on the connection in use there is at most one frame, request
  or reply, and that it belongs to the exchange the client waits for (`OnlyTheAwaited`),
  and that connections are numbered as they are opened (`Numbered`). It holds until a
  caller cancels, and lemma `CancelledStays` carries that condition along.
* `OnlyAuthenticatedRun`, an action property: from `SessionInv`, a session is opened
  with the right token only and the token cannot change during a session.
* `NothingRunsLate`, an action property. A request that is read late is one left on a
  connection the client has given up, so the proof is about the order of connections:
  `OldestFirst` says that the agent serves them as they were opened, and that no
  reply comes from a connection newer than the one served. So when a reply is read on
  the client's connection no request is left on an older one (`NothingPending`), and
  `OnlyOpenPending` follows: until a caller has cancelled, a request under way belongs to
  a call whose fate is open (`StillOpen`).
* `PromiseIsKept`, the refinement: with `MayCancel = FALSE`, each step of `Session` is a
  step of `RemoteCall` or none (`KeepsPromiseStep`), from the invariants above and
  `TrueReplies` (an "ok" under way is about a call that has run). The
  assumption is that of the run `session_promise`: `RemoteCall` has no cancellation, and
  `session_mixup` shows what a cancelled call does to the next one.

**`PadProofs`** (any number of boot presses, any options, hid refusing what it may):
`PadTypes`, `FlagAlwaysTrue`, `NoButtonLeftHeld`, `ConsoleGivenBack`. None of the three
properties says anything while a thread is inside a call, so each rests on an account of
the calls under way (`PadInv`):

* `InOrder`: hid's queue holds exactly the threads that wait, each once.
* `WhileAttached`, `WhileDetached` (together with `InOrder`: `HidInv`): work buffer and
  device at hid, as a function of `g_attached`, of what each of the two threads has been
  granted and of which of them is answered first. One lemma per point of `Ensure`
  and `Release` at which a thread comes back; all of them are about "the thread that
  acts and the other one" (`OfBoth`), so that neither is treated twice.
* `InStep`: which calls a thread can be in at which place of its own code.
* `HeldInv`: a button down on the device belongs to a thread that will let go of it and
  finds the pad attached when it does, or is answered before the thread that attaches.
* `SomebodyReleases`: a pad left attached has a thread that comes back to release it.

**`SleepProofs`** (any number of sleeps): `NobodyWaitsInVain` and `AwakeIsNoticed`, from
`SleepInv`, which relates the request under way, what the thread has recorded, the
phase of the console and the module's state.

**`LifecycleProofs`** (any number of boots, any sets of requests):
`CountsExactly` and `HealthyMeansReached` are proved of `Watchdog` (`CountInv`: what the
file says at each step of its rewriting; `ReachedInv`) and carried over by
`LifecycleIsWatchdog`, which shows that `Lifecycle` implements `Watchdog`.
`OwnTransitionsSpareCount` needs both components: a scheduled transition means that a
client has authenticated, which left nothing to rewrite (`QuietInv`). `FirstRequestWins`
follows from `ScheduleInv`: the flag, the thread and the pending action agree.

`SleepProofs` and `LifecycleProofs` also prove the type invariants (`TypeCorrect`,
`TypesCorrect`).

**`EventsProofs`** (any number of processes, any registers, `PollsAssumption`):

* `SessionIsConsistent`. `SessionAgrees` is inductive: each command of the debugger
  opens or closes the handle together with the id (`CommandsKeepSession`), and nobody else
  touches either.
* `RunningMeansRunning`, an action property, by the cases of the commands: a detach
  closes the handle, a poll that resumes and an attach that does not pause read the events
  first. `debug.continue` does neither and is not in the theorem; it is a finding.
* `WaitsMissLittle`, an action property, from `HistoryInv`, which relates what has happened
  since the request to what has to be seen at the next look: an application that is there
  and was not, or is another one, has started; buttons that are not those noted were pressed
  or let go.
* `EventsTypes`. That ids and register contents stay in range needs the bounds of the
  processes (`AmongTheAlive`).
* `WatchesAreExact`, for every address, size and mode: a register whose control word the
  agent encoded is armed for what was asked (`ArmsTruly`), where `ByteSelect` is the arithmetic of the select bits within a
  doubleword, and no other command changes what an armed register watches.
* `BacktraceIsChain`, for every memory and maximum: the walk of `debug.backtrace` is a
  strictly ascending chain, each frame found from the one before, and stops only where
  the code's tests fail. `BacktracesEnd` derives the property of the run from it.

**`MemSearchProofs`** (any memory, regions, chunk size, cap and budget;
`SearchAssumption`: finitely many regions that do not overlap, and widths that divide
the chunk, as 1, 2, 4 and 8 divide `kScanChunk`):

* `NarrowingIsSound`, `NarrowingKeepsAll`, from `TableInv`. The scan goes by chunks and the
  reference by regions: `HitsMatch` and `MatchesHit` show that they find the
  same addresses, from `AlignedInRegion` and `AlignedInChunk` (no value straddles two chunks).
  `FirstAreFew` shows that the first `kMaxCandidates` hits are no more than that.
* `SearchTypes`.

**`StorageProofs`** (any files, contents, tokens, bounds; `UserFilesAssumption`,
`StorageAssumption`), on `ConfigInv` (what was parsed is a setting; a file about to be
rewritten has no token) and `TaskInv` (a restore under way was let in by the
dispatcher; a mount implies its flag):

* `TokenStays` (with the exception of a boot that has misread the token), `MountIsReachable`, `RestoresWholly`, `ObserversOnlyLook`.
* `BackupsStay`. `BackupHoldsSave` says nothing while a backup is being made. `BackupInv`
  adds that each file no longer on the list of an unflawed backup is on the card
  as it is on the device, and that no good backup is remembered meanwhile.
* `JournalTellsTheTail`, as long as no client has written to the two files. `JournalInv` is
  `JournalIsTail` for them concatenated,
  with the types the arithmetic needs; a rotation moves the boundary between the
  files and leaves what they hold together.
* The algorithms of `FileOps`, for every input (`FileOpsAssumption`: the constants are
  natural numbers, and neither chunk nor scan cap is zero). `FindIsComplete`: in any tree,
  `fs.find` has every match that is neither below the depth limit nor inside a directory
  that cannot be opened, or tells of a limit; the invariant of the walk (`Complete`)
  relates the directories entered to the depth of the entry reached. `GrepIsComplete`, for
  terminated and unterminated files and lines longer than what is kept of them.
  `UploadLosesTheUnwritten` and `DownloadIsABeginning`: whatever each request moves, after
  any number of them what is there is in its place, a chunk that was written for good
  is whole, and a download ends. `PathsAreNormal`: a path that is accepted keeps its named
  segments and nothing else, and is a fixed point.
* `SearchesMissLittle`, `TransfersLoseLittle` and `PathsAreContained` derive the properties
  of the run from these.

**`Induction`** has the lemmas about the natural numbers that the proofs about recursive
functions use. The induction theorems of the library take an operator as parameter, which the provers
cannot instantiate; here the statement to be proved is a *set* of numbers
(`EveryNatural`, `UpTo`), and the lemmas follow from the order of the natural numbers being
well-founded. A recursive function is a `CHOOSE`: it satisfies its recursion only if
something does, and `Iterates` and `IteratesTo` show that, for steps over any set.

Only model-checked: the liveness properties (`LockReleased`, `SlotReleased`,
`PhysicalRegains`, `ConsoleNeverHangs`, `Heals`, `GoesDown`, `WaitEnds`), as the proof system
has no reasoning about fairness and `ENABLED`.

## Findings

Each is a run that ends in a counterexample to what a document, comment or name in
the repository says.

| run | what the code does |
|---|---|
| `session_double_write` | `sent_flag` is set after `drain()`. A large write whose `drain()` is cut off counts as unsent and is sent again, though the agent gets the first copy too: a non-idempotent `fs.write` is applied twice. |
| `session_mixup` | A cancelled call leaves its connection with a reply still to come, and the next call takes that reply for its own. |
| `debug_continue` | After a pausing attach `debug.continue` asks the kernel to continue while the attach's events are unread, ignores the result and answers ok. The tool says "Target resumed (still attached)", and the target stays frozen until somebody polls or detaches. |
| `macro_replay` | `record_input` stores the pause before a press with that press, `send_input_sequence` waits after it: every pause moves behind the press it preceded. |

Reading the code for the models also showed disagreements and surprises that no run
is devoted to:

* On the second attempt of a call the check `attempt == 1` comes first, so a
  non-idempotent command lost after sending is raised as a bare transport error, not as
  "uncertain" (`agentd.py:269`).
* A reboot written to a connection the agent has closed counts as carried out
  (`agentd.py:251`). The agent closes connections that are idle and those it refused, and
  after "denied" the connection stays in `self._writer`.
* The boot count is rewritten in place: a boot that loses power between truncating
  and writing starts the streak over (`guards.cpp:166`).
* A shutdown requested while a reboot is pending is answered "powering off" and the
  console reboots (`power.cpp:41`).
* `AckThread` acknowledges sleep without tearing the listener down, which the head of
  `power_state.cpp` announces; the worker makes its boot presses whenever keep-awake is
  on, also with `clear_lockscreen_on_boot` off; two threads that attach the pad at
  the same time make one of the two calls of `Ensure` fail, though it is declared
  idempotent.
* A backup or a restore whose `fread` or `fwrite` falls short is answered ok, and the
  restore is committed (`fs.cpp:263`); `fs.copy` of a file onto itself empties it.
* `config.ini` without a token is rewritten from the defaults, so the other settings in
  it are gone at the next boot, while the running agent still has them.
* A transfer whose card fails is reported as done: `fs.read` answers a failed `fread` as
  the end of the file (`fs.cpp:82-87`), `fs.write` a short `fwrite` with the number of bytes
  written (`fs.cpp:121-124`), which `write_file` ignores (`agentd.py:307`), and the tool
  says how much it has uploaded (`tools/fs.py:82`).
* `config.ini` that is there but cannot be opened, or whose reading breaks off before the
  token, is overwritten with a new token and the defaults, although the comment speaks
  of "no config or empty token" (`config.cpp:131`).
* `fs.find` does not tell of the depth limit or of a directory it cannot open, although
  `tools/fs.py:176-178` says of the depth- and scan-capped walk that the reply tells explicitly
  whether it was truncated. `fs.grep` keeps 4096 characters of a line (`fs.cpp:518`) and
  never looks at a last line without a newline, both in silence.
* A `ctl` in a `debug.set_watchpoint` replaces the control word, while the reply repeats the
  request's mode and address (`debug.cpp:488`). Breakpoint registers stay armed after a
  detach.
* `wait_event` answers "nothing happened within the window" (`events.cpp:157`) when an
  application came and went between two looks, when a press was let go before the
  look, and when a button combination held from before is let go and pressed again;
  `tools/core.py:247-253` promises an edge in each case. A recording does not count the
  sample of a release as quiet time.
* A swipe or a key that is refused half-way leaves the autopilot's finger or key down,
  also after the client has gone (`input.cpp:191`, `input.cpp:223`).
* A tier lowered in `config.ini` does not bind the running agent: the settings are those of
  its start. The journal can be deleted and overwritten by any client of tier control.

## What is left out

* **Time.** Timeouts are choices that may happen at any moment a timer could be
  running. `PeerSilent` excludes the one combination the constants exclude: the agent
  waits ten times 30 s in a session, the client never that long between two steps of
  a call. That a reply gets out within the half second before a reboot is not assumed.
* **`wait_closed()`** is one step: how long TCP holds a closing connection with unsent
  data is not modelled, so `LockReleased` says nothing about that wait.
* **Cryptography, JSON, frame layout.** A peer passes authentication if the tokens
  match. A frame is read whole; one that arrives in part is a frame that does not
  arrive.
* **Handlers** in `Session` are one step each; those with a state of their own have a
  module. Brightness, clocks and the like set a register and report it.
* **`cheat.cpp`**: each handler is one call of dmnt:cht, under command numbers that are not
  those `memsearch.cpp` uses for the same service; no one model of the service fits both.
* **Values of a search** are unsigned, as in the code. The number of results
  `search.results` shows is layout.
* **Edits of `config.ini` within a start**, in the moments between reading and rewriting.
* **Directories** in `Storage` are flat sets of files; `FileOps` has the tree. A copy's
  recursion is its list of files. Renaming and deleting are single steps of the card.
* **Who is asleep during a wait**: `Events` has no sleep of the console, `SleepWake` no
  handlers.
* **`power_state::Exit`** runs only from `__appExit`, which `Run` never returns to.
* **hid**: a device that is there accepts button states, detaching and releasing. With a
  service that refuses those, the pad could stay attached whatever the agent does.
* **One client.** A second MCP server on the same agent waits in the backlog; `Session`
  has one client, whose earlier connections play that part.
* The components marked `not_modelled` in `PROJECT.json`, each with its reason.
