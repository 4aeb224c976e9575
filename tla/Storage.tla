------------------------------ MODULE Storage ------------------------------
(***************************************************************************)
(* What the agent keeps and changes on the console's storage: files of the *)
(* SD card, a title's save data with its backup and the mount clients      *)
(* browse, and the journal (handlers/fs.cpp, savedata.cpp, system.cpp,     *)
(* guards.cpp), behind the dispatcher and across power losses.             *)
(*                                                                         *)
(* A directory is the flat set of the files below it. A file is a sequence *)
(* of chunks; the two chunks of a save file carry the version the game     *)
(* wrote. A title's backup directory holds a file of the same name for     *)
(* each file of its save.                                                  *)
(***************************************************************************)
EXTENDS Dispatch, FileOps

CONSTANTS SaveFiles,    \* names of the files of the title's save
          OtherFiles,   \* other paths of the SD card
          MaxVersion,   \* bound: versions of a save file
          MaxOps,       \* bound: mutating commands carried out, since ever
          JournalCap    \* kJournalMaxBytes, in entries

ASSUME StorageAssumption ==
    /\ SaveFiles \cap OtherFiles = {}
    /\ MaxVersion \in Nat \ {0} /\ MaxOps \in Nat /\ JournalCap \in Nat \ {0}

VARIABLES sd,              \* the SD card: path -> node
          save,            \* the committed save: file -> chunks
          save_dev,        \* the device "save:" while a handler has it mounted
          task,            \* the copy CopyTree is busy with
          mounted,         \* a save is mounted as kSaveMountName
          g_save_mounted,
          journal, journal1,  \* journal.log and journal.log.1
          done, missed,    \* history: mutating commands carried out, and those
                           \* of them for which the journal could not be opened
          untouched,       \* history: no client has changed the journal's files
          good             \* history: the save as it was at a backup answered
                           \* ok without I/O errors, while nothing touched that
                           \* backup since

saveVars == <<save, save_dev>>
mountVars == <<mounted, g_save_mounted>>
journalVars == <<journal, journal1, done, missed, untouched>>
vars == <<configVars, sd, saveVars, task, mountVars, journalVars, good>>

Paths == SaveFiles \cup OtherFiles
NoFile == [kind |-> "none", data |-> <<>>]
Directory == [kind |-> "dir", data |-> <<>>]
File(data) == [kind |-> "file", data |-> data]

NoTask == [cmd |-> "none", todo |-> {}, ok |-> TRUE, flawed |-> FALSE]
NoSave == [k \in {} |-> <<>>]

\* A card that has been in use long enough for the journal to have rotated.
StorageInit ==
    /\ ConfigInit
    /\ sd = [p \in Paths |-> NoFile]
    /\ save = [k \in SaveFiles |-> <<1, 1>>] /\ save_dev = NoSave
    /\ task = NoTask
    /\ mounted = FALSE /\ g_save_mounted = FALSE
    /\ journal1 = [i \in 1..JournalCap + 1 |-> i]
    /\ journal = <<JournalCap + 2>> /\ done = JournalCap + 2 /\ missed = 0
    /\ untouched = TRUE
    /\ good = NoSave

Idle == task = NoTask

(***************************************************************************)
(* The journal                                                             *)
(***************************************************************************)
\* Mutant: a rotation is taken to have worked.
JournalForgets ==
    LET grown == Append(journal, done' - missed) IN
    /\ done' = done + 1
    /\ journal' = IF Len(grown) <= JournalCap THEN grown ELSE <<>>
    /\ UNCHANGED <<journal1, missed, untouched>>

\* Written when the handler has returned, to the files as it has left them: the entry
\* of the operation, named by its number; how it went is written with it.
\* Neither a file that cannot be opened nor a rotation that fails is noticed; it
\* fails, for one, when the file system does not let a rename replace journal.log.1.
AppendTo(log, log1) ==
    LET grown == Append(log, done' - missed) IN
    /\ done' = done + 1
    /\ \/ /\ missed' = missed
          /\ IF Len(grown) <= JournalCap
             THEN journal' = grown /\ journal1' = log1
             ELSE \/ journal' = <<>> /\ journal1' = grown
                  \/ journal' = grown /\ journal1' = log1
       \/ missed' = missed + 1 /\ journal' = log /\ journal1' = log1

JournalAppend == AppendTo(journal, journal1) /\ UNCHANGED untouched

\* A mutating handler that returns at once.
Carried(cmd) ==
    /\ Idle /\ done < MaxOps
    /\ Entered(cmd, FALSE)
    /\ JournalAppend
    /\ UNCHANGED <<configVars, saveVars, task, mountVars>>

(***************************************************************************)
(* Files of the SD card                                                    *)
(***************************************************************************)
\* RequireWritableSd, and the same test in fs.rename and fs.copy.
WritableSd(device) == device = "sd"

\* The card after a handler.
CardBecomes(card) ==
    /\ sd' = card
    /\ good' = IF \A k \in SaveFiles : sd'[k] = sd[k] THEN good ELSE NoSave

\* Any handler may fail before it has changed anything.
Refused(cmd) == Carried(cmd) /\ UNCHANGED <<sd, good>>

\* One chunk, 0, at an offset of whole chunks. A write that falls short is
\* answered ok, with the number of bytes written.
FsWrite(device, path, offset) ==
    /\ WritableSd(device) /\ sd[path].kind # "dir"
    /\ Carried("fs.write")
    /\ \E io \in IoOutcomes :
          CardBecomes([sd EXCEPT ![path] = File(Written(@.data, offset, <<0>>, io))])

FsDelete(device, path) ==
    /\ WritableSd(device) /\ sd[path].kind # "none"
    /\ Carried("fs.delete")
    /\ CardBecomes([sd EXCEPT ![path] = NoFile])

FsMkdir(device, path) ==
    /\ WritableSd(device) /\ sd[path].kind = "none"
    /\ Carried("fs.mkdir")
    /\ CardBecomes([sd EXCEPT ![path] = Directory])

\* Whether a rename replaces a file that exists is the file system's choice.
FsRename(device, from, to) ==
    /\ WritableSd(device) /\ sd[from].kind # "none" /\ sd[to].kind # "dir"
    /\ Carried("fs.rename")
    /\ CardBecomes([sd EXCEPT ![from] = NoFile, ![to] = sd[from]])

\* The destination is truncated when it is opened, and read and write errors
\* look like the end of the file: any prefix may arrive. A file copied onto
\* itself is empty when the first read comes.
FsCopy(device, from, to) ==
    /\ WritableSd(device) /\ sd[from].kind = "file" /\ sd[to].kind # "dir"
    /\ Carried("fs.copy")
    /\ \E n \in 0..(IF from = to THEN 0 ELSE Len(sd[from].data)) :
          CardBecomes([sd EXCEPT ![to] = File(SubSeq(sd[from].data, 1, n))])

\* The journal's two files lie on the card like any other: a client may delete or
\* overwrite either of them, which leaves nothing the agent wrote there, or put the
\* first in the place of the second. The command is journalled all the same.
FsOnJournal(cmd, device) ==
    /\ WritableSd(device)
    /\ Idle /\ done < MaxOps
    /\ Entered(cmd, FALSE)
    /\ \E left \in {<<<<>>, journal1>>, <<journal, <<>>>>, <<<<>>, journal>>} :
          AppendTo(left[1], left[2])
    /\ untouched' = FALSE
    /\ UNCHANGED <<configVars, sd, saveVars, task, mountVars, good>>

(***************************************************************************)
(* Backup and restore of a save                                            *)
(***************************************************************************)
\* fsdevMountSaveData and opendir of the source; without either nothing is
\* copied. Which files there are is the source's directory.
StartCopy(cmd, names, device) ==
    /\ Idle /\ done < MaxOps
    /\ Entered(cmd, FALSE)
    /\ task' = [NoTask EXCEPT !.cmd = cmd, !.todo = names]
    /\ save_dev' = device
    /\ UNCHANGED <<configVars, sd, save, mountVars, journalVars>>

BackupSave ==
    /\ StartCopy("save.backup", DOMAIN save, save)
    /\ good' = NoSave

RestoreSave ==
    /\ StartCopy("save.restore", {k \in SaveFiles : sd[k].kind # "none"}, save)
    /\ UNCHANGED good

\* What may become of one file of CopyTree: it arrives as the source holds it or
\* falls short of that, broken off (neither fread's nor fwrite's result is
\* looked at), skipped (stat fails) or not opened, which alone is reported.
Outcome(arrives, data, flawed, ok) ==
    [arrives |-> arrives, data |-> data, flawed |-> flawed, ok |-> ok]
CopyOutcomes(source) ==
    {Outcome(TRUE, SubSeq(source.data, 1, n), n # Len(source.data), TRUE) :
        n \in {m \in 0..Len(source.data) : source.kind = "file"}}
    \cup {Outcome(FALSE, <<>>, TRUE, TRUE)}
    \cup {Outcome(opened, <<>>, TRUE, FALSE) : opened \in BOOLEAN}

\* Mutant: the destination is not truncated.
AppendToCard(k, data) ==
    /\ sd[k].kind # "dir"
    /\ sd' = [sd EXCEPT ![k] = File(@.data \o data)]
    /\ UNCHANGED save_dev

ToCard(k, data) ==
    /\ sd[k].kind # "dir"
    /\ sd' = [sd EXCEPT ![k] = File(data)]
    /\ UNCHANGED save_dev

ToSave(k, data) ==
    /\ save_dev' = [f \in DOMAIN save_dev \cup {k} |-> IF f = k THEN data ELSE save_dev[f]]
    /\ UNCHANGED sd

CopyTree(k) ==
    /\ k \in task.todo
    /\ \E o \in CopyOutcomes(IF task.cmd = "save.backup" THEN File(save_dev[k]) ELSE sd[k]) :
          /\ IF o.arrives
             THEN IF task.cmd = "save.backup" THEN ToCard(k, o.data) ELSE ToSave(k, o.data)
             ELSE UNCHANGED <<sd, save_dev>>
          /\ task' = [task EXCEPT !.todo = @ \ {k}, !.flawed = @ \/ o.flawed,
                                  !.ok = @ /\ o.ok]
    /\ UNCHANGED <<configVars, save, mountVars, journalVars, good>>

\* A source that cannot be read as a directory.
CopyFails ==
    /\ ~Idle
    /\ task' = [task EXCEPT !.todo = {}, !.ok = FALSE]
    /\ UNCHANGED <<configVars, sd, saveVars, mountVars, journalVars, good>>

\* Mutant: what was restored is committed whether or not all of it was.
EndCopyAnyway ==
    /\ ~Idle /\ task.todo = {}
    /\ save' = IF task.cmd = "save.restore" THEN save_dev ELSE save
    /\ JournalAppend
    /\ good' = IF task.cmd = "save.backup" /\ task.ok /\ ~task.flawed THEN save_dev ELSE good
    /\ save_dev' = NoSave /\ task' = NoTask
    /\ UNCHANGED <<configVars, sd, mountVars>>

\* The handler returns: a restore is committed if every file was opened, and the
\* device is unmounted, which drops what was not committed.
EndCopy ==
    /\ ~Idle /\ task.todo = {}
    /\ \E committed \in {task.ok, FALSE} :
          save' = IF task.cmd = "save.restore" /\ committed THEN save_dev ELSE save
    /\ JournalAppend
    /\ good' = IF task.cmd = "save.backup" /\ task.ok /\ ~task.flawed THEN save_dev ELSE good
    /\ save_dev' = NoSave /\ task' = NoTask
    /\ UNCHANGED <<configVars, sd, mountVars>>

(***************************************************************************)
(* The mount clients browse, and the commands that only read               *)
(***************************************************************************)
\* ResolveDevicePath: the mount behind a device name a client gives.
ResolveDevicePath(device) ==
    CASE device = "sd" -> "sdmc"
      [] device = "save" /\ g_save_mounted -> "save_ro"
      [] OTHER -> "rejected"

\* The files fs.list shows of a device.
FsList(device) ==
    LET mount == ResolveDevicePath(device) IN
    IF mount = "sdmc" THEN {p \in Paths : sd[p].kind # "none"}
    ELSE IF mount = "save_ro" /\ mounted THEN DOMAIN save
    ELSE {}

\* The previous mount is dropped first, whatever becomes of the request.
SaveMount ==
    /\ Idle /\ Entered("save.mount", FALSE)
    /\ \/ mounted' = TRUE /\ g_save_mounted' = TRUE
       \/ mounted' = FALSE /\ UNCHANGED g_save_mounted
    /\ UNCHANGED <<configVars, sd, saveVars, task, journalVars, good>>

\* Mutant: only the flag is cleared.
ForgetMount ==
    /\ Idle /\ Entered("save.unmount", FALSE)
    /\ g_save_mounted' = FALSE
    /\ UNCHANGED <<configVars, sd, saveVars, task, mounted, journalVars, good>>

SaveUnmount ==
    /\ Idle /\ Entered("save.unmount", FALSE)
    /\ mounted' = FALSE /\ g_save_mounted' = FALSE
    /\ UNCHANGED <<configVars, sd, saveVars, task, journalVars, good>>

(***************************************************************************)
(* The console                                                             *)
(***************************************************************************)
\* The title writes its save; it cannot while a handler holds the save.
GameSaves(k) ==
    /\ Idle
    /\ \E v \in 2..MaxVersion : save' = [f \in DOMAIN save \cup {k} |->
                                           IF f = k THEN <<v, v>> ELSE save[f]]
    /\ save' # save
    /\ UNCHANGED <<configVars, sd, save_dev, task, mountVars, journalVars, good>>

PowerLoss ==
    /\ phase # "off"
    /\ ConfigLost
    /\ task' = NoTask /\ save_dev' = NoSave
    /\ mounted' = FALSE /\ g_save_mounted' = FALSE
    /\ UNCHANGED <<sd, save, journalVars, good>>

Boots ==
    /\ ConfigNext
    /\ UNCHANGED <<sd, saveVars, task, mountVars, journalVars, good>>

FileCommands ==
    \E device \in {"sd", "save"}, p \in Paths :
        \/ \E offset \in 0..1 : FsWrite(device, p, offset)
        \/ FsDelete(device, p)
        \/ FsMkdir(device, p)
        \/ \E to \in Paths : FsRename(device, p, to) \/ FsCopy(device, p, to)

JournalCommands ==
    \E cmd \in {"fs.write", "fs.delete", "fs.rename", "fs.copy"}, device \in {"sd", "save"} :
        FsOnJournal(cmd, device)

Next ==
    \/ FileCommands \/ JournalCommands
    \/ Refused("fs.write") \/ Refused("save.backup") \/ Refused("save.restore")
    \/ BackupSave \/ RestoreSave \/ CopyFails \/ EndCopy
    \/ \E k \in SaveFiles : CopyTree(k) \/ GameSaves(k)
    \/ SaveMount \/ SaveUnmount
    \/ Boots \/ PowerLoss

Spec == StorageInit /\ [][Next]_vars

(***************************************************************************)
(* Properties                                                              *)
(***************************************************************************)
TypeOK ==
    /\ phase \in {"off", "parsed", "opened", "up"}
    /\ cfg.tier \in Tiers
    /\ \A p \in Paths : sd[p].kind \in {"none", "dir", "file"}
    /\ DOMAIN save \subseteq SaveFiles /\ DOMAIN save_dev \subseteq SaveFiles
    /\ task.todo \subseteq SaveFiles
    /\ phase # "up" => task = NoTask /\ save_dev = NoSave
    /\ done \in 0..MaxOps /\ missed \in 0..done

\* The promise of tier "observe" in the generated config ("read-only; cannot
\* change the console"): at no point of a boot under it does a command alter
\* the card, its journal or the save, whatever the boots before it left.
ObserveChangesNothing ==
    [][phase = "up" /\ cfg.tier = "observe" /\ Idle =>
          /\ UNCHANGED <<sd, journal, journal1, task>>
          /\ save' # save => \E k \in SaveFiles : GameSaves(k)]_vars

\* A save changes through the agent in one step only: at the end of a restore
\* the config opted in to, with every file of the backup opened. A restore that
\* fails, or is cut off by the power at any file, leaves the save as it was.
RestoreAllOrNothing ==
    [][save' # save /\ ~Idle =>
          /\ task.cmd = "save.restore" /\ task.todo = {} /\ task.ok
          /\ cfg.tier = "invasive" /\ cfg.allow_nand_write
          /\ save' = save_dev]_vars

\* A backup that was answered ok without an I/O error still holds the save as
\* it was then, whatever was written elsewhere, mounted, restored or lost
\* since, as long as nobody wrote to it: a restore brings all of it back.
BackupHoldsSave == \A k \in DOMAIN good : sd[k] = File(good[k])

\* A save that is mounted can be addressed and is what fs.list reads; no order
\* of mounts, failed mounts and unmounts leaves one that is out of reach.
MountedIsReachable == FsList("save") = IF mounted THEN DOMAIN save ELSE {}

\* The journal tells what was done in the order it was done: the two files
\* together are the latest operations that could be written down, none twice
\* and none missing, at least as many as the cap - also when a rotation fails,
\* and as long as no client writes to these files itself (JournalAppend,
\* guards.cpp:47-67).
JournalIsTail ==
    LET kept == journal1 \o journal IN
    untouched =>
        /\ Len(kept) > JournalCap
        /\ \A i \in DOMAIN kept : kept[i] = done - missed - Len(kept) + i

\* Once a token is in the file, a boot that has read it does not change the file:
\* what the user wrote there stays, across power losses at any moment of a start
\* and edits of it while the agent runs (LoadConfig, config.cpp:84-165). A boot
\* whose reading failed does change it.
TokenSettles ==
    [][ini.token # "" => ini' = ini \/ edits' > edits \/ misread]_vars

\* The algorithms of the file handlers over all small inputs (FileOps): facts
\* about operators, which the initial states are enough to evaluate.

\* A search that tells of no limit has missed what it can never see and nothing
\* else (fs.cpp:468).
SearchesMissTheUnseen == StorageInit => FindMissesTheHidden /\ GrepMissesTheCutOff

\* What a transfer loses are the units a request did not move: both loops end, and
\* what arrives is in its place.
TransfersLoseTheUnmoved == StorageInit => DownloadsAreBeginnings /\ UploadsAreInPlace

\* A path that is accepted stays below the root of its device (path.cpp:7).
PathsStayBelow == StorageInit => NormalizedBelow
=============================================================================
