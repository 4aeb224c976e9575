---------------------------- MODULE StorageProofs ----------------------------
(* Theorems about Config, Dispatch and Storage, for any files on the card and  *)
(* in the save, any bounds and any number of edits, boots and power losses.    *)
EXTENDS Storage, FiniteSetTheorems, SequenceTheorems, Induction

(***************************************************************************)
(* The settings                                                            *)
(***************************************************************************)
\* What holds of the settings at every moment of every boot.
ConfigInv ==
  /\ ini \in Files
  /\ cfg \in Files /\ cfg.tier \in Tiers
  /\ phase \in {"parsed", "opened"} => ini.token = "" \/ misread
  /\ edits \in Nat

LEMMA ParsedIsSettings ==
  ASSUME NEW read \in Files
  PROVE  /\ Parsed(read) \in Files /\ Parsed(read).tier \in Tiers
         /\ [Parsed(read) EXCEPT !.token = RandomToken] \in Files
         /\ [Parsed(read) EXCEPT !.token = RandomToken].tier \in Tiers
<1>1. ParseTier(read.tier) \in Tiers
  BY DEF ParseTier, Tiers
<1>2. Parsed(read) = [read EXCEPT !.tier = ParseTier(read.tier)]
  BY DEF Parsed
<1>3. Parsed(read) \in Files /\ Parsed(read).tier \in Tiers
  BY <1>1, <1>2 DEF Files
<1>4. /\ [Parsed(read) EXCEPT !.token = RandomToken] \in Files
      /\ [Parsed(read) EXCEPT !.token = RandomToken].tier = Parsed(read).tier
  BY <1>3 DEF Files
<1> QED
  BY <1>3, <1>4

LEMMA DefaultsAreSettings == Defaults \in Files /\ Defaults.tier \in Tiers /\ Defaults.token = ""
BY DEF Defaults, Files, Tiers

LEMMA ReadingsAreSettings ==
  ASSUME ini \in Files
  PROVE  Readings \subseteq Files
<1>1. /\ [Defaults EXCEPT !.token = ini.token] \in Files
      /\ [ini EXCEPT !.allow_nand_write = FALSE] \in Files
  BY DefaultsAreSettings DEF Files
<1> QED
  BY <1>1, DefaultsAreSettings DEF Readings

LEMMA ConfigSteps ==
  ASSUME ConfigInv, ConfigNext
  PROVE  ConfigInv'
<1> USE DEF ConfigInv
<1>1. CASE LoadConfig
  <2>1. PICK read \in Readings :
          /\ IF read.token # ""
             THEN cfg' = Parsed(read) /\ phase' = "up"
             ELSE cfg' = [Parsed(read) EXCEPT !.token = RandomToken] /\ phase' = "parsed"
          /\ misread' = (read.token # ini.token)
    BY <1>1 DEF LoadConfig
  <2>2. read \in Files
    BY ReadingsAreSettings
  <2>3. cfg' \in Files /\ cfg'.tier \in Tiers
    BY <2>1, <2>2, ParsedIsSettings
  <2>4. ini' = ini /\ edits' = edits
    BY <1>1 DEF LoadConfig
  <2>5. phase' \in {"parsed", "opened"} => read.token = ""
    BY <2>1
  <2>6. phase' \in {"parsed", "opened"} => ini'.token = "" \/ misread'
    BY <2>1, <2>4, <2>5
  <2> QED
    BY <2>3, <2>4, <2>6
<1>2. CASE OpenConfig
  BY <1>2, DefaultsAreSettings DEF OpenConfig
<1>3. CASE WriteConfig
  <2>1. Generated(cfg.token) \in Files
    BY DefaultsAreSettings DEF Generated, Files
  <2> QED
    BY <1>3, <2>1 DEF WriteConfig
<1>4. CASE UserEdits
  <2> HIDE DEF ConfigInv
  <2>1. ini' \in Files /\ cfg' = cfg /\ edits' \in Nat
    <3>1. ini' \in UserFiles /\ cfg' = cfg /\ edits' = edits + 1
      BY <1>4 DEF UserEdits
    <3>2. ini' \in Files
      BY <3>1, UserFilesAssumption
    <3>3. edits \in Nat
      BY DEF ConfigInv
    <3> QED
      BY <3>1, <3>2, <3>3
  <2>2. ~(phase' \in {"parsed", "opened"})
    BY <1>4 DEF UserEdits
  <2> QED
    BY <2>1, <2>2, Zenon DEF ConfigInv
<1> QED
  BY <1>1, <1>2, <1>3, <1>4 DEF ConfigNext

\* Every other step keeps the settings or loses all but the file.
LEMMA OtherSteps ==
  ASSUME [Next]_vars
  PROVE  Boots \/ PowerLoss \/ UNCHANGED configVars
BY DEF Next, FileCommands, FsWrite, FsDelete, FsMkdir, FsRename, FsCopy, JournalCommands,
       FsOnJournal, Refused, Carried, BackupSave, RestoreSave, StartCopy, CopyFails, EndCopy, CopyTree,
       GameSaves, SaveMount, SaveUnmount, vars

LEMMA ConfigInvariant == Spec => []ConfigInv
<1>1. StorageInit => ConfigInv
  <2> SUFFICES ASSUME ConfigInit PROVE ConfigInv
    BY DEF StorageInit
  <2>1. edits \in Nat
    BY DEF ConfigInit
  <2>2. ini \in Files /\ cfg \in Files /\ cfg.tier \in Tiers
    BY DefaultsAreSettings, UserFilesAssumption DEF ConfigInit
  <2>3. phase = "off"
    BY DEF ConfigInit
  <2> QED
    BY <2>1, <2>2, <2>3 DEF ConfigInv
<1>2. ConfigInv /\ [Next]_vars => ConfigInv'
  <2> SUFFICES ASSUME ConfigInv, [Next]_vars PROVE ConfigInv'
    OBVIOUS
  <2>1. CASE Boots
    BY <2>1, ConfigSteps DEF Boots
  <2>2. CASE PowerLoss
    BY <2>2, DefaultsAreSettings DEF PowerLoss, ConfigLost, ConfigInv
  <2>3. CASE UNCHANGED configVars
    BY <2>3 DEF configVars, ConfigInv
  <2> QED
    BY <2>1, <2>2, <2>3, OtherSteps
<1>3. QED
  BY <1>1, <1>2, PTL DEF Spec

\* A token that has reached the file stays there across any number of boots, edits
\* and power losses: a start that is cut off has written over nothing of value
\* (LoadConfig, config.cpp:84-165). The exception is a start whose reading of the
\* file failed before the token: it takes the file for one without (133-137).
THEOREM TokenStays == Spec => TokenSettles
<1>1. ASSUME ConfigInv, [Next]_vars
      PROVE  ini.token # "" => ini' = ini \/ edits' > edits \/ misread
  <2>1. CASE Boots
    <3>1. CASE UserEdits
      <4>1. edits \in Nat
        BY <1>1 DEF ConfigInv
      <4>2. edits' = edits + 1
        BY <3>1 DEF UserEdits
      <4>3. edits' > edits
        BY <4>1, <4>2
      <4> QED
        BY <4>3
    <3>2. CASE LoadConfig \/ OpenConfig \/ WriteConfig
      BY <1>1, <3>2 DEF LoadConfig, OpenConfig, WriteConfig, ConfigInv
    <3> QED
      BY <2>1, <3>1, <3>2 DEF Boots, ConfigNext
  <2>2. CASE PowerLoss
    BY <2>2 DEF PowerLoss, ConfigLost
  <2>3. CASE UNCHANGED configVars
    BY <2>3 DEF configVars
  <2> QED
    BY <1>1, <2>1, <2>2, <2>3, OtherSteps
<1>2. QED
  BY <1>1, ConfigInvariant, PTL DEF Spec, TokenSettles

(***************************************************************************)
(* The tiers and the save                                                  *)
(***************************************************************************)
\* The dispatcher lets nothing mutate under "observe", and a restore only pass
\* under "invasive" with its opt-in.
LEMMA TiersHold ==
  ASSUME NEW cmd, Entered(cmd, FALSE), cfg.tier \in Tiers
  PROVE  /\ Mutating(cmd) => cfg.tier # "observe"
         /\ cmd = "save.restore" => cfg.tier = "invasive" /\ cfg.allow_nand_write
<1>1. Rank("observe") = 0 /\ Rank("control") = 1 /\ Rank("invasive") = 2
  BY DEF Rank
<1>2. Mutating(cmd) => TierOf(cmd) # "observe" /\ TierOf(cmd) \in Tiers
  BY DEF Mutating, TierOf, ObserveCommands, ControlCommands, InvasiveCommands, Tiers
<1>3. TierOf("save.restore") = "invasive"
  BY DEF TierOf, ObserveCommands, InvasiveCommands
<1>4. Rank(TierOf(cmd)) <= Rank(cfg.tier)
  BY DEF Entered, CheckTier
<1>5. cmd = "save.restore" => cfg.allow_nand_write
  BY DEF Entered, CheckTier
<1> QED
  BY <1>1, <1>2, <1>3, <1>4, <1>5 DEF Tiers

\* While a handler copies, the configuration it was allowed by stays in force.
TaskInv ==
  /\ ConfigInv
  /\ task.cmd \in {"none", "save.backup", "save.restore"}
  /\ ~Idle => phase = "up" /\ task.cmd # "none"
  /\ ~Idle /\ task.cmd = "save.restore" => cfg.tier = "invasive" /\ cfg.allow_nand_write
  /\ mounted \in BOOLEAN /\ (mounted => g_save_mounted)

LEMMA TaskInvariant == Spec => []TaskInv
<1>1. StorageInit /\ ConfigInv => TaskInv
  <2>1. NoTask.cmd = "none"
    BY DEF NoTask
  <2>2. StorageInit => task = NoTask /\ mounted = FALSE
    BY DEF StorageInit
  <2> QED
    BY <2>1, <2>2 DEF TaskInv, Idle
<1>2. TaskInv /\ ConfigInv' /\ [Next]_vars => TaskInv'
  <2> SUFFICES ASSUME TaskInv, ConfigInv', [Next]_vars PROVE TaskInv'
    OBVIOUS
  <2> USE DEF TaskInv, Idle
  <2>1. ASSUME UNCHANGED <<configVars, task, mountVars>> PROVE TaskInv'
    BY <2>1 DEF configVars, mountVars
  <2>2. ASSUME NEW cmd \in {"save.backup", "save.restore"}, NEW names, NEW device,
               StartCopy(cmd, names, device)
        PROVE  TaskInv'
    BY <2>2, TiersHold DEF StartCopy, Entered, NoTask, configVars, mountVars, ConfigInv
  <2>3. ASSUME NEW k, CopyTree(k) PROVE TaskInv'
    BY <2>3 DEF CopyTree, NoTask, configVars, mountVars
  <2>4. CASE CopyFails
    BY <2>4 DEF CopyFails, NoTask, configVars, mountVars
  <2>5. CASE EndCopy
    BY <2>5 DEF EndCopy, NoTask, configVars, mountVars
  <2>6. CASE SaveMount \/ SaveUnmount
    BY <2>6 DEF SaveMount, SaveUnmount, configVars
  <2>7. CASE Boots
    BY <2>7 DEF Boots, ConfigNext, LoadConfig, OpenConfig, WriteConfig, UserEdits, mountVars
  <2>8. CASE PowerLoss
    BY <2>8 DEF PowerLoss, NoTask
  <2>9. CASE FileCommands
    BY <2>1, <2>9 DEF FileCommands, FsWrite, FsDelete, FsMkdir, FsRename, FsCopy, Carried
  <2>10. ASSUME NEW cmd, Refused(cmd) PROVE TaskInv'
    BY <2>1, <2>10 DEF Refused, Carried
  <2>11. ASSUME NEW k, GameSaves(k) PROVE TaskInv'
    BY <2>1, <2>11 DEF GameSaves
  <2>12. CASE UNCHANGED vars
    BY <2>1, <2>12 DEF vars
  <2>13. CASE JournalCommands
    BY <2>1, <2>13 DEF JournalCommands, FsOnJournal
  <2> QED
    BY <2>2, <2>3, <2>4, <2>5, <2>6, <2>7, <2>8, <2>9, <2>10, <2>11, <2>12, <2>13
    DEF Next, BackupSave, RestoreSave
<1>3. QED
  BY <1>1, <1>2, ConfigInvariant, PTL DEF Spec

\* The save a client browses is what is mounted, after any order of mounts,
\* failed mounts, unmounts and power losses (savedata.cpp:126-209).
THEOREM MountIsReachable == Spec => []MountedIsReachable
<1>1. TaskInv => MountedIsReachable
  BY DEF TaskInv, MountedIsReachable, FsList, ResolveDevicePath
<1>2. QED
  BY <1>1, TaskInvariant, PTL

\* The agent changes a save only by committing a restore it was allowed and that
\* opened every file of the backup (savedata.cpp:299-314).
THEOREM RestoresWholly == Spec => RestoreAllOrNothing
<1>1. ASSUME TaskInv, [Next]_vars, save' # save, ~Idle
      PROVE  /\ task.cmd = "save.restore" /\ task.todo = {} /\ task.ok
             /\ cfg.tier = "invasive" /\ cfg.allow_nand_write
             /\ save' = save_dev
  <2>1. EndCopy
    BY <1>1 DEF Next, FileCommands, FsWrite, FsDelete, FsMkdir, FsRename, FsCopy,
       JournalCommands, FsOnJournal, Refused, Carried, BackupSave, RestoreSave, StartCopy, CopyFails, CopyTree, GameSaves,
       SaveMount, SaveUnmount, Boots, PowerLoss, vars, saveVars
  <2> QED
    BY <1>1, <2>1 DEF EndCopy, TaskInv
<1>2. QED
  BY <1>1, TaskInvariant, PTL DEF Spec, RestoreAllOrNothing

\* Under the tier "observe" no command alters the card, its journal or a save
\* (config.cpp:113-127 and server.cpp:290-318).
THEOREM ObserversOnlyLook == Spec => ObserveChangesNothing
<1>1. ASSUME TaskInv, [Next]_vars, phase = "up", cfg.tier = "observe", Idle
      PROVE  /\ UNCHANGED <<sd, journal, journal1, task>>
             /\ save' # save => \E k \in SaveFiles : GameSaves(k)
  <2>1. ASSUME NEW cmd, Mutating(cmd), Entered(cmd, FALSE) PROVE FALSE
    BY <1>1, <2>1, TiersHold DEF TaskInv, ConfigInv
  <2>2. \A cmd \in {"fs.write", "fs.delete", "fs.mkdir", "fs.rename", "fs.copy",
                    "save.backup", "save.restore"} : Mutating(cmd)
    BY DEF Mutating, ControlCommands, InvasiveCommands
  <2>3. ~FileCommands /\ ~JournalCommands
    <3>1. ~FileCommands
      BY <2>1, <2>2 DEF FileCommands, FsWrite, FsDelete, FsMkdir, FsRename, FsCopy, Carried
    <3>2. ~JournalCommands
      BY <2>1, <2>2 DEF JournalCommands, FsOnJournal
    <3> QED
      BY <3>1, <3>2
  <2>4. ~(Refused("fs.write") \/ Refused("save.backup") \/ Refused("save.restore"))
    BY <2>1, <2>2 DEF Refused, Carried
  <2>5. ~(BackupSave \/ RestoreSave)
    BY <2>1, <2>2 DEF BackupSave, RestoreSave, StartCopy
  <2>6. ~(CopyFails \/ EndCopy)
    BY <1>1 DEF CopyFails, EndCopy
  <2>7. ASSUME NEW k, CopyTree(k) PROVE UNCHANGED <<sd, journal, journal1, task, save>>
    BY <1>1, <2>7 DEF CopyTree, Idle, NoTask
  <2>8. ASSUME NEW k, GameSaves(k) PROVE UNCHANGED <<sd, journal, journal1, task>>
    BY <2>8 DEF GameSaves, journalVars
  <2>9. CASE SaveMount \/ SaveUnmount \/ Boots \/ PowerLoss
    BY <1>1, <2>9 DEF SaveMount, SaveUnmount, Boots, PowerLoss, Idle, journalVars, saveVars
  <2>10. CASE UNCHANGED vars
    BY <2>10 DEF vars, journalVars, saveVars
  <2> QED
    BY <1>1, <2>3, <2>4, <2>5, <2>6, <2>7, <2>8, <2>9, <2>10 DEF Next
<1>2. QED
  BY <1>1, TaskInvariant, PTL DEF Spec, ObserveChangesNothing

(***************************************************************************)
(* The backup                                                              *)
(***************************************************************************)
Data == Seq(Nat)
Nodes == [kind : {"none", "dir", "file"}, data : Data]

Tasks == [cmd : {"none", "save.backup", "save.restore"}, todo : SUBSET SaveFiles,
          ok : BOOLEAN, flawed : BOOLEAN]

\* A backup that is being made holds, so far, what it has copied; one that was
\* made is still on the card.
BackupInv ==
  /\ sd \in [Paths -> Nodes]
  /\ task \in Tasks
  /\ \A k \in DOMAIN save : k \in SaveFiles /\ save[k] \in Data
  /\ \A k \in DOMAIN save_dev : k \in SaveFiles /\ save_dev[k] \in Data
  /\ \A k \in DOMAIN good : k \in SaveFiles /\ sd[k] = File(good[k])
  /\ ~Idle /\ task.cmd = "save.backup" =>
        /\ good = NoSave
        /\ task.todo \subseteq DOMAIN save_dev
        /\ task.ok /\ ~task.flawed =>
              \A k \in DOMAIN save_dev : k \in task.todo \/ sd[k] = File(save_dev[k])

LEMMA NothingYet ==
  NoTask \in Tasks /\ NoTask.cmd = "none" /\ DOMAIN NoSave = {} /\ NoFile \in Nodes
BY DEF NoTask, Tasks, NoSave, NoFile, Nodes, Data

LEMMA FilesAreNodes ==
  ASSUME NEW data \in Data
  PROVE  File(data) \in Nodes /\ File(data).data = data
BY DEF File, Nodes

LEMMA PrefixIsData ==
  ASSUME NEW data \in Data, NEW n \in 0..Len(data)
  PROVE  SubSeq(data, 1, n) \in Data /\ (n = Len(data) => SubSeq(data, 1, n) = data)
BY DEF Data

\* Where a request ends that starts after k elements.
ChunkEnd(file, k, len) == IF k + len < Len(file) THEN k + len ELSE Len(file)

\* What one request moves: what follows the first k elements, up to a whole chunk.
LEMMA SliceFollows ==
  ASSUME NEW V, NEW file \in Seq(V), NEW k \in 0..Len(file), NEW len \in Nat
  PROVE  /\ Slice(file, k, len) \in Seq(V)
         /\ Len(Slice(file, k, len)) = ChunkEnd(file, k, len) - k
         /\ \A j \in 1..ChunkEnd(file, k, len) - k : Slice(file, k, len)[j] = file[k + j]
<1> DEFINE last == ChunkEnd(file, k, len)
<1>1. Len(file) \in Nat /\ k \in Nat /\ last \in k..Len(file)
  BY DEF ChunkEnd
<1>2. Slice(file, k, len) = SubSeq(file, k + 1, last)
  BY DEF Slice, ChunkEnd
<1> HIDE DEF last
<1>3. k + 1 \in 1..(Len(file) + 1) /\ last \in (k + 1) - 1..Len(file)
  BY <1>1
<1>4. /\ SubSeq(file, k + 1, last) \in Seq(V)
      /\ Len(SubSeq(file, k + 1, last)) = last - k
      /\ \A j \in 1..last - k : SubSeq(file, k + 1, last)[j] = file[k + j]
  <2>1. /\ SubSeq(file, k + 1, last) \in Seq(V)
        /\ Len(SubSeq(file, k + 1, last)) = last - (k + 1) + 1
        /\ \A j \in 1..last - (k + 1) + 1 : SubSeq(file, k + 1, last)[j] = file[(k + 1) + j - 1]
    BY <1>3, SubSeqProperties
  <2>2. last - (k + 1) + 1 = last - k /\ \A j \in Nat : (k + 1) + j - 1 = k + j
    BY <1>1
  <2>3. \A j \in 1..last - k : j \in Nat
    BY <1>1
  <2> QED BY <2>1, <2>2, <2>3
<1> QED BY <1>2, <1>4 DEF last

\* A write, whole or short, leaves a file of units.
LEMMA WrittenIsSeq ==
  ASSUME NEW V, 0 \in V, NEW old \in Seq(V), NEW offset \in Nat, NEW payload \in Seq(V),
         NEW io, io.moved \in Nat
  PROVE  Written(old, offset, payload, io) \in Seq(V)
<1> DEFINE base == IF offset = 0 \/ io.anew THEN <<>> ELSE old
           moved == Slice(payload, 0, io.moved)
           end == offset + Len(moved)
           n == IF moved = <<>> \/ end < Len(base) THEN Len(base) ELSE end
           at(i) == IF i \in offset + 1..end THEN moved[i - offset]
                    ELSE IF i <= Len(base) THEN base[i] ELSE 0
<1>0. moved \in Seq(V)
  <2>1. 0 \in 0..Len(payload)
    OBVIOUS
  <2> QED BY <2>1, SliceFollows
<1> HIDE DEF moved
<1>1. base \in Seq(V) /\ end \in Nat /\ n \in Nat
  BY <1>0
<1>2. ASSUME NEW i \in 1..n PROVE at(i) \in V
  <2>1. CASE i \in offset + 1..end
    <3>1. i - offset \in 1..Len(moved)
      BY <1>0, <2>1
    <3> QED
      BY <1>0, <2>1, <3>1
  <2>2. CASE i \notin offset + 1..end
    BY <1>1, <2>2
  <2> QED
    BY <2>1, <2>2
<1> HIDE DEF base, end, n, at
<1>3. [i \in 1..n |-> at(i)] \in Seq(V)
  BY <1>1, <1>2
<1>4. Written(old, offset, payload, io) = [i \in 1..n |-> at(i)]
  BY Zenon DEF Written, base, end, n, at, moved
<1> QED
  BY <1>3, <1>4

\* A command on the card spoils at most what good remembers.
LEMMA CardKeepsBackup ==
  ASSUME BackupInv, Idle, NEW card \in [Paths -> Nodes], CardBecomes(card),
         UNCHANGED <<saveVars, task>>
  PROVE  BackupInv'
<1>1. DOMAIN NoSave = {}
  BY NothingYet
<1>2. \A k \in DOMAIN good' : k \in SaveFiles /\ sd'[k] = File(good'[k])
  BY <1>1 DEF BackupInv, CardBecomes
<1>3. sd' \in [Paths -> Nodes] /\ Idle'
  BY DEF CardBecomes, Idle
<1> QED
  BY <1>2, <1>3 DEF BackupInv, saveVars

LEMMA FilesKeepBackup ==
  ASSUME BackupInv, FileCommands
  PROVE  BackupInv'
<1>1. PICK device \in {"sd", "save"}, p \in Paths :
        \/ \E offset \in 0..1 : FsWrite(device, p, offset)
        \/ FsDelete(device, p)
        \/ FsMkdir(device, p)
        \/ \E to \in Paths : FsRename(device, p, to) \/ FsCopy(device, p, to)
  BY DEF FileCommands
<1>2. Idle /\ UNCHANGED <<saveVars, task>>
  BY <1>1 DEF FsWrite, FsDelete, FsMkdir, FsRename, FsCopy, Carried
<1>3. sd \in [Paths -> Nodes] /\ \A q \in Paths : sd[q] \in Nodes /\ sd[q].data \in Data
  BY DEF BackupInv, Nodes
<1>4. ASSUME NEW offset \in 0..1, FsWrite(device, p, offset) PROVE BackupInv'
  <2>1. PICK io \in IoOutcomes :
          CardBecomes([sd EXCEPT ![p] = File(Written(@.data, offset, <<0>>, io))])
    BY <1>4 DEF FsWrite
  <2>2. io.moved \in Nat
    BY FileOpsAssumption DEF IoOutcomes, FileOpsAssumption
  <2>3. 0 \in Nat /\ offset \in Nat /\ <<0>> \in Seq(Nat) /\ sd[p].data \in Seq(Nat)
    BY <1>3 DEF Data
  <2>4. Written(sd[p].data, offset, <<0>>, io) \in Data
    BY <2>2, <2>3, WrittenIsSeq DEF Data
  <2>5. File(Written(sd[p].data, offset, <<0>>, io)) \in Nodes
    BY <2>4, FilesAreNodes
  <2>6. [sd EXCEPT ![p] = File(Written(@.data, offset, <<0>>, io))] \in [Paths -> Nodes]
    BY <1>3, <2>5
  <2> QED
    BY <1>2, <2>1, <2>6, CardKeepsBackup
<1>5. NoFile \in Nodes /\ Directory \in Nodes
  BY NothingYet DEF Directory, Nodes, Data
<1>6. CASE FsDelete(device, p)
  <2>1. [sd EXCEPT ![p] = NoFile] \in [Paths -> Nodes]
    BY <1>3, <1>5
  <2> QED
    BY <1>2, <1>6, <2>1, CardKeepsBackup DEF FsDelete
<1>7. CASE FsMkdir(device, p)
  <2>1. [sd EXCEPT ![p] = Directory] \in [Paths -> Nodes]
    BY <1>3, <1>5
  <2> QED
    BY <1>2, <1>7, <2>1, CardKeepsBackup DEF FsMkdir
<1>8. ASSUME NEW to \in Paths, FsRename(device, p, to) PROVE BackupInv'
  <2> DEFINE moved == [sd EXCEPT ![p] = NoFile]
  <2>1. [sd EXCEPT ![p] = NoFile, ![to] = sd[p]] \in [Paths -> Nodes]
    <3>1. moved \in [Paths -> Nodes]
      BY <1>3, <1>5
    <3> HIDE DEF moved
    <3>2. [moved EXCEPT ![to] = sd[p]] \in [Paths -> Nodes]
      BY <1>3, <3>1
    <3> QED
      BY <3>2 DEF moved
  <2> QED
    BY <1>2, <1>8, <2>1, CardKeepsBackup DEF FsRename
<1>9. ASSUME NEW to \in Paths, FsCopy(device, p, to) PROVE BackupInv'
  <2>1. PICK n \in 0..(IF p = to THEN 0 ELSE Len(sd[p].data)) :
          CardBecomes([sd EXCEPT ![to] = File(SubSeq(sd[p].data, 1, n))])
    BY <1>9 DEF FsCopy
  <2>2. Len(sd[p].data) \in Nat
    BY <1>3 DEF Data
  <2>3. n \in 0..Len(sd[p].data)
    BY <2>2
  <2>4. File(SubSeq(sd[p].data, 1, n)) \in Nodes
    BY <1>3, <2>3, PrefixIsData, FilesAreNodes
  <2>5. [sd EXCEPT ![to] = File(SubSeq(sd[p].data, 1, n))] \in [Paths -> Nodes]
    BY <1>3, <2>4
  <2> QED
    BY <1>2, <2>1, <2>5, CardKeepsBackup
<1> QED
  BY <1>1, <1>4, <1>6, <1>7, <1>8, <1>9

LEMMA CopyingKeepsBackup ==
  ASSUME BackupInv, TaskInv, NEW k \in SaveFiles, CopyTree(k)
  PROVE  BackupInv'
<1> DEFINE backup == task.cmd = "save.backup"
           source == IF backup THEN File(save_dev[k]) ELSE sd[k]
<1>1. PICK o \in CopyOutcomes(source) :
        /\ IF o.arrives THEN IF backup THEN ToCard(k, o.data) ELSE ToSave(k, o.data)
           ELSE UNCHANGED <<sd, save_dev>>
        /\ task' = [task EXCEPT !.todo = @ \ {k}, !.flawed = @ \/ o.flawed,
                                !.ok = @ /\ o.ok]
  BY DEF CopyTree
<1>2. k \in task.todo /\ k \in Paths /\ UNCHANGED <<save, good>>
  BY DEF CopyTree, Paths
<1>3. ~Idle
  BY <1>2 DEF Idle, NoTask
<1>4. source.data \in Data /\ (backup => source.data = save_dev[k] /\ k \in DOMAIN save_dev)
  BY <1>2, <1>3, FilesAreNodes DEF BackupInv, Nodes
<1> DEFINE Sound(r) ==
             /\ r.data \in Data /\ r.flawed \in BOOLEAN /\ r.ok \in BOOLEAN
             /\ r.ok /\ ~r.flawed => r.arrives /\ r.data = source.data
<1>5. Sound(o)
  <2> HIDE DEF source
  <2>1. <<>> \in Data
    BY DEF Data
  <2>2. Len(source.data) \in Nat
    BY <1>4 DEF Data
  <2>3. CASE o = Outcome(FALSE, <<>>, TRUE, TRUE)
    BY <2>1, <2>3 DEF Outcome
  <2>4. CASE \E opened \in BOOLEAN : o = Outcome(opened, <<>>, TRUE, FALSE)
    BY <2>1, <2>4 DEF Outcome
  <2>5. ASSUME NEW n \in 0..Len(source.data),
               o = Outcome(TRUE, SubSeq(source.data, 1, n), n # Len(source.data), TRUE)
        PROVE  Sound(o)
    BY <1>4, <2>5, PrefixIsData DEF Outcome
  <2> QED
    BY <2>3, <2>4, <2>5 DEF CopyOutcomes
<1>6. /\ task' \in Tasks /\ task'.cmd = task.cmd /\ task'.todo = task.todo \ {k}
      /\ task'.ok /\ ~task'.flawed => task.ok /\ ~task.flawed /\ o.ok /\ ~o.flawed
  BY <1>1, <1>5 DEF BackupInv, Tasks
<1>7. CASE backup
  <2>1. UNCHANGED save_dev /\ good = NoSave
    BY <1>1, <1>3, <1>7 DEF ToCard, BackupInv
  <2>2. \/ UNCHANGED sd /\ ~o.arrives
        \/ sd' = [sd EXCEPT ![k] = File(o.data)]
    BY <1>1, <1>7 DEF ToCard
  <2>3. File(o.data) \in Nodes
    BY <1>5, FilesAreNodes
  <2>4. sd' \in [Paths -> Nodes]
    BY <2>2, <2>3 DEF BackupInv
  <2>5. ASSUME task'.ok, ~task'.flawed, NEW f \in DOMAIN save_dev
        PROVE  f \in task'.todo \/ sd'[f] = File(save_dev[f])
    <3>1. sd' = [sd EXCEPT ![k] = File(save_dev[k])]
      BY <1>4, <1>5, <1>6, <1>7, <2>2, <2>5
    <3>2. f \in task.todo \/ sd[f] = File(save_dev[f])
      BY <1>3, <1>6, <1>7, <2>5 DEF BackupInv
    <3> QED
      BY <1>2, <1>6, <3>1, <3>2 DEF BackupInv
  <2> QED
    BY <1>2, <1>3, <1>6, <1>7, <2>1, <2>4, <2>5, NothingYet DEF BackupInv
<1>8. CASE ~backup
  <2>1. UNCHANGED sd
    BY <1>1, <1>8 DEF ToSave
  <2>2. \/ UNCHANGED save_dev
        \/ save_dev' = [f \in DOMAIN save_dev \cup {k} |-> IF f = k THEN o.data ELSE save_dev[f]]
    BY <1>1, <1>8 DEF ToSave
  <2>3. \A f \in DOMAIN save_dev' : f \in SaveFiles /\ save_dev'[f] \in Data
    BY <1>5, <2>2 DEF BackupInv
  <2> QED
    BY <1>2, <1>6, <1>8, <2>1, <2>3 DEF BackupInv
<1> QED
  BY <1>7, <1>8

LEMMA BackupInvariant == Spec => []BackupInv
<1>1. StorageInit => BackupInv
  <2> SUFFICES ASSUME StorageInit PROVE BackupInv
    OBVIOUS
  <2>1. sd = [p \in Paths |-> NoFile]
    BY DEF StorageInit
  <2>2. sd \in [Paths -> Nodes]
    BY <2>1, NothingYet
  <2>3. save = [k \in SaveFiles |-> <<1, 1>>]
    BY DEF StorageInit
  <2>4. <<1, 1>> \in Data
    BY DEF Data
  <2>5. \A k \in DOMAIN save : k \in SaveFiles /\ save[k] \in Data
    BY <2>3, <2>4
  <2>6. save_dev = NoSave /\ good = NoSave /\ task = NoTask
    BY DEF StorageInit
  <2> QED
    BY <2>2, <2>5, <2>6, NothingYet DEF BackupInv, Idle
<1>2. BackupInv /\ TaskInv /\ [Next]_vars => BackupInv'
  <2> SUFFICES ASSUME BackupInv, TaskInv, [Next]_vars PROVE BackupInv'
    OBVIOUS
  <2>1. ASSUME UNCHANGED <<sd, saveVars, task, good>> PROVE BackupInv'
    BY <2>1 DEF BackupInv, saveVars, Idle
  <2>2. CASE FileCommands
    BY <2>2, FilesKeepBackup
  <2>3. ASSUME NEW cmd, Refused(cmd) PROVE BackupInv'
    BY <2>1, <2>3 DEF Refused, Carried
  <2>4. ASSUME NEW cmd \in {"save.backup", "save.restore"}, NEW names \in SUBSET SaveFiles,
               StartCopy(cmd, names, save)
        PROVE  /\ UNCHANGED <<sd, save>> /\ save_dev' = save
               /\ task' \in Tasks /\ task'.cmd = cmd /\ task'.todo = names
    BY <2>4 DEF StartCopy, NoTask, Tasks
  <2>5. CASE BackupSave
    <3>1. DOMAIN save \in SUBSET SaveFiles
      BY DEF BackupInv
    <3>2. good' = NoSave
      BY <2>5 DEF BackupSave
    <3>3. /\ UNCHANGED <<sd, save>> /\ save_dev' = save
          /\ task' \in Tasks /\ task'.cmd = "save.backup" /\ task'.todo = DOMAIN save
      BY <2>4, <2>5, <3>1 DEF BackupSave
    <3> QED
      BY <3>2, <3>3, NothingYet DEF BackupInv
  <2>6. CASE RestoreSave
    <3>1. {k \in SaveFiles : sd[k].kind # "none"} \in SUBSET SaveFiles
      OBVIOUS
    <3>2. good' = good
      BY <2>6 DEF RestoreSave
    <3>3. /\ UNCHANGED <<sd, save>> /\ save_dev' = save
          /\ task' \in Tasks /\ task'.cmd = "save.restore"
      BY <2>4, <2>6, <3>1 DEF RestoreSave
    <3> QED
      BY <3>2, <3>3 DEF BackupInv
  <2>7. ASSUME NEW k \in SaveFiles, CopyTree(k) PROVE BackupInv'
    BY <2>7, CopyingKeepsBackup
  <2>8. CASE CopyFails
    <3>1. task' \in Tasks /\ task'.cmd = task.cmd /\ task'.todo = {} /\ ~task'.ok /\ ~Idle
      BY <2>8 DEF CopyFails, BackupInv, Tasks
    <3> QED
      BY <2>8, <3>1 DEF CopyFails, BackupInv, saveVars
  <2>9. CASE EndCopy
    <3>1. /\ task' = NoTask /\ save_dev' = NoSave /\ UNCHANGED sd
          /\ save' = save \/ save' = save_dev
          /\ \/ good' = good
             \/ task.cmd = "save.backup" /\ task.ok /\ ~task.flawed /\ good' = save_dev
      BY <2>9 DEF EndCopy
    <3>2. \A k \in DOMAIN good' : k \in SaveFiles /\ sd[k] = File(good'[k])
      BY <2>9, <3>1 DEF EndCopy, BackupInv
    <3> QED
      BY <3>1, <3>2, NothingYet DEF BackupInv, Idle
  <2>10. ASSUME NEW k \in SaveFiles, GameSaves(k) PROVE BackupInv'
    <3>1. PICK v \in 2..MaxVersion :
            save' = [f \in DOMAIN save \cup {k} |-> IF f = k THEN <<v, v>> ELSE save[f]]
      BY <2>10 DEF GameSaves
    <3>2. <<v, v>> \in Data
      BY DEF Data
    <3>3. \A f \in DOMAIN save' : f \in SaveFiles /\ save'[f] \in Data
      BY <3>1, <3>2 DEF BackupInv
    <3>4. UNCHANGED <<sd, save_dev, task, good>>
      BY <2>10 DEF GameSaves
    <3> QED
      BY <3>3, <3>4 DEF BackupInv, Idle
  <2>11. CASE PowerLoss
    BY <2>11, NothingYet DEF PowerLoss, BackupInv, Idle
  <2>12. CASE SaveMount \/ SaveUnmount \/ Boots \/ UNCHANGED vars
    BY <2>1, <2>12 DEF SaveMount, SaveUnmount, Boots, vars
  <2>13. CASE JournalCommands
    BY <2>1, <2>13 DEF JournalCommands, FsOnJournal
  <2> QED
    BY <2>2, <2>3, <2>5, <2>6, <2>7, <2>8, <2>9, <2>10, <2>11, <2>12, <2>13 DEF Next
<1>3. QED
  BY <1>1, <1>2, TaskInvariant, PTL DEF Spec

\* A backup that was answered ok and suffered no I/O error still holds the save
\* as it was, across commands, restores, failed copies and power losses
\* (fs.cpp:239-297).
THEOREM BackupsStay == Spec => []BackupHoldsSave
<1>1. BackupInv => BackupHoldsSave
  BY DEF BackupInv, BackupHoldsSave
<1>2. QED
  BY <1>1, BackupInvariant, PTL

(***************************************************************************)
(* The journal                                                             *)
(***************************************************************************)
\* A sequence of entries that ends with the n-th operation written down.
TailOf(log, n) == \A i \in 1..Len(log) : log[i] = n - Len(log) + i

\* What the agent alone makes of the two files.
KeptTail ==
  /\ journal \in Seq(Nat) /\ journal1 \in Seq(Nat)
  /\ Len(journal1) + Len(journal) > JournalCap
  /\ TailOf(journal1 \o journal, done - missed)

JournalInv ==
  /\ done \in Nat /\ missed \in Nat /\ missed <= done
  /\ untouched => KeptTail

LEMMA Joined ==
  ASSUME NEW old \in Seq(Nat), NEW log \in Seq(Nat)
  PROVE  /\ Len(old \o log) = Len(old) + Len(log)
         /\ \A i \in 1..Len(old) : (old \o log)[i] = old[i]
         /\ \A j \in 1..Len(log) : (old \o log)[Len(old) + j] = log[j]
OBVIOUS

LEMMA LongerTail ==
  ASSUME NEW old \in Seq(Nat), NEW log \in Seq(Nat), NEW n \in Nat,
         NEW e \in Nat, e = n + 1, TailOf(old \o log, n)
  PROVE  /\ Append(log, e) \in Seq(Nat) /\ Len(Append(log, e)) = Len(log) + 1
         /\ TailOf(old \o Append(log, e), n + 1)
         /\ TailOf(Append(log, e) \o <<>>, n + 1)
<1> DEFINE a == Len(old)
           b == Len(log)
           grown == Append(log, e)
<1>1. a \in Nat /\ b \in Nat
  OBVIOUS
<1>2. grown \in Seq(Nat) /\ Len(grown) = b + 1 /\ grown[b + 1] = e
  OBVIOUS
<1>3. \A i \in 1..b : grown[i] = log[i]
  OBVIOUS
<1>4. Len(old \o log) = a + b
  OBVIOUS
<1>5. Len(old \o grown) = a + b + 1
  BY <1>2
<1>6. \A i \in 1..a : (old \o grown)[i] = old[i] /\ (old \o log)[i] = old[i]
  BY <1>2
<1>7. \A j \in 1..b : (old \o log)[a + j] = log[j]
  OBVIOUS
<1>8. \A j \in 1..b + 1 : (old \o grown)[a + j] = grown[j]
  BY <1>2
<1>9. \A i \in 1..a + b : (old \o log)[i] = n - (a + b) + i
  BY <1>4 DEF TailOf
<1>10. \A j \in 1..b + 1 : grown[j] = n - b + j
  <2> SUFFICES ASSUME NEW j \in 1..b + 1 PROVE grown[j] = n - b + j
    OBVIOUS
  <2>1. CASE j = b + 1
    BY <1>1, <1>2, <2>1
  <2>2. CASE j \in 1..b
    <3>1. grown[j] = (old \o log)[a + j] /\ a + j \in 1..a + b
      BY <1>1, <1>3, <1>7, <2>2
    <3>2. (old \o log)[a + j] = n - (a + b) + (a + j)
      BY <1>9, <3>1
    <3>3. n - (a + b) + (a + j) = n - b + j
      BY <1>1, <2>2
    <3> QED
      BY <3>1, <3>2, <3>3
  <2> QED
    BY <1>1, <2>1, <2>2
<1>11. TailOf(old \o grown, n + 1)
  <2> SUFFICES ASSUME NEW i \in 1..a + b + 1
               PROVE  (old \o grown)[i] = n + 1 - (a + b + 1) + i
    <3> HIDE DEF a, b, grown
    <3> QED BY <1>5 DEF TailOf
  <2>1. CASE i \in 1..a
    <3>1. (old \o log)[i] = n - (a + b) + i
      BY <1>1, <1>9, <2>1
    <3>2. n - (a + b) + i = n + 1 - (a + b + 1) + i
      BY <1>1
    <3> QED
      BY <1>6, <2>1, <3>1, <3>2
  <2>2. CASE i \notin 1..a
    <3>1. PICK j \in 1..b + 1 : i = a + j
      <4>1. i - a \in 1..b + 1 /\ i = a + (i - a)
        BY <1>1, <2>2
      <4> QED
        BY <4>1
    <3>2. (old \o grown)[i] = n - b + j
      BY <1>8, <1>10, <3>1
    <3>3. n - b + j = n + 1 - (a + b + 1) + i
      BY <1>1, <3>1
    <3> QED
      BY <3>2, <3>3
  <2> QED
    BY <2>1, <2>2
<1>12. TailOf(grown \o <<>>, n + 1)
  <2>1. grown \o <<>> = grown
    BY <1>2
  <2>2. \A j \in 1..b + 1 : n - b + j = n + 1 - (b + 1) + j
    BY <1>1
  <2> QED
    BY <1>2, <1>10, <2>1, <2>2 DEF TailOf
<1> QED
  BY <1>2, <1>11, <1>12

LEMMA AppendsKeepTail ==
  ASSUME JournalInv, JournalAppend
  PROVE  JournalInv'
<1> DEFINE n == done - missed
           grown == Append(journal, n + 1)
<1>1. done' = done + 1 /\ n \in Nat /\ done' - missed = n + 1
  BY DEF JournalAppend, AppendTo, JournalInv
<1>2. \/ missed' = missed /\ journal' = grown /\ journal1' = journal1
      \/ /\ missed' = missed /\ journal' = <<>> /\ journal1' = grown
         /\ ~(Len(grown) <= JournalCap)
      \/ missed' = missed + 1 /\ journal' = journal /\ journal1' = journal1
  BY <1>1, Zenon DEF JournalAppend, AppendTo
<1>3. done' \in Nat /\ missed' \in Nat /\ missed' <= done'
  BY <1>1, <1>2 DEF JournalInv
<1>4. ASSUME untouched' PROVE KeptTail'
  <2>1. untouched /\ KeptTail
    BY <1>4 DEF JournalAppend, JournalInv
  <2>2. /\ grown \in Seq(Nat) /\ Len(grown) = Len(journal) + 1
        /\ TailOf(journal1 \o grown, n + 1) /\ TailOf(grown \o <<>>, n + 1)
    <3> HIDE DEF n
    <3>1. TailOf(journal1 \o journal, n) /\ journal \in Seq(Nat) /\ journal1 \in Seq(Nat)
      BY <2>1 DEF KeptTail, n
    <3>2. n + 1 \in Nat
      BY <1>1
    <3> QED
      BY <1>1, <3>1, <3>2, LongerTail
  <2>3. /\ Len(journal) \in Nat /\ Len(journal1) \in Nat /\ JournalCap \in Nat
        /\ <<>> \in Seq(Nat) /\ Len(<<>>) = 0
    BY <2>1, StorageAssumption DEF KeptTail
  <2>4. missed \in Nat /\ Len(journal1) + Len(journal) > JournalCap
    BY <2>1 DEF JournalInv, KeptTail
  <2> HIDE DEF grown
  <2>5. CASE missed' = missed /\ journal' = grown /\ journal1' = journal1
    <3>1. done' - missed' = n + 1
      BY <1>1, <2>5
    <3>2. Len(journal1') + Len(journal') > JournalCap
      BY <2>2, <2>3, <2>4, <2>5
    <3> HIDE DEF n
    <3> QED
      BY <2>1, <2>2, <2>5, <3>1, <3>2 DEF KeptTail
  <2>6. CASE missed' = missed /\ journal' = <<>> /\ journal1' = grown /\ ~(Len(grown) <= JournalCap)
    <3>1. done' - missed' = n + 1
      BY <1>1, <2>6
    <3>2. Len(journal1') + Len(journal') > JournalCap
      BY <2>2, <2>3, <2>6
    <3> HIDE DEF n
    <3> QED
      BY <2>2, <2>3, <2>6, <3>1, <3>2 DEF KeptTail
  <2>7. CASE missed' = missed + 1 /\ journal' = journal /\ journal1' = journal1
    <3>1. done' - missed' = done - missed
      BY <1>1, <2>4, <2>7 DEF JournalInv
    <3> QED
      BY <2>1, <2>7, <3>1 DEF KeptTail
  <2> QED
    BY <1>2, <2>5, <2>6, <2>7
<1> QED
  BY <1>3, <1>4 DEF JournalInv

\* A client that writes to the files itself ends what the journal promises.
LEMMA TouchedIsOver ==
  ASSUME JournalInv, JournalCommands
  PROVE  JournalInv'
<1>1. untouched' = FALSE /\ done' = done + 1 /\ (missed' = missed \/ missed' = missed + 1)
  BY DEF JournalCommands, FsOnJournal, AppendTo
<1> QED
  BY <1>1 DEF JournalInv

LEMMA JournalInvariant == Spec => []JournalInv
<1>1. StorageInit => JournalInv
  <2> SUFFICES ASSUME StorageInit PROVE JournalInv
    OBVIOUS
  <2> DEFINE m == JournalCap + 1
  <2>1. journal1 = [i \in 1..m |-> i] /\ journal = <<JournalCap + 2>>
    BY DEF StorageInit
  <2>2. done = JournalCap + 2 /\ missed = 0 /\ JournalCap \in Nat /\ m \in Nat
    BY StorageAssumption DEF StorageInit
  <2>3. JournalCap + 2 = m + 1
    BY <2>2
  <2> HIDE DEF m
  <2>4. journal \in Seq(Nat) /\ Len(journal) = 1 /\ journal[1] = m + 1
    BY <2>1, <2>2, <2>3
  <2>5. journal1 \in Seq(Nat) /\ Len(journal1) = m /\ \A i \in 1..m : journal1[i] = i
    BY <2>1, <2>2
  <2>6. /\ Len(journal1 \o journal) = m + 1
        /\ \A i \in 1..m : (journal1 \o journal)[i] = journal1[i]
        /\ (journal1 \o journal)[m + 1] = journal[1]
    <3>1. /\ Len(journal1 \o journal) = Len(journal1) + Len(journal)
          /\ \A i \in 1..Len(journal1) : (journal1 \o journal)[i] = journal1[i]
          /\ \A j \in 1..Len(journal) : (journal1 \o journal)[Len(journal1) + j] = journal[j]
      BY <2>4, <2>5, Joined
    <3>2. 1 \in 1..Len(journal)
      BY <2>4
    <3>3. (journal1 \o journal)[Len(journal1) + 1] = journal[1]
      BY <3>1, <3>2, Zenon
    <3> QED
      BY <2>4, <2>5, <3>1, <3>3
  <2>7. \A i \in 1..m + 1 : (journal1 \o journal)[i] = i
    <3> SUFFICES ASSUME NEW i \in 1..m + 1 PROVE (journal1 \o journal)[i] = i
      OBVIOUS
    <3>1. CASE i \in 1..m
      BY <2>5, <2>6, <3>1
    <3>2. CASE i = m + 1
      BY <2>4, <2>6, <3>2
    <3>3. i \in 1..m \/ i = m + 1
      BY <2>2
    <3> QED
      BY <3>1, <3>2, <3>3
  <2>8. TailOf(journal1 \o journal, m + 1)
    <3>1. \A i \in 1..m + 1 : i = m + 1 - (m + 1) + i
      BY <2>2
    <3>2. Len(journal1 \o journal) = m + 1
      BY <2>6
    <3> DEFINE kept == journal1 \o journal
    <3>3. Len(kept) = m + 1 /\ \A i \in 1..m + 1 : kept[i] = i
      BY <2>7, <3>2
    <3> HIDE DEF kept
    <3>4. TailOf(kept, m + 1)
      BY <3>1, <3>3 DEF TailOf
    <3> QED
      BY <3>4 DEF kept
  <2>9. done - missed = m + 1 /\ done \in Nat /\ missed \in Nat /\ missed <= done
    BY <2>2, <2>3
  <2>10. Len(journal1) + Len(journal) > JournalCap
    BY <2>2, <2>3, <2>4, <2>5
  <2> QED
    BY <2>4, <2>5, <2>8, <2>9, <2>10 DEF JournalInv, KeptTail
<1>2. JournalInv /\ [Next]_vars => JournalInv'
  <2> SUFFICES ASSUME JournalInv, [Next]_vars PROVE JournalInv'
    OBVIOUS
  <2>1. ASSUME UNCHANGED journalVars PROVE JournalInv'
    BY <2>1 DEF JournalInv, KeptTail, journalVars
  <2>2. ASSUME NEW cmd, Carried(cmd) PROVE JournalInv'
    BY <2>2, AppendsKeepTail DEF Carried
  <2>3. CASE FileCommands
    BY <2>2, <2>3 DEF FileCommands, FsWrite, FsDelete, FsMkdir, FsRename, FsCopy
  <2>4. ASSUME NEW cmd, Refused(cmd) PROVE JournalInv'
    BY <2>2, <2>4 DEF Refused
  <2>5. CASE EndCopy
    BY <2>5, AppendsKeepTail DEF EndCopy
  <2>6. CASE \/ BackupSave \/ RestoreSave \/ CopyFails \/ SaveMount \/ SaveUnmount
             \/ Boots \/ PowerLoss \/ UNCHANGED vars
             \/ \E k \in SaveFiles : CopyTree(k) \/ GameSaves(k)
    BY <2>1, <2>6 DEF BackupSave, RestoreSave, StartCopy, CopyFails, SaveMount,
       SaveUnmount, Boots, PowerLoss, CopyTree, GameSaves, vars
  <2> QED
    BY <2>3, <2>4, <2>5, <2>6, TouchedIsOver DEF Next
<1>3. QED
  BY <1>1, <1>2, PTL DEF Spec

\* journal.log.1 and journal.log together are the latest operations that could be
\* written down, in order, whatever rotations fail and as long as no client writes
\* to these files itself (guards.cpp:47-67).
THEOREM JournalTellsTheTail == Spec => []JournalIsTail
<1>1. JournalInv => JournalIsTail
  <2> SUFFICES ASSUME JournalInv, untouched
               PROVE  LET kept == journal1 \o journal IN
                      /\ Len(kept) > JournalCap
                      /\ \A i \in DOMAIN kept : kept[i] = done - missed - Len(kept) + i
    BY DEF JournalIsTail
  <2> DEFINE kept == journal1 \o journal
  <2>1. KeptTail
    BY DEF JournalInv
  <2>2. Len(kept) = Len(journal1) + Len(journal) /\ DOMAIN kept = 1..Len(kept)
    BY <2>1 DEF KeptTail
  <2>3. \A i \in 1..Len(kept) : kept[i] = done - missed - Len(kept) + i
    BY <2>1 DEF KeptTail, TailOf
  <2>4. Len(kept) > JournalCap
    BY <2>1, <2>2 DEF KeptTail
  <2> QED
    BY <2>2, <2>3, <2>4
<1>2. QED
  BY <1>1, JournalInvariant, PTL

(*****************************************************************************)
(* The searches of the card, for any tree, any lines and any limit           *)
(*****************************************************************************)

TreeEntries == [depth : Nat, kind : {"dir", "closed", "file"}, matches : BOOLEAN]
Walks == [found : Nat, scanned : Nat, inside : Nat]

LEMMA VisitTyped ==
  ASSUME NEW walk \in Walks, NEW entry \in TreeEntries, NEW limit \in Nat
  PROVE  Visit(walk, entry, limit) \in Walks
BY DEF Visit, Walks, TreeEntries

\* The walk of fs.find takes the entries one by one.
LEMMA WalksInOrder ==
  ASSUME NEW tree \in Seq(TreeEntries), NEW limit \in Nat
  PROVE  \E walk \in [0..Len(tree) -> Walks] :
            /\ walk[0] = [found |-> 0, scanned |-> 0, inside |-> 0]
            /\ \A i \in 0..Len(tree) - 1 : walk[i + 1] = Visit(walk[i], tree[i + 1], limit)
            /\ WalkFind(tree, limit) = walk[Len(tree)]
<1> DEFINE m == Len(tree)
           start == [found |-> 0, scanned |-> 0, inside |-> 0]
           Solves(w) == w = [i \in 0..m |-> IF i = 0 THEN start
                                            ELSE Visit(w[i - 1], tree[i], limit)]
           walk == CHOOSE w : Solves(w)
<1>1. /\ m \in Nat /\ start \in Walks
      /\ \A i \in 0..m - 1 : i + 1 \in 1..m /\ tree[i + 1] \in TreeEntries
  BY DEF Walks
<1> DEFINE step == [i \in 0..m - 1 |-> [w \in Walks |-> Visit(w, tree[i + 1], limit)]]
<1>2. step \in [0..m - 1 -> [Walks -> Walks]]
  <2> HIDE DEF m
  <2> QED BY <1>1, VisitTyped
<1>3. PICK g : IterationTo(m, g, Walks, start, step)
  <2> HIDE DEF step, m, start, walk
  <2> QED BY <1>1, <1>2, IteratesTo
<1>4. /\ g \in [0..m -> Walks] /\ g[0] = start
      /\ \A i \in 0..m - 1 : g[i + 1] = Visit(g[i], tree[i + 1], limit)
  <2> HIDE DEF m, start, walk
  <2>1. \A i \in 0..m - 1 : g[i] \in Walks
    BY <1>1, <1>3 DEF IterationTo
  <2> QED BY <1>3, <2>1 DEF IterationTo
<1> HIDE DEF m, step, start
<1>5. Solves(g)
  <2> HIDE DEF walk
  <2>1. \A i \in 0..m : i # 0 => i - 1 \in 0..m - 1 /\ (i - 1) + 1 = i
    BY <1>1
  <2>2. \A i \in 0..m : i # 0 => g[i] = Visit(g[i - 1], tree[i], limit)
    BY <1>4, <2>1
  <2>3. \A i \in 0..m : g[i] = IF i = 0 THEN start ELSE Visit(g[i - 1], tree[i], limit)
    BY <1>4, <2>2
  <2> QED BY <1>4, <2>3
<1>6. Solves(walk)
  <2> HIDE DEF Solves
  <2> QED BY <1>5
<1>7. WalkFind(tree, limit) = walk[m]
  BY DEF WalkFind, m, start
<1> HIDE DEF walk
<1>8. /\ walk[0] = start
      /\ \A i \in 0..m - 1 : walk[i + 1] = Visit(walk[i], tree[i + 1], limit)
  <2>1. \A i \in 0..m - 1 : i + 1 \in 0..m /\ i + 1 # 0 /\ (i + 1) - 1 = i
    BY <1>1
  <2>2. 0 \in 0..m
    BY <1>1
  <2> QED BY <1>6, <2>1, <2>2
<1>9. walk \in [0..m -> Walks]
  <2> DEFINE T == {i \in 0..m : walk[i] \in Walks}
  <2>1. 0 \in T
    BY <1>1, <1>8
  <2>2. ASSUME NEW i \in 0..m - 1, i \in T PROVE i + 1 \in T
    <3>1. walk[i] \in Walks /\ tree[i + 1] \in TreeEntries /\ i + 1 \in 0..m
      BY <1>1, <2>2
    <3>2. walk[i + 1] \in Walks
      BY <1>8, <3>1, VisitTyped
    <3> QED BY <3>1, <3>2
  <2> HIDE DEF T
  <2>3. \A i \in 0..m : i \in T
    BY <1>1, <2>1, <2>2, UpTo
  <2>4. \A i \in 0..m : walk[i] \in Walks
    BY <2>3 DEF T
  <2>5. walk = [i \in 0..m |-> walk[i]]
    BY <1>6
  <2> QED BY <2>4, <2>5
<1> QED BY <1>7, <1>8, <1>9 DEF m, start

\* The trees of FindMissesTheHidden, of any size and depth.
IsTree(tree) ==
  /\ tree \in Seq(TreeEntries)
  /\ tree # <<>> => tree[1].depth = 0
  /\ \A i \in 2..Len(tree) :
        tree[i].depth <= tree[i - 1].depth + (IF tree[i - 1].kind = "file" THEN 0 ELSE 1)

\* The matches among the first i entries that are not hidden.
Matching(tree, i) == {j \in 1..i : tree[j].matches /\ ~Hidden(tree, j)}

\* The depth at which the walk stands after the first i entries: where the last entry
\* it visited left it, all that came since being deeper.
StandsAt(tree, i, inside) ==
  IF i = 0 THEN inside = 0
  ELSE \E last \in 1..i :
         /\ ~Hidden(tree, last)
         /\ inside = (IF tree[last].kind = "dir" /\ tree[last].depth < MaxWalkDepth
                      THEN tree[last].depth + 1 ELSE tree[last].depth)
         /\ \A k \in last + 1..i : tree[k].depth > inside

\* No limit is met, every match so far is counted and the walk knows where it is.
Complete(tree, i, walk) ==
  walk.found = Cardinality(Matching(tree, i)) /\ StandsAt(tree, i, walk.inside)

\* The walk skips exactly the hidden entries.
LEMMA SkipsTheHidden ==
  ASSUME NEW tree, IsTree(tree), NEW i \in 0..Len(tree) - 1, NEW inside \in Nat,
         StandsAt(tree, i, inside)
  PROVE  Hidden(tree, i + 1) <=> tree[i + 1].depth > inside
<1> DEFINE d(j) == tree[j].depth
<1>0. MaxWalkDepth \in Nat
  BY FileOpsAssumption DEF FileOpsAssumption
<1>1. /\ Len(tree) \in Nat /\ i \in Nat /\ i + 1 \in 1..Len(tree)
      /\ \A j \in 1..Len(tree) : d(j) \in Nat /\ tree[j].kind \in {"dir", "closed", "file"}
  <2>1. /\ Len(tree) \in Nat /\ i \in Nat /\ i + 1 \in 1..Len(tree)
        /\ \A j \in 1..Len(tree) : tree[j] \in TreeEntries
    BY DEF IsTree
  <2> QED BY <2>1 DEF TreeEntries
<1>2. CASE i = 0
  <2>1. d(i + 1) = 0 /\ inside = 0
    BY <1>1, <1>2 DEF IsTree, StandsAt
  <2>2. ~Sealed(tree, i + 1)
    BY <1>2 DEF Sealed
  <2> QED BY <1>0, <2>1, <2>2 DEF Hidden
<1>3. CASE i # 0
  <2>1. PICK last \in 1..i :
           /\ ~Hidden(tree, last)
           /\ inside = (IF tree[last].kind = "dir" /\ d(last) < MaxWalkDepth
                        THEN d(last) + 1 ELSE d(last))
           /\ \A k \in last + 1..i : d(k) > inside
    BY <1>3 DEF StandsAt
  <2>2. last \in 1..Len(tree) /\ last + 1 \in 2..Len(tree) /\ (last + 1) - 1 = last
    BY <1>1
  <2>3. d(last) \in Nat /\ d(last) <= MaxWalkDepth /\ ~Sealed(tree, last)
    BY <1>0, <1>1, <2>1, <2>2 DEF Hidden
  <2>4. ASSUME d(i + 1) > inside PROVE Hidden(tree, i + 1)
    <3>1. \A k \in last + 1..i + 1 : d(k) > inside
      BY <1>1, <2>1, <2>4
    <3>2. d(last + 1) > inside
      BY <1>1, <2>2, <3>1
    <3>3. d(last + 1) <= d(last) + (IF tree[last].kind = "file" THEN 0 ELSE 1)
      <4>1. tree[last + 1].depth <= tree[(last + 1) - 1].depth
                                      + (IF tree[(last + 1) - 1].kind = "file" THEN 0 ELSE 1)
        BY <2>2 DEF IsTree
      <4> QED BY <2>2, <4>1
    <3>4. /\ inside = d(last) /\ tree[last].kind # "file"
          /\ tree[last].kind = "dir" => d(last) = MaxWalkDepth
      BY <1>0, <1>1, <2>1, <2>2, <2>3, <3>2, <3>3
    <3>5. CASE tree[last].kind = "dir"
      BY <1>0, <1>1, <2>4, <3>4, <3>5 DEF Hidden
    <3>6. CASE tree[last].kind = "closed"
      <4>1. last \in 1..(i + 1) - 1
        BY <1>1
      <4>2. \A k \in last + 1..i + 1 : d(k) > d(last)
        BY <3>1, <3>4
      <4> QED BY <3>6, <4>1, <4>2 DEF Hidden, Sealed
    <3> QED BY <1>1, <2>2, <3>4, <3>5, <3>6
  <2>5. ASSUME ~(d(i + 1) > inside), Hidden(tree, i + 1) PROVE FALSE
    <3>1. d(i + 1) <= inside /\ inside <= MaxWalkDepth
      BY <1>0, <1>1, <2>1, <2>3, <2>5
    <3>2. Sealed(tree, i + 1)
      BY <1>0, <1>1, <2>5, <3>1 DEF Hidden
    <3>3. PICK j \in 1..(i + 1) - 1 :
             tree[j].kind = "closed" /\ \A k \in j + 1..i + 1 : d(k) > d(j)
      BY <3>2 DEF Sealed
    <3>4. j \in 1..i /\ j \in 1..Len(tree) /\ d(j) \in Nat /\ i + 1 \in j + 1..i + 1
      BY <1>1
    <3>5. d(i + 1) > d(j)
      BY <3>3, <3>4
    <3>6. CASE j > last
      <4>1. j \in last + 1..i
        BY <3>4, <3>6
      <4> QED BY <1>1, <2>1, <3>1, <3>4, <3>5, <4>1
    <3>7. CASE j = last
      BY <1>1, <2>1, <2>3, <3>1, <3>3, <3>5, <3>7
    <3>8. CASE j < last
      <4>1. j \in 1..last - 1 /\ \A k \in j + 1..last : k \in j + 1..i + 1
        BY <1>1, <3>4, <3>8
      <4>2. Sealed(tree, last)
        BY <3>3, <4>1 DEF Sealed
      <4> QED BY <2>3, <4>2
    <3> QED BY <1>1, <3>4, <3>6, <3>7, <3>8
  <2> QED BY <2>4, <2>5
<1> QED BY <1>2, <1>3

LEMMA OneMoreEntry ==
  ASSUME NEW tree, IsTree(tree), NEW limit \in Nat, NEW i \in 0..Len(tree) - 1,
         NEW walk \in Walks, walk.found < limit, walk.scanned < MaxScan,
         Complete(tree, i, walk)
  PROVE  LET next == Visit(walk, tree[i + 1], limit) IN
         next.found <= limit /\ Complete(tree, i + 1, next)
<1> DEFINE e == tree[i + 1]
           next == Visit(walk, e, limit)
<1>0. MaxWalkDepth \in Nat /\ MaxScan \in Nat
  BY FileOpsAssumption DEF FileOpsAssumption
<1>1. /\ Len(tree) \in Nat /\ i \in Nat /\ i + 1 \in 1..Len(tree)
      /\ \A j \in 1..Len(tree) : tree[j] \in TreeEntries
  BY DEF IsTree
<1>2. e \in TreeEntries /\ e.depth \in Nat
  BY <1>1 DEF TreeEntries
<1>3. walk.found \in Nat /\ walk.scanned \in Nat /\ walk.inside \in Nat
  BY DEF Walks
<1>4. Hidden(tree, i + 1) <=> e.depth > walk.inside
  BY <1>3, SkipsTheHidden DEF Complete
<1>5. IsFiniteSet(Matching(tree, i)) /\ i + 1 \notin Matching(tree, i)
  <2>1. IsFiniteSet(1..i)
    BY <1>1, FS_Interval
  <2>2. Matching(tree, i) \subseteq 1..i
    BY DEF Matching
  <2>3. i + 1 \notin 1..i
    BY <1>1
  <2> QED BY <2>1, <2>2, <2>3, FS_Subset
<1>6. Matching(tree, i + 1) = IF e.matches /\ ~Hidden(tree, i + 1)
                              THEN Matching(tree, i) \cup {i + 1} ELSE Matching(tree, i)
  <2>1. 1..(i + 1) = (1..i) \cup {i + 1}
    BY <1>1
  <2> HIDE DEF e
  <2>2. \A j : j \in Matching(tree, i + 1) <=> j \in Matching(tree, i) \/
              (j = i + 1 /\ e.matches /\ ~Hidden(tree, i + 1))
    BY <2>1 DEF Matching, e
  <2> QED BY <2>2
<1>7. Cardinality(Matching(tree, i + 1)) =
         walk.found + (IF e.matches /\ ~Hidden(tree, i + 1) THEN 1 ELSE 0)
  <2>1. walk.found = Cardinality(Matching(tree, i))
    BY DEF Complete
  <2> HIDE DEF e
  <2>2. CASE e.matches /\ ~Hidden(tree, i + 1)
    <3>1. Cardinality(Matching(tree, i) \cup {i + 1}) = Cardinality(Matching(tree, i)) + 1
      BY <1>5, FS_AddElement
    <3> QED BY <1>6, <2>1, <2>2, <3>1
  <2>3. CASE ~(e.matches /\ ~Hidden(tree, i + 1))
    BY <1>3, <1>6, <2>1, <2>3
  <2> QED BY <2>2, <2>3
<1>8. CASE e.depth > walk.inside
  <2>1. next = walk /\ Hidden(tree, i + 1)
    BY <1>4, <1>8 DEF Visit
  <2>2. walk.found = Cardinality(Matching(tree, i + 1))
    BY <1>3, <1>7, <2>1
  <2>3. i + 1 # 0 /\ i + 1 \in 1..i + 1
    BY <1>1
  <2>4. StandsAt(tree, i + 1, walk.inside)
    <3>1. CASE i = 0
      <4>1. e.depth = 0 /\ walk.inside = 0
        BY <1>1, <3>1 DEF IsTree, Complete, StandsAt
      <4> QED BY <1>8, <4>1
    <3>2. CASE i # 0
      <4>1. PICK last \in 1..i :
               /\ ~Hidden(tree, last)
               /\ walk.inside = (IF tree[last].kind = "dir" /\ tree[last].depth < MaxWalkDepth
                                 THEN tree[last].depth + 1 ELSE tree[last].depth)
               /\ \A k \in last + 1..i : tree[k].depth > walk.inside
        BY <3>2 DEF Complete, StandsAt
      <4>2. last \in 1..i + 1 /\ \A k \in last + 1..i + 1 : k \in last + 1..i \/ k = i + 1
        BY <1>1
      <4> QED BY <1>8, <2>3, <4>1, <4>2 DEF StandsAt
    <3> QED BY <3>1, <3>2
  <2> QED BY <1>3, <2>1, <2>2, <2>4 DEF Complete
<1>9. CASE ~(e.depth > walk.inside)
  <2>1. ~Hidden(tree, i + 1)
    BY <1>4, <1>9
  <2>2. next = [found |-> walk.found + (IF e.matches THEN 1 ELSE 0),
                scanned |-> walk.scanned + 1,
                inside |-> IF e.kind = "dir" /\ e.depth < MaxWalkDepth
                           THEN e.depth + 1 ELSE e.depth]
    <3>1. ~(walk.found >= limit \/ walk.scanned >= MaxScan \/ e.depth > walk.inside)
      BY <1>0, <1>3, <1>9
    <3> HIDE DEF e
    <3> QED BY <3>1 DEF Visit
  <2> HIDE DEF next, e
  <2>3. next.found = walk.found + (IF e.matches THEN 1 ELSE 0)
    BY <2>2
  <2>4. next.found = Cardinality(Matching(tree, i + 1)) /\ next.found <= limit
    BY <1>3, <1>7, <2>1, <2>3
  <2>5. i + 1 # 0 /\ i + 1 \in 1..i + 1 /\ \A k \in (i + 1) + 1..i + 1 : FALSE
    BY <1>1
  <2>6. next.inside = (IF tree[i + 1].kind = "dir" /\ tree[i + 1].depth < MaxWalkDepth
                       THEN tree[i + 1].depth + 1 ELSE tree[i + 1].depth)
    BY <2>2 DEF e
  <2> DEFINE inside == next.inside
  <2> HIDE DEF inside
  <2>7. StandsAt(tree, i + 1, inside)
    BY <2>1, <2>5, <2>6 DEF StandsAt, inside
  <2>8. next.found <= limit /\ Complete(tree, i + 1, next)
    BY <2>4, <2>7 DEF Complete, inside
  <2> QED BY <2>8 DEF next, e
<1> QED BY <1>8, <1>9

\* What fs.find leaves out ("Say so rather than quietly returning a partial answer",
\* fs.cpp:468): unless it tells of the limit or of the scan cap, it has counted every match
\* except those that are hidden, below kMaxWalkDepth or in a directory that cannot be
\* opened, in a tree of any size and depth. Of the hidden ones it does not tell.
THEOREM FindIsComplete ==
  ASSUME NEW tree, IsTree(tree), NEW limit \in Nat
  PROVE  LET answer == FsFind(tree, limit) IN
         /\ answer.count <= limit
         /\ \/ answer.truncated_by_limit \/ answer.truncated_by_scan_cap
            \/ answer.count = Cardinality(Matching(tree, Len(tree)))
<1> DEFINE m == Len(tree)
           Sound(i, w) == /\ w.found <= limit
                          /\ w.found >= limit \/ w.scanned >= MaxScan \/ Complete(tree, i, w)
<1>1. tree \in Seq(TreeEntries) /\ m \in Nat
  BY DEF IsTree
<1>2. PICK walk \in [0..m -> Walks] :
         /\ walk[0] = [found |-> 0, scanned |-> 0, inside |-> 0]
         /\ \A i \in 0..m - 1 : walk[i + 1] = Visit(walk[i], tree[i + 1], limit)
         /\ WalkFind(tree, limit) = walk[m]
  BY <1>1, WalksInOrder
<1>3. \A i \in 0..m : walk[i].found \in Nat /\ walk[i].scanned \in Nat
  BY DEF Walks
<1>4. MaxScan \in Nat
  BY FileOpsAssumption DEF FileOpsAssumption
<1> DEFINE T == {i \in 0..m : Sound(i, walk[i])}
<1>5. Sound(0, walk[0])
  <2>1. Matching(tree, 0) = {}
    BY DEF Matching
  <2>2. Cardinality({}) = 0
    BY FS_EmptySet
  <2>3. walk[0].found = 0 /\ walk[0].inside = 0
    BY <1>2
  <2> QED BY <2>1, <2>2, <2>3 DEF Complete, StandsAt
<1>6. ASSUME NEW i \in 0..m - 1, Sound(i, walk[i]) PROVE Sound(i + 1, walk[i + 1])
  <2>1. walk[i] \in Walks /\ walk[i + 1] = Visit(walk[i], tree[i + 1], limit)
    BY <1>1, <1>2
  <2>2. walk[i].found \in Nat /\ walk[i].scanned \in Nat
    BY <2>1 DEF Walks
  <2>3. CASE walk[i].found >= limit \/ walk[i].scanned >= MaxScan
    <3>1. walk[i + 1] = walk[i]
      BY <2>1, <2>3 DEF Visit
    <3> QED BY <1>6, <2>3, <3>1
  <2>4. CASE walk[i].found < limit /\ walk[i].scanned < MaxScan
    <3>1. Complete(tree, i, walk[i])
      BY <1>4, <1>6, <2>2, <2>4
    <3>2. walk[i + 1].found <= limit /\ Complete(tree, i + 1, walk[i + 1])
      BY <2>1, <2>4, <3>1, OneMoreEntry
    <3> QED BY <3>2
  <2> QED BY <1>4, <2>2, <2>3, <2>4
<1>7. Sound(m, walk[m])
  <2> HIDE DEF Sound
  <2>1. 0 \in T
    BY <1>1, <1>5
  <2>2. \A i \in 0..m - 1 : i \in T => i + 1 \in T
    BY <1>1, <1>6
  <2> HIDE DEF T, m
  <2>3. \A i \in 0..m : i \in T
    BY <1>1, <2>1, <2>2, UpTo
  <2>4. m \in 0..m
    BY <1>1
  <2> QED BY <2>3, <2>4 DEF T
<1> DEFINE answer == FsFind(tree, limit)
<1>8. /\ answer.count = walk[m].found
      /\ answer.truncated_by_limit = (walk[m].found >= limit)
      /\ answer.truncated_by_scan_cap = (walk[m].scanned >= MaxScan)
  <2> HIDE DEF m
  <2>1. answer = [count |-> walk[m].found, truncated_by_limit |-> walk[m].found >= limit,
                  truncated_by_scan_cap |-> walk[m].scanned >= MaxScan]
    BY <1>2, Zenon DEF FsFind
  <2> HIDE DEF answer
  <2> QED BY <2>1
<1> QED BY <1>7, <1>8 DEF Complete

\* What fs.grep leaves out (fs.cpp:477-528): unless it says that there are more, it has
\* counted every matching line except those that match past the 4096 characters kept and a
\* last line without its newline, in a file of any number of lines. Of these it does not tell.
THEOREM GrepIsComplete ==
  ASSUME NEW lines \in Seq(LineKinds), NEW terminated \in BOOLEAN, NEW limit \in Nat
  PROVE  LET answer == FsGrep(lines, terminated, limit)
             matching == {i \in 1..Len(lines) : lines[i] # "plain"}
             cut == {i \in matching : CutOff(lines, terminated, i)}
         IN /\ answer.count <= limit
            /\ answer.truncated <=> answer.count # Cardinality(matching \ cut)
            /\ answer.count = Cardinality(matching) => cut = {}
<1> DEFINE ended == IF terminated \/ lines = <<>> THEN lines ELSE Front(lines)
           hits == {i \in DOMAIN ended : ended[i] = "match"}
           matching == {i \in 1..Len(lines) : lines[i] # "plain"}
           cut == {i \in matching : CutOff(lines, terminated, i)}
           answer == FsGrep(lines, terminated, limit)
           n == Cardinality(hits)
<1>1. Len(lines) \in Nat /\ \A i \in 1..Len(lines) : lines[i] \in LineKinds
  OBVIOUS
<1>2. hits = matching \ cut
  <2>1. CASE terminated \/ lines = <<>>
    <3>1. ended = lines /\ DOMAIN ended = 1..Len(lines)
      BY <2>1
    <3>2. \A i \in 1..Len(lines) : CutOff(lines, terminated, i) <=> lines[i] = "beyond"
      BY <1>1, <2>1 DEF CutOff
    <3> QED BY <1>1, <3>1, <3>2 DEF LineKinds
  <2>2. CASE ~(terminated \/ lines = <<>>)
    <3>1. ended = SubSeq(lines, 1, Len(lines) - 1)
      BY <2>2 DEF Front
    <3>2. Len(lines) # 0
      BY <2>2
    <3>3. DOMAIN ended = 1..Len(lines) - 1 /\ \A i \in 1..Len(lines) - 1 : ended[i] = lines[i]
      <4> HIDE DEF ended
      <4> QED BY <1>1, <3>1, <3>2
    <3> HIDE DEF ended
    <3>4. \A i \in 1..Len(lines) : CutOff(lines, terminated, i)
                                     <=> lines[i] = "beyond" \/ i = Len(lines)
      BY <2>2 DEF CutOff
    <3>5. \A i \in 1..Len(lines) : i \in 1..Len(lines) - 1 <=> i # Len(lines)
      BY <1>1
    <3>6. \A i \in 1..Len(lines) - 1 : i \in 1..Len(lines)
      BY <1>1
    <3> QED BY <1>1, <3>3, <3>4, <3>5, <3>6 DEF LineKinds
  <2> QED BY <2>1, <2>2
<1>3. IsFiniteSet(matching) /\ matching \ cut \subseteq matching /\ cut \subseteq matching
  <2>1. IsFiniteSet(1..Len(lines)) /\ matching \subseteq 1..Len(lines)
    BY <1>1, FS_Interval
  <2> HIDE DEF matching, cut
  <2>2. IsFiniteSet(matching)
    BY <2>1, FS_Subset
  <2> QED BY <2>2 DEF cut
<1>4. /\ n \in Nat /\ Cardinality(matching) \in Nat /\ n <= Cardinality(matching)
      /\ n = Cardinality(matching) => cut = {}
  <2> HIDE DEF matching, cut, hits
  <2>1. /\ Cardinality(matching \ cut) \in Nat /\ Cardinality(matching) \in Nat
        /\ Cardinality(matching \ cut) <= Cardinality(matching)
        /\ Cardinality(matching \ cut) = Cardinality(matching) => matching \ cut = matching
    BY <1>3, FS_Subset, FS_CardinalityType
  <2> QED BY <1>2, <1>3, <2>1
<1>5. answer = [count |-> IF n > limit THEN limit ELSE n, truncated |-> n > limit]
  BY Zenon DEF FsGrep
<1>6. n = Cardinality(matching \ cut)
  BY <1>2
<1> HIDE DEF n, answer, matching, cut
<1>7. answer.count = (IF n > limit THEN limit ELSE n) /\ answer.truncated = (n > limit)
  BY <1>5
<1>8. /\ answer.count <= limit /\ answer.count <= n
      /\ answer.truncated <=> answer.count # n
  <2>1. CASE n > limit
    <3>1. answer.truncated
      BY <1>7, <2>1, Zenon
    <3>2. answer.count = limit /\ limit < n
      BY <1>4, <1>7, <2>1
    <3> QED BY <1>4, <3>1, <3>2
  <2>2. CASE ~(n > limit)
    <3>1. ~answer.truncated
      BY <1>7, <2>2, Zenon
    <3>2. answer.count = n /\ n <= limit
      BY <1>4, <1>7, <2>2
    <3> QED BY <1>4, <3>1, <3>2
  <2> QED BY <2>1, <2>2
<1>9. answer.count = Cardinality(matching) => cut = {}
  <2>1. answer.count = Cardinality(matching) => n = Cardinality(matching)
    <3>1. answer.count \in Nat
      BY <1>4, <1>7
    <3> QED BY <1>4, <1>8, <3>1
  <2> QED BY <1>4, <2>1
<1> QED BY <1>6, <1>8, <1>9 DEF answer, matching, cut

\* The small trees and files of the runs are among those of the two theorems above.
LEMMA SearchesComplete == FindMissesTheHidden /\ GrepMissesTheCutOff
<1>1. ASSUME NEW tree \in Trees(3), NEW limit \in 1..2
      PROVE  LET answer == FsFind(tree, limit)
                 matching == {i \in DOMAIN tree : tree[i].matches}
                 hidden == {i \in matching : Hidden(tree, i)}
             IN /\ answer.count <= limit
                /\ \/ answer.truncated_by_limit \/ answer.truncated_by_scan_cap
                   \/ answer.count = Cardinality(matching \ hidden)
  <2> DEFINE matching == {i \in DOMAIN tree : tree[i].matches}
             hidden == {i \in matching : Hidden(tree, i)}
  <2>1. PICK m \in 0..3 : tree \in [1..m -> TreeEntries]
    BY DEF Trees, TreeEntries
  <2>2. tree \in Seq(TreeEntries) /\ Len(tree) = m /\ DOMAIN tree = 1..Len(tree)
    BY <2>1
  <2>3. IsTree(tree)
    BY <2>2 DEF Trees, IsTree
  <2>4. matching \ hidden = Matching(tree, Len(tree))
    BY <2>2 DEF Matching
  <2>5. limit \in Nat
    OBVIOUS
  <2> HIDE DEF matching, hidden
  <2>6. LET answer == FsFind(tree, limit) IN
        /\ answer.count <= limit
        /\ \/ answer.truncated_by_limit \/ answer.truncated_by_scan_cap
           \/ answer.count = Cardinality(matching \ hidden)
    BY <2>3, <2>4, <2>5, FindIsComplete, Zenon
  <2> QED BY <2>6 DEF matching, hidden
<1>2. ASSUME NEW n \in 0..3, NEW lines \in [1..n -> LineKinds], NEW terminated \in BOOLEAN,
             NEW limit \in 1..2
      PROVE  LET answer == FsGrep(lines, terminated, limit)
                 matching == {i \in 1..n : lines[i] # "plain"}
                 cut == {i \in matching : CutOff(lines, terminated, i)}
             IN /\ answer.count <= limit
                /\ answer.truncated <=> answer.count # Cardinality(matching \ cut)
                /\ answer.count = Cardinality(matching) => cut = {}
  <2>1. lines \in Seq(LineKinds) /\ Len(lines) = n /\ limit \in Nat
    OBVIOUS
  <2>2. LET answer == FsGrep(lines, terminated, limit)
            matching == {i \in 1..Len(lines) : lines[i] # "plain"}
            cut == {i \in matching : CutOff(lines, terminated, i)}
        IN /\ answer.count <= limit
           /\ answer.truncated <=> answer.count # Cardinality(matching \ cut)
           /\ answer.count = Cardinality(matching) => cut = {}
    BY <2>1, GrepIsComplete, Zenon
  <2>3. Len(lines) = n
    BY <2>1
  <2> QED BY <2>2, <2>3, Zenon
<1>3. FindMissesTheHidden
  BY <1>1, Zenon DEF FindMissesTheHidden
<1>4. GrepMissesTheCutOff
  BY <1>2, Zenon DEF GrepMissesTheCutOff
<1> QED BY <1>3, <1>4

\* What the runs check of the searches, on trees of up to three entries and files of up to
\* three lines (FsFind, fs.cpp:450-473; FsGrep, fs.cpp:477-528): in every state they miss
\* what they cannot see and nothing else without a word.
THEOREM SearchesMissLittle == Spec => []SearchesMissTheUnseen
<1>1. SearchesMissTheUnseen
  BY SearchesComplete DEF SearchesMissTheUnseen
<1> QED BY <1>1, PTL

(*****************************************************************************)
(* The paths of the client, for any segments                                 *)
(*****************************************************************************)

Skipped == {"", "."}

\* What is kept of a path grows segment by segment.
LEMMA PartsInOrder ==
  ASSUME NEW S, NEW segments \in Seq(S)
  PROVE  \E parts \in [0..Len(segments) -> Seq(S)] :
            /\ parts[0] = <<>>
            /\ \A i \in 0..Len(segments) - 1 :
                  parts[i + 1] = IF segments[i + 1] \in Skipped THEN parts[i]
                                 ELSE Append(parts[i], segments[i + 1])
            /\ NormalizePath(TRUE, segments) =
                  IF ".." \in ToSet(segments) THEN <<"none">> ELSE parts[Len(segments)]
<1> DEFINE m == Len(segments)
           Push(p, i) == IF segments[i] \in Skipped THEN p ELSE Append(p, segments[i])
           Solves(p) == p = [i \in 0..m |-> IF i = 0 THEN <<>> ELSE Push(p[i - 1], i)]
           parts == CHOOSE p : Solves(p)
<1>1. /\ m \in Nat /\ <<>> \in Seq(S)
      /\ \A i \in 0..m - 1 : i + 1 \in 1..m /\ segments[i + 1] \in S
  OBVIOUS
<1>2. ASSUME NEW i \in 0..m - 1, NEW p \in Seq(S) PROVE Push(p, i + 1) \in Seq(S)
  BY <1>1
<1> DEFINE step == [i \in 0..m - 1 |-> [p \in Seq(S) |-> Push(p, i + 1)]]
<1> HIDE DEF Push
<1>3. step \in [0..m - 1 -> [Seq(S) -> Seq(S)]]
  BY <1>2
<1>4. PICK g : IterationTo(m, g, Seq(S), <<>>, step)
  <2> HIDE DEF step, m, parts
  <2> QED BY <1>1, <1>3, IteratesTo
<1>5. /\ g \in [0..m -> Seq(S)] /\ g[0] = <<>>
      /\ \A i \in 0..m - 1 : g[i + 1] = Push(g[i], i + 1)
  <2> HIDE DEF m, parts
  <2>1. \A i \in 0..m - 1 : g[i] \in Seq(S)
    BY <1>1, <1>4 DEF IterationTo
  <2> QED BY <1>4, <2>1 DEF IterationTo
<1> HIDE DEF m, step
<1>6. Solves(g)
  <2> HIDE DEF parts
  <2>1. \A i \in 0..m : i # 0 => i - 1 \in 0..m - 1 /\ (i - 1) + 1 = i
    BY <1>1
  <2>2. \A i \in 0..m : i # 0 => g[i] = Push(g[i - 1], i)
    BY <1>5, <2>1
  <2>3. \A i \in 0..m : g[i] = IF i = 0 THEN <<>> ELSE Push(g[i - 1], i)
    BY <1>5, <2>2
  <2> QED BY <1>5, <2>3
<1>7. Solves(parts)
  <2> HIDE DEF Solves
  <2> QED BY <1>6
<1>8. NormalizePath(TRUE, segments) =
         IF ".." \in ToSet(segments) THEN <<"none">> ELSE parts[m]
  BY DEF NormalizePath, Rejected, Push, Skipped, m
<1> HIDE DEF parts
<1>9. /\ parts[0] = <<>>
      /\ \A i \in 0..m - 1 : parts[i + 1] = Push(parts[i], i + 1)
  <2>1. \A i \in 0..m - 1 : i + 1 \in 0..m /\ i + 1 # 0 /\ (i + 1) - 1 = i
    BY <1>1
  <2>2. 0 \in 0..m
    BY <1>1
  <2> QED BY <1>7, <2>1, <2>2
<1>10. parts \in [0..m -> Seq(S)]
  <2> DEFINE T == {i \in 0..m : parts[i] \in Seq(S)}
  <2>1. 0 \in T
    <3>1. 0 \in 0..m /\ parts[0] \in Seq(S)
      BY <1>1, <1>9
    <3> HIDE DEF Solves
    <3> QED BY <3>1
  <2>2. ASSUME NEW i \in 0..m - 1, i \in T PROVE i + 1 \in T
    <3>1. parts[i] \in Seq(S) /\ i + 1 \in 0..m
      BY <1>1, <2>2
    <3>2. parts[i + 1] \in Seq(S)
      BY <1>2, <1>9, <3>1
    <3> QED BY <3>1, <3>2
  <2> HIDE DEF T
  <2>3. \A i \in 0..m : i \in T
    BY <1>1, <2>1, <2>2, UpTo
  <2>4. \A i \in 0..m : parts[i] \in Seq(S)
    BY <2>3 DEF T
  <2>5. parts = [i \in 0..m |-> parts[i]]
    BY <1>7
  <2> QED BY <2>4, <2>5
<1> QED BY <1>8, <1>9, <1>10 DEF m, Push

\* How many of the first i segments name something.
Named(segments, i) == {j \in 1..i : segments[j] \notin Skipped}

\* What is kept holds no segment that is empty, "." or "..", and nothing that names
\* something is lost.
LEMMA KeptSegments ==
  ASSUME NEW S, NEW segments \in Seq(S), ".." \notin ToSet(segments)
  PROVE  /\ NormalizePath(TRUE, segments) \in Seq(S \ (Skipped \cup {".."}))
         /\ Len(NormalizePath(TRUE, segments))
              = Cardinality(Named(segments, Len(segments)))
<1> DEFINE m == Len(segments)
           R == S \ (Skipped \cup {".."})
           Kept(i, p) == p \in Seq(R) /\ Len(p) = Cardinality(Named(segments, i))
<1>1. PICK parts \in [0..m -> Seq(S)] :
         /\ parts[0] = <<>>
         /\ \A i \in 0..m - 1 : parts[i + 1] = IF segments[i + 1] \in Skipped THEN parts[i]
                                               ELSE Append(parts[i], segments[i + 1])
         /\ NormalizePath(TRUE, segments) = parts[m]
  <2> HIDE DEF R, Kept
  <2> QED BY PartsInOrder
<1>2. m \in Nat /\ \A i \in 0..m - 1 : i + 1 \in 1..m /\ segments[i + 1] \in S \ {".."}
  BY DEF ToSet
<1>3. Kept(0, parts[0])
  <2>1. Named(segments, 0) = {}
    BY DEF Named
  <2>2. Cardinality({}) = 0 /\ Len(<<>>) = 0 /\ <<>> \in Seq(R)
    BY FS_EmptySet
  <2> QED BY <1>1, <2>1, <2>2
<1>4. ASSUME NEW i \in 0..m - 1, Kept(i, parts[i]) PROVE Kept(i + 1, parts[i + 1])
  <2> DEFINE seg == segments[i + 1]
             p == parts[i]
  <2>1. seg \in S \ {".."}
    BY <1>2
  <2>2. p \in Seq(R) /\ Len(p) = Cardinality(Named(segments, i))
    BY <1>4
  <2>3. IsFiniteSet(Named(segments, i)) /\ i + 1 \notin Named(segments, i)
    <3>1. i \in Nat /\ i + 1 \notin 1..i
      BY <1>2
    <3>2. IsFiniteSet(1..i)
      BY <3>1, FS_Interval
    <3>3. Named(segments, i) \subseteq 1..i
      BY DEF Named
    <3> QED BY <3>1, <3>2, <3>3, FS_Subset
  <2>4. \A j : j \in Named(segments, i + 1)
               <=> j \in Named(segments, i) \/ (j = i + 1 /\ seg \notin Skipped)
    <3>1. 1..(i + 1) = (1..i) \cup {i + 1}
      BY <1>2
    <3> QED BY <3>1 DEF Named
  <2>5. parts[i + 1] = IF seg \in Skipped THEN p ELSE Append(p, seg)
    BY <1>1
  <2> HIDE DEF seg, p, R, m
  <2>6. CASE seg \in Skipped
    <3>1. Named(segments, i + 1) = Named(segments, i)
      BY <2>4, <2>6
    <3> QED BY <2>2, <2>5, <2>6, <3>1
  <2>7. CASE seg \notin Skipped
    <3>1. Named(segments, i + 1) = Named(segments, i) \cup {i + 1}
      BY <2>4, <2>7
    <3>2. Cardinality(Named(segments, i + 1)) = Len(p) + 1
      BY <2>2, <2>3, <3>1, FS_AddElement
    <3>3. seg \in R
      BY <2>1, <2>7 DEF R
    <3>4. Append(p, seg) \in Seq(R) /\ Len(Append(p, seg)) = Len(p) + 1
      BY <2>2, <3>3
    <3> QED BY <2>5, <2>7, <3>2, <3>4
  <2> QED BY <2>6, <2>7
<1> DEFINE T == {i \in 0..m : Kept(i, parts[i])}
<1> HIDE DEF Kept
<1>5. 0 \in T /\ \A i \in 0..m - 1 : i \in T => i + 1 \in T
  BY <1>2, <1>3, <1>4
<1>6. \A i \in 0..m : i \in T
  <2> HIDE DEF T, m
  <2> QED BY <1>2, <1>5, UpTo
<1>7. Kept(m, parts[m])
  BY <1>2, <1>6
<1> QED BY <1>1, <1>7 DEF Kept

\* A path without such segments is left as it is.
LEMMA NothingToDrop ==
  ASSUME NEW S, NEW segments \in Seq(S \ (Skipped \cup {".."}))
  PROVE  NormalizePath(TRUE, segments) = segments
<1> DEFINE m == Len(segments)
           R == S \ (Skipped \cup {".."})
<1>1. ".." \notin ToSet(segments) /\ m \in Nat /\ \A i \in 1..m : segments[i] \in R
  BY DEF ToSet
<1>2. PICK parts \in [0..m -> Seq(R)] :
         /\ parts[0] = <<>>
         /\ \A i \in 0..m - 1 : parts[i + 1] = IF segments[i + 1] \in Skipped THEN parts[i]
                                               ELSE Append(parts[i], segments[i + 1])
         /\ NormalizePath(TRUE, segments) = parts[m]
  <2> HIDE DEF R
  <2>1. segments \in Seq(R)
    BY DEF R
  <2> QED BY <1>1, <2>1, PartsInOrder
<1> DEFINE Same(i) == Len(parts[i]) = i /\ \A j \in 1..i : parts[i][j] = segments[j]
<1>3. Same(0)
  BY <1>2
<1>4. ASSUME NEW i \in 0..m - 1, Same(i) PROVE Same(i + 1)
  <2> DEFINE p == parts[i]
             seg == segments[i + 1]
  <2>1. parts[i + 1] = Append(p, seg) /\ p \in Seq(R) /\ seg \in R
    <3>1. i + 1 \in 1..m /\ i \in 0..m
      BY <1>1
    <3> QED BY <1>1, <1>2, <3>1
  <2>2. Len(p) = i /\ \A j \in 1..i : p[j] = segments[j]
    BY <1>4
  <2> HIDE DEF p, R
  <2>3. /\ Len(Append(p, seg)) = i + 1
        /\ \A j \in 1..i + 1 : Append(p, seg)[j] = IF j = i + 1 THEN seg ELSE p[j]
    BY <2>1, <2>2
  <2> QED BY <2>1, <2>2, <2>3
<1> DEFINE T == {i \in 0..m : Same(i)}
<1> HIDE DEF Same
<1>5. 0 \in T /\ \A i \in 0..m - 1 : i \in T => i + 1 \in T
  BY <1>1, <1>3, <1>4
<1>6. \A i \in 0..m : i \in T
  <2> HIDE DEF T, m
  <2> QED BY <1>1, <1>5, UpTo
<1>7. parts[m] \in Seq(R) /\ Same(m)
  BY <1>1, <1>6
<1>8. parts[m] = segments
  <2> HIDE DEF R
  <2>1. segments \in Seq(R)
    BY DEF R
  <2> QED BY <1>1, <1>7, <2>1 DEF Same
<1> QED BY <1>2, <1>8

\* Whatever is asked for, a path that is accepted stays below the root of its device: no
\* segment of it climbs, none that names something is lost, and normalising it again
\* changes nothing (path.cpp:7-32), for paths of any length.
THEOREM PathsAreNormal ==
  ASSUME NEW S, NEW segments \in Seq(S), ~Rejected(TRUE, segments)
  PROVE  LET norm == NormalizePath(TRUE, segments) IN
         /\ norm \in Seq(S \ {"", ".", ".."})
         /\ Len(norm) = Cardinality({i \in 1..Len(segments) : segments[i] \notin {"", "."}})
         /\ NormalizePath(TRUE, norm) = norm
<1>1. ".." \notin ToSet(segments) /\ Skipped \cup {".."} = {"", ".", ".."}
  BY DEF Rejected, Skipped
<1> DEFINE norm == NormalizePath(TRUE, segments)
<1>2. /\ norm \in Seq(S \ (Skipped \cup {".."}))
      /\ Len(norm) = Cardinality(Named(segments, Len(segments)))
  BY <1>1, KeptSegments, Zenon
<1>3. NormalizePath(TRUE, norm) = norm
  <2> HIDE DEF norm
  <2> QED BY <1>2, NothingToDrop
<1> HIDE DEF norm
<1>4. Named(segments, Len(segments)) = {i \in 1..Len(segments) : segments[i] \notin {"", "."}}
  BY DEF Named, Skipped
<1> QED BY <1>1, <1>2, <1>3, <1>4, Zenon DEF norm

LEMMA FunctionIsSeq ==
  ASSUME NEW S, NEW n \in Nat, NEW f \in [1..n -> S]
  PROVE  f \in Seq(S) /\ Len(f) = n /\ DOMAIN f = 1..n
OBVIOUS

LEMMA ElementsOfSeq ==
  ASSUME NEW S, NEW s \in Seq(S)
  PROVE  ToSet(s) \subseteq S
BY DEF ToSet

\* The paths of the runs are among those of the theorem above.
LEMMA SmallPathsAreNormal == NormalizedBelow
<1>0. \A n \in 0..4 : n \in Nat
  OBVIOUS
<1> SUFFICES ASSUME NEW n \in 0..4, NEW segments \in [1..n -> {"", ".", "..", "dir"}],
                    NormalizePath(TRUE, segments) # <<"none">>
             PROVE  LET norm == NormalizePath(TRUE, segments) IN
                    /\ ToSet(norm) \subseteq {"dir"}
                    /\ Len(norm) = Cardinality({i \in 1..n : segments[i] = "dir"})
                    /\ NormalizePath(TRUE, norm) = norm
  BY Zenon DEF NormalizedBelow
<1>1. segments \in Seq({"", ".", "..", "dir"}) /\ Len(segments) = n
      /\ DOMAIN segments = 1..n
  BY <1>0, FunctionIsSeq, Zenon
<1>2. ~Rejected(TRUE, segments)
  BY DEF NormalizePath
<1> DEFINE norm == NormalizePath(TRUE, segments)
<1>3. /\ norm \in Seq({"", ".", "..", "dir"} \ {"", ".", ".."})
      /\ Len(norm) = Cardinality({i \in 1..n : segments[i] \notin {"", "."}})
      /\ NormalizePath(TRUE, norm) = norm
  BY <1>1, <1>2, PathsAreNormal
<1>4. \A i \in 1..n : segments[i] # ".."
  BY <1>1, <1>2 DEF Rejected, ToSet
<1> HIDE DEF norm
<1>5. {i \in 1..n : segments[i] \notin {"", "."}} = {i \in 1..n : segments[i] = "dir"}
  BY <1>4
<1>6. ToSet(norm) \subseteq {"dir"}
  <2>1. norm \in Seq({"dir"})
    <3>1. {"", ".", "..", "dir"} \ {"", ".", ".."} = {"dir"}
      OBVIOUS
    <3> QED BY <1>3, <3>1
  <2> QED BY <2>1, ElementsOfSeq, Zenon
<1> QED BY <1>3, <1>5, <1>6, Zenon DEF norm

\* What the runs check of the paths, on up to four segments (NormalizePath, path.cpp:7-32).
THEOREM PathsAreContained == Spec => []PathsStayBelow
<1>1. PathsStayBelow
  BY SmallPathsAreNormal DEF PathsStayBelow
<1> QED BY <1>1, PTL

(*****************************************************************************)
(* The transfers of the client, for any file and any size of a chunk         *)
(*****************************************************************************)

\* The first n elements of a file.
Beginning(file, n) == [j \in 1..n |-> file[j]]

LEMMA BeginningIsSeq ==
  ASSUME NEW V, NEW file \in Seq(V), NEW n \in 0..Len(file)
  PROVE  /\ Beginning(file, n) \in Seq(V) /\ Len(Beginning(file, n)) = n
         /\ \A j \in 1..n : Beginning(file, n)[j] = file[j]
         /\ n = Len(file) => Beginning(file, n) = file
<1>1. n \in Nat /\ \A j \in 1..n : file[j] \in V
  OBVIOUS
<1>2. Beginning(file, n) \in [1..n -> V]
  BY <1>1 DEF Beginning
<1>3. Beginning(file, n) \in Seq(V) /\ Len(Beginning(file, n)) = n
  BY <1>1, <1>2
<1>4. \A j \in 1..n : Beginning(file, n)[j] = file[j]
  BY DEF Beginning
<1> QED BY <1>3, <1>4

\* i chunks, or all there is.
Moved(file, i) == IF i * CHUNK < Len(file) THEN i * CHUNK ELSE Len(file)

\* One more chunk.
LEMMA OneMoreChunk ==
  ASSUME NEW V, NEW file \in Seq(V), NEW i \in Nat
  PROVE  /\ i * CHUNK \in Nat /\ (i + 1) * CHUNK = i * CHUNK + CHUNK
         /\ CHUNK \in Nat \ {0} /\ Moved(file, i) \in 0..Len(file)
         /\ 0 * CHUNK = 0 /\ 1 * CHUNK = CHUNK
<1>1. CHUNK \in Nat \ {0}
  BY FileOpsAssumption DEF FileOpsAssumption
<1>2. i * CHUNK \in Nat /\ (i + 1) * CHUNK = i * CHUNK + CHUNK
  BY <1>1
<1> QED BY <1>1, <1>2 DEF Moved

\* The chunk at the end of which i chunks have been moved.
LEMMA ChunksFollow ==
  ASSUME NEW V, NEW data \in Seq(V), NEW i \in Nat
  PROVE  /\ ChunkOf(data, i + 1) = {j \in 1..Len(data) : i * CHUNK < j /\ j <= i * CHUNK + CHUNK}
         /\ i * CHUNK \in Nat /\ CHUNK \in Nat \ {0} /\ (i * CHUNK = 0 <=> i = 0)
<1>1. (i + 1) - 1 = i /\ DOMAIN data = 1..Len(data)
  OBVIOUS
<1>2. i * CHUNK \in Nat /\ (i + 1) * CHUNK = i * CHUNK + CHUNK /\ CHUNK \in Nat \ {0}
  BY OneMoreChunk
<1>3. i * CHUNK = 0 <=> i = 0
  <2>1. CASE i = 0
    BY <2>1, OneMoreChunk
  <2>2. CASE i # 0
    <3>1. i - 1 \in Nat /\ (i - 1) + 1 = i
      BY <2>2
    <3>2. (i - 1) * CHUNK \in Nat /\ ((i - 1) + 1) * CHUNK = (i - 1) * CHUNK + CHUNK
      BY <3>1, OneMoreChunk, Zenon
    <3>3. (i - 1) * CHUNK \in Nat /\ i * CHUNK = (i - 1) * CHUNK + CHUNK
      BY <3>1, <3>2
    <3> QED BY <1>2, <2>2, <3>3
  <2> QED BY <2>1, <2>2
<1>4. ChunkOf(data, i + 1)
        = {j \in 1..Len(data) : i * CHUNK < j /\ j <= (i + 1) * CHUNK}
  BY <1>1 DEF ChunkOf
<1> QED BY <1>2, <1>3, <1>4

\* What a download has got after i requests: a beginning of the file, all of it at the end
\* unless a read fell short, and i whole chunks as long as it goes on.
IsBeginning(got, file, whole, i) ==
  \E n \in 0..Len(file) :
     /\ got.data = Beginning(file, n)
     /\ got = [data |-> Beginning(file, n), eof |-> got.eof] /\ got.eof \in BOOLEAN
     /\ ~got.eof => n = i * CHUNK
     /\ got.eof /\ whole => n = Len(file)

LEMMA ReadsOn ==
  ASSUME NEW V, NEW file \in Seq(V), NEW i \in Nat, NEW moved \in 0..CHUNK, NEW got,
         NEW whole \in BOOLEAN, whole => moved = CHUNK, IsBeginning(got, file, whole, i)
  PROVE  IsBeginning(ReadMore(file, got, moved), file, whole, i + 1)
<1>1. /\ i * CHUNK \in Nat /\ (i + 1) * CHUNK = i * CHUNK + CHUNK /\ CHUNK \in Nat \ {0}
      /\ Len(file) \in Nat
  BY OneMoreChunk
<1>2. PICK k \in 0..Len(file) :
        /\ got.data = Beginning(file, k)
        /\ got = [data |-> Beginning(file, k), eof |-> got.eof] /\ got.eof \in BOOLEAN
        /\ ~got.eof => k = i * CHUNK
        /\ got.eof /\ whole => k = Len(file)
  BY DEF IsBeginning
<1>3. CASE got.eof
  <2>1. ReadMore(file, got, moved) = got
    BY <1>3 DEF ReadMore
  <2> QED BY <1>2, <1>3, <2>1 DEF IsBeginning
<1>4. CASE ~got.eof
  <2> DEFINE s == Slice(file, k, moved)
             n == ChunkEnd(file, k, moved)
  <2>1. k = i * CHUNK /\ k \in Nat /\ moved \in Nat /\ n \in k..Len(file)
        /\ n = (IF k + moved < Len(file) THEN k + moved ELSE Len(file))
    BY <1>1, <1>2, <1>4 DEF ChunkEnd
  <2>2. /\ s \in Seq(V) /\ Len(s) = n - k
        /\ \A j \in 1..n - k : s[j] = file[k + j]
    <3>1. moved \in Nat
      BY <2>1
    <3> QED BY <3>1, SliceFollows
  <2> HIDE DEF s, n
  <2>3. /\ Beginning(file, k) \in Seq(V) /\ Len(Beginning(file, k)) = k
        /\ \A j \in 1..k : Beginning(file, k)[j] = file[j]
    BY BeginningIsSeq
  <2>4. n \in 0..Len(file)
    BY <1>1, <2>1
  <2>5. /\ Beginning(file, n) \in Seq(V) /\ Len(Beginning(file, n)) = n
        /\ \A j \in 1..n : Beginning(file, n)[j] = file[j]
    BY <2>4, BeginningIsSeq
  <2>6. Beginning(file, k) \o s = Beginning(file, n)
    <3> DEFINE b == Beginning(file, k)
               c == Beginning(file, n)
    <3>1. b \in Seq(V) /\ c \in Seq(V) /\ s \in Seq(V)
      BY <2>2, <2>3, <2>5
    <3>2. Len(b) = k /\ Len(c) = n /\ Len(s) = n - k /\ k \in Nat /\ n \in Nat /\ k <= n
      BY <1>1, <2>1, <2>2, <2>3, <2>5
    <3>3. b \o s \in Seq(V) /\ Len(b \o s) = n
      <4> HIDE DEF b, c
      <4>1. b \o s \in Seq(V) /\ Len(b \o s) = Len(b) + Len(s)
        BY <3>1
      <4> QED BY <3>2, <4>1
    <3>4. ASSUME NEW j \in 1..n PROVE (b \o s)[j] = c[j]
      <4>1. CASE j <= k
        BY <2>3, <2>5, <3>1, <3>2, <4>1
      <4>2. CASE j > k
        <5>1. j - k \in 1..n - k /\ k + (j - k) = j
          BY <3>2, <4>2
        <5>2. (b \o s)[j] = s[j - k]
          BY <3>1, <3>2, <4>2
        <5>3. s[j - k] = file[j]
          BY <2>2, <5>1
        <5> QED BY <2>5, <5>2, <5>3
      <4> QED BY <3>2, <4>1, <4>2
    <3> HIDE DEF b, c
    <3>5. b \o s = c
      BY <3>1, <3>2, <3>3, <3>4, SeqEqual
    <3> QED BY <3>5 DEF b, c
  <2>7. ReadMore(file, got, moved) = [data |-> Beginning(file, n), eof |-> Len(s) < CHUNK]
    <3> DEFINE reply == FsReadResult(file, k, CHUNK, moved)
    <3>1. reply = [data |-> s, eof |-> Len(s) < CHUNK]
      BY DEF FsReadResult, s
    <3>2. Len(got.data) = k
      BY <1>2, <2>3
    <3> HIDE DEF reply
    <3>3. reply.data = s /\ reply.eof = (Len(s) < CHUNK)
      BY <3>1
    <3>4. ReadMore(file, got, moved) = [data |-> got.data \o reply.data, eof |-> reply.eof]
      BY <1>4, <3>2 DEF ReadMore, reply
    <3> QED BY <1>2, <2>6, <3>3, <3>4
  <2> DEFINE next == ReadMore(file, got, moved)
  <2>8. next.data = Beginning(file, n) /\ next.eof = (Len(s) < CHUNK)
    BY <2>7
  <2>9. next = [data |-> Beginning(file, n), eof |-> next.eof] /\ next.eof \in BOOLEAN
    BY <2>7, <2>8
  <2> HIDE DEF next
  <2>10. ASSUME ~next.eof PROVE n = (i + 1) * CHUNK
    <3>1. ~(Len(s) < CHUNK)
      BY <2>8, <2>10, Zenon
    <3> DEFINE at == i * CHUNK
    <3>2. /\ at \in Nat /\ (i + 1) * CHUNK = at + CHUNK /\ CHUNK \in Nat /\ k = at
          /\ Len(s) = n - k /\ Len(file) \in Nat /\ moved \in 0..CHUNK
      BY <1>1, <2>1, <2>2
    <3> HIDE DEF at
    <3> QED BY <2>1, <3>1, <3>2
  <2>11. ASSUME next.eof, whole PROVE n = Len(file)
    <3>1. Len(s) < CHUNK
      BY <2>8, <2>11, Zenon
    <3>2. /\ Len(s) = n - k /\ CHUNK \in Nat /\ k \in Nat /\ n \in Nat /\ Len(file) \in Nat
          /\ n = (IF k + CHUNK < Len(file) THEN k + CHUNK ELSE Len(file))
      BY <1>1, <2>1, <2>2, <2>4, <2>11
    <3> QED BY <3>1, <3>2
  <2> QED BY <2>4, <2>8, <2>9, <2>10, <2>11 DEF IsBeginning, next
<1> QED BY <1>3, <1>4

\* What is written where a file so far ends, or past it: what is there stays unless the file
\* is opened anew, what was skipped is zeros, and the units moved are in their place.
LEMMA WritesAtEnd ==
  ASSUME NEW V, NEW data \in Seq(V), NEW at \in 0..Len(data), NEW io \in IoOutcomes,
         NEW W, NEW old, at # 0 => old \in Seq(W) /\ Len(old) <= at
  PROVE  LET base == IF at = 0 \/ io.anew THEN <<>> ELSE old
             file == Written(old, at, Slice(data, at, CHUNK), io)
             n == ChunkEnd(data, at, io.moved)
         IN /\ Len(file) = IF n = at THEN Len(base) ELSE n
            /\ DOMAIN file = 1..Len(file)
            /\ \A S : (\A j \in 1..Len(file) : file[j] \in S) => file \in Seq(S)
            /\ \A j \in 1..Len(file) :
                  file[j] = IF j > at THEN data[j]
                            ELSE IF j <= Len(base) THEN base[j] ELSE 0
<1> DEFINE s == Slice(data, at, CHUNK)
           base == IF at = 0 \/ io.anew THEN <<>> ELSE old
           n == ChunkEnd(data, at, io.moved)
           m == ChunkEnd(data, at, CHUNK)
           w == Slice(s, 0, io.moved)
           end == at + Len(w)
           last == IF w = <<>> \/ end < Len(base) THEN Len(base) ELSE end
           new(j) == IF j \in at + 1..end THEN w[j - at]
                     ELSE IF j <= Len(base) THEN base[j] ELSE 0
           file == Written(old, at, s, io)
<1>1. /\ CHUNK \in Nat /\ at \in Nat /\ Len(data) \in Nat
      /\ io.moved \in Nat /\ io.moved <= CHUNK
  BY FileOpsAssumption DEF FileOpsAssumption, IoOutcomes
<1>2. Len(base) \in Nat /\ Len(base) <= at
  <2>1. Len(<<>>) = 0
    OBVIOUS
  <2>2. at # 0 => Len(old) \in Nat /\ Len(old) <= at
    OBVIOUS
  <2> QED BY <1>1, <2>1, <2>2
<1>3. /\ s \in Seq(V) /\ Len(s) = m - at
      /\ \A j \in 1..m - at : s[j] = data[at + j]
  BY <1>1, SliceFollows, Zenon
<1>4. /\ m \in Nat /\ at <= m /\ m <= Len(data) /\ n \in Nat /\ at <= n /\ n <= m
      /\ n - at = ChunkEnd(s, 0, io.moved)
  <2>1. /\ m = (IF at + CHUNK < Len(data) THEN at + CHUNK ELSE Len(data))
        /\ n = (IF at + io.moved < Len(data) THEN at + io.moved ELSE Len(data))
    BY DEF ChunkEnd
  <2> HIDE DEF m, n, s
  <2>2. ChunkEnd(s, 0, io.moved) = IF io.moved < Len(s) THEN io.moved ELSE Len(s)
    BY <1>1 DEF ChunkEnd
  <2> QED BY <1>1, <1>3, <2>1, <2>2
<1>5. /\ w \in Seq(V) /\ Len(w) = n - at
      /\ \A j \in 1..n - at : w[j] = data[at + j]
  <2> HIDE DEF s, n, m
  <2>1. 0 \in 0..Len(s)
    BY <1>3, <1>4
  <2>2. /\ w \in Seq(V) /\ Len(w) = ChunkEnd(s, 0, io.moved) - 0
        /\ \A j \in 1..ChunkEnd(s, 0, io.moved) - 0 : w[j] = s[0 + j]
    <3>1. io.moved \in Nat /\ s \in Seq(V)
      BY <1>1, <1>3
    <3> QED BY <2>1, <3>1, SliceFollows
  <2> HIDE DEF w
  <2>3. Len(w) = n - at
    BY <1>1, <1>4, <2>2
  <2>4. ASSUME NEW j \in 1..n - at PROVE w[j] = data[at + j]
    <3>1. j \in 1..ChunkEnd(s, 0, io.moved) - 0 /\ 0 + j = j /\ j \in 1..m - at
      BY <1>1, <1>4, <2>4
    <3> QED BY <1>3, <2>2, <3>1
  <2> QED BY <2>2, <2>3, <2>4
<1>6. file = [j \in 1..last |-> new(j)]
  BY Zenon DEF Written
<1> HIDE DEF s, base, n, m, w, file
<1>7. /\ last = (IF n = at THEN Len(base) ELSE n) /\ end = n
  <2>1. w = <<>> <=> Len(w) = 0
    BY <1>5
  <2> QED BY <1>1, <1>2, <1>4, <1>5, <2>1
<1>8. ASSUME NEW j \in 1..last
      PROVE  new(j) = IF j > at THEN data[j] ELSE IF j <= Len(base) THEN base[j] ELSE 0
  <2>1. CASE j > at
    <3>1. j \in at + 1..end /\ j - at \in 1..n - at /\ at + (j - at) = j
      BY <1>1, <1>2, <1>4, <1>7, <2>1
    <3>2. new(j) = w[j - at]
      BY <3>1
    <3>3. w[j - at] = data[j]
      BY <1>5, <3>1
    <3> QED BY <2>1, <3>2, <3>3
  <2>2. CASE ~(j > at)
    <3>1. j \notin at + 1..end
      BY <1>1, <2>2
    <3> QED BY <2>2, <3>1
  <2> QED BY <2>1, <2>2
<1>9. last \in Nat
  BY <1>2, <1>4, <1>7
<1> DEFINE value(j) == IF j > at THEN data[j] ELSE IF j <= Len(base) THEN base[j] ELSE 0
<1> HIDE DEF last, new
<1>10. /\ DOMAIN file = 1..last /\ \A j \in 1..last : file[j] = new(j)
  BY <1>6
<1>11. file \in Seq({new(j) : j \in 1..last}) /\ Len(file) = last
  BY <1>6, <1>9
<1>12. \A j \in 1..last : file[j] = value(j)
  BY <1>8, <1>10
<1>13. ASSUME NEW S, \A j \in 1..last : file[j] \in S PROVE file \in Seq(S)
  <2>1. file = [j \in 1..last |-> file[j]]
    BY <1>6
  <2>2. [j \in 1..last |-> file[j]] \in [1..last -> S]
    BY <1>13
  <2> QED BY <1>9, <2>1, <2>2
<1> HIDE DEF value
<1>14. /\ Len(file) = IF n = at THEN Len(base) ELSE n
       /\ DOMAIN file = 1..Len(file)
       /\ \A S : (\A j \in 1..Len(file) : file[j] \in S) => file \in Seq(S)
       /\ \A j \in 1..Len(file) : file[j] = value(j)
  BY <1>7, <1>10, <1>11, <1>12, <1>13 DEF last
<1> QED BY <1>14 DEF value, file, base, n, s

\* What an upload has left after i requests.
InPlace(file, data, writes, i) ==
  /\ file \in Seq({0} \cup {data[j] : j \in DOMAIN data})
  /\ Len(file) <= Moved(data, i)
  /\ \A j \in 1..Len(file) : file[j] \in {data[j], 0}
  /\ \A c \in 1..i :
        writes[c].moved = CHUNK /\ (\A later \in c + 1..i : ~writes[later].anew) =>
           \A j \in ChunkOf(data, c) : j <= Len(file) /\ file[j] = data[j]

\* What one more request leaves.
LEMMA WritesOn ==
  ASSUME NEW V, NEW data \in Seq(V), NEW old, NEW i \in Nat, NEW writes,
         writes[i + 1] \in IoOutcomes, i # 0 => InPlace(old, data, writes, i)
  PROVE  InPlace(WriteMore(old, data, i + 1, writes[i + 1]), data, writes, i + 1)
<1> DEFINE at == i * CHUNK
           io == writes[i + 1]
           W == {0} \cup {data[j] : j \in DOMAIN data}
           file == WriteMore(old, data, i + 1, io)
           n == ChunkEnd(data, at, io.moved)
           base == IF at = 0 \/ io.anew THEN <<>> ELSE old
<1>1. /\ at \in Nat /\ (i + 1) * CHUNK = at + CHUNK /\ CHUNK \in Nat \ {0}
      /\ (at = 0 <=> i = 0) /\ Len(data) \in Nat
      /\ ChunkOf(data, i + 1) = {j \in 1..Len(data) : at < j /\ j <= at + CHUNK}
      /\ DOMAIN data = 1..Len(data)
  <2>1. (i + 1) * CHUNK = i * CHUNK + CHUNK
    BY OneMoreChunk
  <2>2. /\ ChunkOf(data, i + 1) = {j \in 1..Len(data) : i * CHUNK < j /\ j <= i * CHUNK + CHUNK}
        /\ i * CHUNK \in Nat /\ CHUNK \in Nat \ {0} /\ (i * CHUNK = 0 <=> i = 0)
    BY ChunksFollow
  <2>3. Len(data) \in Nat /\ DOMAIN data = 1..Len(data)
    OBVIOUS
  <2> QED BY <2>1, <2>2, <2>3
<1>2. /\ Moved(data, i) = IF at < Len(data) THEN at ELSE Len(data)
      /\ Moved(data, i + 1) = IF at + CHUNK < Len(data) THEN at + CHUNK ELSE Len(data)
  BY <1>1 DEF Moved
<1>3. io.moved \in Nat /\ io.moved <= CHUNK
  BY <1>1 DEF IoOutcomes
<1>4. i # 0 => /\ old \in Seq(W) /\ Len(old) \in Nat /\ Len(old) <= at
               /\ Len(old) <= Len(data)
               /\ \A j \in 1..Len(old) : old[j] \in {data[j], 0}
  <2> SUFFICES ASSUME i # 0
      PROVE /\ old \in Seq(W) /\ Len(old) \in Nat /\ Len(old) <= at
            /\ Len(old) <= Len(data)
            /\ \A j \in 1..Len(old) : old[j] \in {data[j], 0}
    OBVIOUS
  <2>1. /\ old \in Seq(W) /\ Len(old) <= Moved(data, i)
        /\ \A j \in 1..Len(old) : old[j] \in {data[j], 0}
    BY DEF InPlace
  <2> HIDE DEF W, at
  <2>2. Len(old) \in Nat
    BY <2>1
  <2> QED BY <1>1, <1>2, <2>1, <2>2
<1>5. ASSUME NEW c \in 1..i, writes[c].moved = CHUNK,
             \A later \in c + 1..i + 1 : ~writes[later].anew
      PROVE  /\ i # 0 /\ ~io.anew
             /\ \A j \in ChunkOf(data, c) : j <= Len(old) /\ old[j] = data[j]
  <2>1. i # 0 /\ i + 1 \in c + 1..i + 1 /\ \A later \in c + 1..i : later \in c + 1..i + 1
    OBVIOUS
  <2>2. InPlace(old, data, writes, i)
    BY <2>1
  <2>3. \A j \in ChunkOf(data, c) : j <= Len(old) /\ old[j] = data[j]
    BY <1>5, <2>1, <2>2 DEF InPlace
  <2> QED BY <1>5, <2>1, <2>3
<1>6. \A c \in 1..i : \A j \in ChunkOf(data, c) : j \in Nat /\ 0 < j
  BY <1>1 DEF ChunkOf
<1>7. CASE at < Len(data) \/ at = 0
  <2>1. file = Written(old, at, Slice(data, at, CHUNK), io)
    <3>1. (i + 1) - 1 = i
      OBVIOUS
    <3> QED BY <1>7, <3>1 DEF WriteMore
  <2>2. at \in 0..Len(data) /\ io \in IoOutcomes
    BY <1>1, <1>7
  <2>3. at # 0 => old \in Seq(W) /\ Len(old) <= at
    BY <1>1, <1>4
  <2> HIDE DEF file, W
  <2>4. LET written == Written(old, at, Slice(data, at, CHUNK), io) IN
        /\ Len(written) = IF n = at THEN Len(base) ELSE n
        /\ DOMAIN written = 1..Len(written)
        /\ \A S : (\A j \in 1..Len(written) : written[j] \in S) => written \in Seq(S)
        /\ \A j \in 1..Len(written) :
              written[j] = IF j > at THEN data[j] ELSE IF j <= Len(base) THEN base[j] ELSE 0
    <3> HIDE DEF at, io
    <3> QED BY <2>2, <2>3, WritesAtEnd
  <2>5. /\ Len(file) = IF n = at THEN Len(base) ELSE n
        /\ \A S : (\A j \in 1..Len(file) : file[j] \in S) => file \in Seq(S)
        /\ \A j \in 1..Len(file) :
              file[j] = IF j > at THEN data[j] ELSE IF j <= Len(base) THEN base[j] ELSE 0
    BY <2>1, <2>4, Zenon
  <2>6. Len(base) \in Nat /\ Len(base) <= at /\ Len(base) <= Len(data)
        /\ \A j \in 1..Len(base) : base[j] \in {data[j], 0}
    <3>1. CASE at = 0 \/ io.anew
      BY <1>1, <3>1
    <3>2. CASE ~(at = 0 \/ io.anew)
      BY <1>1, <1>4, <3>2
    <3> QED BY <3>1, <3>2
  <2>7. n \in at..Len(data) /\ n <= Moved(data, i + 1)
        /\ n = (IF at + io.moved < Len(data) THEN at + io.moved ELSE Len(data))
    BY <1>1, <1>2, <1>3, <2>2 DEF ChunkEnd
  <2>8. at + CHUNK < Len(data) \/ Moved(data, i + 1) = Len(data)
    BY <1>2
  <2> HIDE DEF at, n, base, io
  <2>9. Len(file) \in Nat /\ Len(file) <= Moved(data, i + 1) /\ Len(file) <= Len(data)
    <3> DEFINE most == Moved(data, i + 1)
    <3>1. at \in Nat /\ Len(data) \in Nat /\ n \in at..Len(data) /\ n <= most
      BY <1>1, <2>7, Zenon
    <3>2. most \in 0..Len(data)
      <4>1. i + 1 \in Nat
        OBVIOUS
      <4> QED BY <4>1, OneMoreChunk
    <3> HIDE DEF most
    <3>3. n \in Nat /\ at <= n /\ n <= Len(data) /\ n <= most
      BY <3>1
    <3>4. \/ Len(file) = n
          \/ Len(file) = Len(base) /\ n = at
      BY <2>5, Zenon
    <3>5. Len(base) \in Nat /\ Len(base) <= at /\ Len(base) <= Len(data)
      BY <2>6
    <3> HIDE DEF file
    <3>6. Len(file) \in Nat /\ Len(file) <= most /\ Len(file) <= Len(data)
      <4>1. CASE Len(file) = n
        BY <3>3, <4>1
      <4>2. CASE Len(file) = Len(base) /\ n = at
        <5>1. Len(base) <= most
          BY <3>1, <3>3, <3>5, <3>2, <4>2
        <5> QED BY <3>5, <4>2, <5>1
      <4> QED BY <3>4, <4>1, <4>2
    <3> QED BY <3>6, Zenon DEF most
  <2>10. ASSUME NEW j \in 1..Len(file) PROVE file[j] \in {data[j], 0}
    <3>1. j \in Nat /\ j >= 1
      BY <2>9
    <3>2. CASE j > at
      BY <2>5, <3>2
    <3>3. CASE ~(j > at) /\ j <= Len(base)
      <4>1. j \in 1..Len(base)
        BY <2>6, <3>1, <3>3
      <4>2. file[j] = base[j]
        BY <2>5, <3>3
      <4> QED BY <2>6, <4>1, <4>2
    <3>4. CASE ~(j > at) /\ ~(j <= Len(base))
      BY <2>5, <3>4
    <3> QED BY <3>2, <3>3, <3>4
  <2>11. file \in Seq(W)
    <3>1. \A j \in 1..Len(file) : j \in 1..Len(data)
      BY <1>1, <2>9
    <3>2. \A j \in 1..Len(file) : file[j] \in W
      BY <1>1, <2>10, <3>1 DEF W
    <3> QED BY <2>5, <3>2, Zenon
  <2>12. ASSUME NEW c \in 1..i, writes[c].moved = CHUNK,
                \A later \in c + 1..i + 1 : ~writes[later].anew,
                NEW j \in ChunkOf(data, c)
         PROVE  j <= Len(file) /\ file[j] = data[j]
    <3>1. i # 0 /\ ~io.anew /\ j <= Len(old) /\ old[j] = data[j]
      BY <1>5, <2>12 DEF io
    <3>2. base = old /\ j \in Nat /\ 0 < j
      BY <1>1, <1>6, <3>1 DEF base
    <3>3. j <= Len(base) /\ base[j] = data[j] /\ j <= at /\ Len(base) <= Len(file)
      <4>1. j <= Len(base) /\ base[j] = data[j]
        BY <3>1, <3>2, Zenon
      <4>2. at \in Nat /\ n \in Nat /\ at <= n
        <5>1. at \in Nat /\ n \in at..Len(data)
          BY <1>1, <2>7, Zenon
        <5> QED BY <5>1
      <4>3. Len(base) \in Nat /\ Len(base) <= at /\ Len(file) = IF n = at THEN Len(base) ELSE n
        BY <2>5, <2>6, Zenon
      <4>4. Len(base) <= Len(file)
        BY <4>2, <4>3
      <4> QED BY <3>2, <4>1, <4>2, <4>3, <4>4
    <3>4. j \in 1..Len(file) /\ ~(j > at)
      BY <1>1, <2>6, <2>9, <3>2, <3>3
    <3>5. file[j] = base[j]
      BY <2>5, <3>3, <3>4
    <3> QED BY <2>6, <2>9, <3>3, <3>4, <3>5
  <2>13. ASSUME io.moved = CHUNK, NEW j \in ChunkOf(data, i + 1)
         PROVE  j <= Len(file) /\ file[j] = data[j]
    <3>1. j \in 1..Len(data) /\ at < j /\ j <= at + CHUNK
      BY <1>1
    <3>2. n = (IF at + CHUNK < Len(data) THEN at + CHUNK ELSE Len(data))
      BY <2>7, <2>13
    <3>3. j \in Nat /\ j >= 1 /\ at \in Nat /\ CHUNK \in Nat /\ Len(data) \in Nat
          /\ j <= Len(data)
      BY <1>1, <3>1
    <3>4. j <= n /\ n # at
      BY <3>1, <3>2, <3>3
    <3>5. Len(file) = n
      BY <2>5, <3>4
    <3>6. j \in 1..Len(file) /\ j > at
      BY <2>9, <3>1, <3>3, <3>4, <3>5
    <3> QED BY <2>5, <2>9, <3>6
  <2>14. ASSUME NEW c \in 1..i + 1, writes[c].moved = CHUNK,
                \A later \in c + 1..i + 1 : ~writes[later].anew,
                NEW j \in ChunkOf(data, c)
         PROVE  j <= Len(file) /\ file[j] = data[j]
    <3>1. CASE c = i + 1
      BY <2>13, <2>14, <3>1 DEF io
    <3>2. CASE c # i + 1
      <4>1. c \in 1..i
        BY <3>2
      <4> QED BY <2>12, <2>14, <4>1
    <3> QED BY <3>1, <3>2
  <2> QED BY <2>9, <2>10, <2>11, <2>14 DEF InPlace, W, file, io
<1>8. CASE ~(at < Len(data) \/ at = 0)
  <2>1. file = old
    <3>1. (i + 1) - 1 = i
      OBVIOUS
    <3> QED BY <1>8, <3>1 DEF WriteMore
  <2>2. i # 0 /\ Moved(data, i + 1) = Moved(data, i)
    BY <1>1, <1>2, <1>8
  <2>3. ChunkOf(data, i + 1) = {}
    BY <1>1, <1>8
  <2>4. InPlace(old, data, writes, i)
    BY <2>2
  <2>5. ASSUME NEW c \in 1..i + 1, writes[c].moved = CHUNK,
               \A later \in c + 1..i + 1 : ~writes[later].anew,
               NEW j \in ChunkOf(data, c)
        PROVE  j <= Len(old) /\ old[j] = data[j]
    <3>1. c # i + 1
      BY <2>3, <2>5
    <3>2. c \in 1..i
      BY <3>1
    <3> QED BY <1>5, <2>5, <3>2
  <2> HIDE DEF file
  <2>6. InPlace(old, data, writes, i + 1)
    BY <2>2, <2>4, <2>5 DEF InPlace
  <2> QED BY <2>1, <2>6 DEF file
<1> QED BY <1>7, <1>8

\* Every unit of the data lies in one of the chunks.
LEMMA InSomeChunk ==
  ASSUME NEW V, NEW data \in Seq(V), NEW rounds \in Nat, Len(data) <= rounds * CHUNK,
         NEW j \in 1..Len(data)
  PROVE  \E c \in 1..rounds : j \in ChunkOf(data, c)
<1> DEFINE T == {i \in 0..rounds : i * CHUNK < j}
<1>1. /\ Len(data) \in Nat /\ j \in Nat /\ 1 <= j
      /\ \A i \in 0..rounds : i \in Nat /\ i * CHUNK \in Nat
                              /\ (i + 1) * CHUNK = i * CHUNK + CHUNK
      /\ 0 * CHUNK = 0 /\ DOMAIN data = 1..Len(data)
  <2> HIDE DEF T
  <2>1. \A i \in Nat : i * CHUNK \in Nat /\ (i + 1) * CHUNK = i * CHUNK + CHUNK
    BY OneMoreChunk
  <2>2. 0 * CHUNK = 0
    BY OneMoreChunk
  <2>3. \A i \in 0..rounds : i \in Nat
    OBVIOUS
  <2>4. Len(data) \in Nat /\ j \in Nat /\ 1 <= j /\ DOMAIN data = 1..Len(data)
    OBVIOUS
  <2> QED BY <2>1, <2>2, <2>3, <2>4
<1>2. 0 \in T /\ T \subseteq 0..rounds
  BY <1>1
<1>3. PICK i \in T : \A k \in T : k <= i
  <2> HIDE DEF T
  <2>1. T # {}
    BY <1>2
  <2> QED BY <1>2, <2>1, Largest
<1>4. i \in 0..rounds /\ i * CHUNK < j /\ (i + 1) - 1 = i
  OBVIOUS
<1>5. i # rounds
  BY <1>1, <1>4
<1>6. i + 1 \in 1..rounds /\ i + 1 \in 0..rounds /\ ~(i + 1 <= i)
  BY <1>4, <1>5
<1>7. ~((i + 1) * CHUNK < j)
  BY <1>3, <1>6
<1>8. (i + 1) * CHUNK \in Nat
  BY <1>1, <1>6
<1>9. j <= (i + 1) * CHUNK
  BY <1>1, <1>7, <1>8
<1> QED BY <1>1, <1>4, <1>6, <1>9 DEF ChunkOf

LEMMA SliceIsSeq ==
  ASSUME NEW V, NEW file \in Seq(V), NEW k \in Nat, NEW len \in Nat
  PROVE  Slice(file, k, len) \in Seq(V)
<1>1. CASE k <= Len(file)
  <2>1. k \in 0..Len(file)
    BY <1>1
  <2> QED BY <2>1, SliceFollows
<1>2. CASE ~(k <= Len(file))
  <2>1. Len(file) \in Nat /\ ~(k + len < Len(file)) /\ k + 1 > Len(file)
    BY <1>2
  <2>2. Slice(file, k, len) = SubSeq(file, k + 1, Len(file))
    BY <2>1 DEF Slice
  <2>3. SubSeq(file, k + 1, Len(file)) = <<>>
    BY <2>1
  <2> QED BY <2>2, <2>3
<1> QED BY <1>1, <1>2

\* The rounds of the two loops of the client, which are well defined.
UploadRounds(old, data, writes, g) ==
  g = [i \in 0..Len(writes) |->
         IF i = 0 THEN old ELSE WriteMore(g[i - 1], data, i, writes[i])]
DownloadRounds(file, reads, g) ==
  g = [i \in 0..Len(reads) |->
         IF i = 0 THEN [data |-> <<>>, eof |-> FALSE] ELSE ReadMore(file, g[i - 1], reads[i])]

LEMMA UploadSolved ==
  ASSUME NEW V, 0 \in V, NEW data \in Seq(V), NEW old \in Seq(V), NEW rounds \in Nat,
         NEW writes \in [1..rounds -> IoOutcomes]
  PROVE  \E g : UploadRounds(old, data, writes, g)
<1> DEFINE S == Seq(V)
           step == [i \in 0..rounds - 1 |->
                      [f \in S |-> WriteMore(f, data, i + 1, writes[i + 1])]]
<1>1. ASSUME NEW i \in 0..rounds - 1, NEW f \in S
      PROVE  WriteMore(f, data, i + 1, writes[i + 1]) \in S
  <2> DEFINE at == ((i + 1) - 1) * CHUNK
             io == writes[i + 1]
  <2>1. (i + 1) - 1 \in Nat /\ io \in IoOutcomes
    OBVIOUS
  <2>2. at \in Nat /\ CHUNK \in Nat
    <3> DEFINE n == (i + 1) - 1
    <3>1. n \in Nat
      BY <2>1
    <3> HIDE DEF n
    <3>2. n * CHUNK \in Nat /\ CHUNK \in Nat \ {0}
      BY <3>1, OneMoreChunk
    <3> QED BY <3>2 DEF n
  <2>3. io.moved \in Nat
    BY <2>1, <2>2 DEF IoOutcomes
  <2> HIDE DEF at, io
  <2>4. Slice(data, at, CHUNK) \in S
    BY <2>2, SliceIsSeq
  <2>5. Written(f, at, Slice(data, at, CHUNK), io) \in S
    BY <2>2, <2>3, <2>4, WrittenIsSeq
  <2>6. WriteMore(f, data, i + 1, io)
          = IF at < Len(data) \/ at = 0 THEN Written(f, at, Slice(data, at, CHUNK), io) ELSE f
    BY Zenon DEF WriteMore, at
  <2> HIDE DEF S
  <2> QED BY <2>5, <2>6 DEF io
<1>2. step \in [0..rounds - 1 -> [S -> S]]
  <2> HIDE DEF S
  <2> QED BY <1>1
<1>3. PICK g : IterationTo(rounds, g, S, old, step)
  <2> HIDE DEF step
  <2> QED BY <1>2, IteratesTo
<1>4. /\ g \in [0..rounds -> S] /\ g[0] = old
      /\ \A i \in 0..rounds - 1 : g[i + 1] = WriteMore(g[i], data, i + 1, writes[i + 1])
  <2> HIDE DEF S
  <2>1. \A i \in 0..rounds - 1 : g[i] \in S
    BY <1>3 DEF IterationTo
  <2> QED BY <1>3, <2>1 DEF IterationTo
<1> HIDE DEF S, step
<1>5. \A i \in 0..rounds : i # 0 => i - 1 \in 0..rounds - 1 /\ (i - 1) + 1 = i
  OBVIOUS
<1>6. \A i \in 0..rounds : i # 0 => g[i] = WriteMore(g[i - 1], data, i, writes[i])
  BY <1>4, <1>5
<1>7. g = [i \in 0..rounds |-> IF i = 0 THEN old ELSE WriteMore(g[i - 1], data, i, writes[i])]
  BY <1>4, <1>6
<1>8. Len(writes) = rounds
  OBVIOUS
<1> QED BY <1>7, <1>8 DEF UploadRounds

LEMMA DownloadSolved ==
  ASSUME NEW V, NEW file \in Seq(V), NEW rounds \in Nat, NEW reads \in [1..rounds -> 0..CHUNK]
  PROVE  \E g : DownloadRounds(file, reads, g)
<1> DEFINE S == [data : Seq(V), eof : BOOLEAN]
           nothing == [data |-> <<>>, eof |-> FALSE]
           step == [i \in 0..rounds - 1 |-> [f \in S |-> ReadMore(file, f, reads[i + 1])]]
<1>1. ASSUME NEW i \in 0..rounds - 1, NEW f \in S
      PROVE  ReadMore(file, f, reads[i + 1]) \in S
  <2> DEFINE moved == reads[i + 1]
             s == Slice(file, Len(f.data), moved)
  <2>1. CHUNK \in Nat
    BY FileOpsAssumption DEF FileOpsAssumption
  <2>2. moved \in Nat /\ f.data \in Seq(V) /\ Len(f.data) \in Nat
    BY <2>1
  <2> HIDE DEF moved
  <2>3. s \in Seq(V)
    <3> DEFINE k == Len(f.data)
    <3>1. k \in Nat
      BY <2>2
    <3> HIDE DEF k
    <3>2. Slice(file, k, moved) \in Seq(V)
      BY <2>2, <3>1, SliceIsSeq
    <3> QED BY <3>2 DEF k
  <2>4. FsReadResult(file, Len(f.data), CHUNK, moved) = [data |-> s, eof |-> Len(s) < CHUNK]
    BY DEF FsReadResult
  <2> HIDE DEF s
  <2>5. f.data \o s \in Seq(V) /\ (Len(s) < CHUNK) \in BOOLEAN
    BY <2>2, <2>3
  <2>6. CASE f.eof
    <3>1. ReadMore(file, f, moved) = f
      BY <2>6 DEF ReadMore
    <3> QED BY <3>1 DEF moved
  <2>7. CASE ~f.eof
    <3>1. ReadMore(file, f, moved) = [data |-> f.data \o s, eof |-> Len(s) < CHUNK]
      BY <2>4, <2>7 DEF ReadMore
    <3> QED BY <2>5, <3>1 DEF moved
  <2> QED BY <2>6, <2>7
<1>2. step \in [0..rounds - 1 -> [S -> S]] /\ nothing \in S
  <2>1. nothing \in S
    OBVIOUS
  <2> HIDE DEF S
  <2> QED BY <1>1, <2>1
<1>3. PICK g : IterationTo(rounds, g, S, nothing, step)
  <2> HIDE DEF step, S, nothing
  <2> QED BY <1>2, IteratesTo
<1> HIDE DEF nothing
<1>4. /\ g \in [0..rounds -> S] /\ g[0] = nothing
      /\ \A i \in 0..rounds - 1 : g[i + 1] = ReadMore(file, g[i], reads[i + 1])
  <2> HIDE DEF S
  <2>1. \A i \in 0..rounds - 1 : g[i] \in S
    BY <1>3 DEF IterationTo
  <2> QED BY <1>3, <2>1 DEF IterationTo
<1> HIDE DEF S, step
<1>5. \A i \in 0..rounds : i # 0 => i - 1 \in 0..rounds - 1 /\ (i - 1) + 1 = i
  OBVIOUS
<1>6. \A i \in 0..rounds : i # 0 => g[i] = ReadMore(file, g[i - 1], reads[i])
  BY <1>4, <1>5
<1>7. g = [i \in 0..rounds |-> IF i = 0 THEN nothing ELSE ReadMore(file, g[i - 1], reads[i])]
  BY <1>4, <1>6
<1>8. Len(reads) = rounds
  OBVIOUS
<1> QED BY <1>7, <1>8 DEF nothing, DownloadRounds

\* What an upload over any file leaves, when each request may be written short and may open
\* the file anew (AgentClient.write_file, agentd.py:303-311, over fs.write, fs.cpp:108-126):
\* nothing of the old file and nothing out of place, the chunks that were written whole and
\* not undone, zeros where a later chunk skipped what is missing, and, when no request fell
\* short, exactly the data.
THEOREM UploadLosesTheUnwritten ==
  ASSUME NEW V, 0 \in V, NEW data \in Seq(V), NEW old \in Seq(V),
         NEW rounds \in Nat, rounds # 0, Len(data) <= rounds * CHUNK,
         NEW writes \in [1..rounds -> IoOutcomes]
  PROVE  LET file == WriteFile(old, data, writes)
             unhurt == \A c \in 1..rounds : writes[c].moved = CHUNK /\ ~writes[c].anew
         IN /\ Len(file) <= Len(data) /\ DOMAIN file = 1..Len(file)
            /\ \A i \in 1..Len(file) : file[i] \in {data[i], 0}
            /\ \A c \in 1..rounds : WrittenForGood(writes, c) =>
                  \A i \in ChunkOf(data, c) : i <= Len(file) /\ file[i] = data[i]
            /\ unhurt => file = data
<1> DEFINE Solves(g) == UploadRounds(old, data, writes, g)
           file == CHOOSE g : Solves(g)
           W == {0} \cup {data[j] : j \in DOMAIN data}
<1>1. /\ rounds \in Nat /\ 0 \in 0..rounds /\ Len(writes) = rounds
      /\ \A i \in 0..rounds - 1 : i \in Nat /\ i \in 0..rounds /\ i + 1 \in 0..rounds
                                 /\ i + 1 \in 1..rounds /\ i + 1 # 0 /\ (i + 1) - 1 = i
      /\ \A i \in 0..rounds : i # 0 => /\ i - 1 \in Nat /\ i - 1 \in 0..rounds - 1
                                       /\ (i - 1) + 1 = i /\ i \in 1..rounds
  OBVIOUS
<1>2. \E g : Solves(g)
  <2>1. rounds \in Nat
    OBVIOUS
  <2> QED BY <2>1, UploadSolved
<1>3. Solves(file)
  <2> HIDE DEF Solves
  <2> QED BY <1>2
<1>4. WriteFile(old, data, writes) = file[Len(writes)]
  BY DEF WriteFile, UploadRounds
<1> HIDE DEF file
<1>5. \A i \in 0..rounds - 1 : file[i + 1] = WriteMore(file[i], data, i + 1, writes[i + 1])
  BY <1>1, <1>3 DEF UploadRounds
<1> DEFINE T == {i \in 0..rounds : i # 0 => InPlace(file[i], data, writes, i)}
<1> HIDE DEF Solves
<1>6. 0 \in T
  BY <1>1
<1>7. ASSUME NEW i \in 0..rounds - 1, i \in T PROVE i + 1 \in T
  <2>1. i \in Nat /\ i + 1 \in 0..rounds /\ writes[i + 1] \in IoOutcomes
    BY <1>1
  <2>2. i # 0 => InPlace(file[i], data, writes, i)
    BY <1>7
  <2>3. InPlace(WriteMore(file[i], data, i + 1, writes[i + 1]), data, writes, i + 1)
    BY <2>1, <2>2, WritesOn
  <2> QED BY <1>5, <2>1, <2>3
<1>8. \A i \in 0..rounds : i \in T
  <2> HIDE DEF T
  <2> QED BY <1>1, <1>6, <1>7, UpTo
<1> DEFINE left == file[rounds]
<1>9. InPlace(left, data, writes, rounds)
  BY <1>1, <1>8
<1>10. Moved(data, rounds) = Len(data)
  BY OneMoreChunk DEF Moved
<1> HIDE DEF left
<1>11. /\ left \in Seq(W) /\ Len(left) <= Len(data) /\ DOMAIN left = 1..Len(left)
       /\ \A i \in 1..Len(left) : left[i] \in {data[i], 0}
       /\ \A c \in 1..rounds : WrittenForGood(writes, c) =>
             \A i \in ChunkOf(data, c) : i <= Len(left) /\ left[i] = data[i]
  <2>1. /\ left \in Seq(W) /\ Len(left) <= Len(data)
        /\ \A i \in 1..Len(left) : left[i] \in {data[i], 0}
    BY <1>9, <1>10 DEF InPlace
  <2>2. DOMAIN left = 1..Len(left)
    BY <2>1
  <2>3. \A c \in 1..rounds :
           writes[c].moved = CHUNK /\ (\A later \in c + 1..rounds : ~writes[later].anew) =>
              \A j \in ChunkOf(data, c) : j <= Len(left) /\ left[j] = data[j]
    BY <1>9 DEF InPlace
  <2>4. \A c \in 1..rounds : WrittenForGood(writes, c) =>
           \A i \in ChunkOf(data, c) : i <= Len(left) /\ left[i] = data[i]
    BY <1>1, <2>3 DEF WrittenForGood
  <2> QED BY <2>1, <2>2, <2>4
<1>12. ASSUME \A c \in 1..rounds : writes[c].moved = CHUNK /\ ~writes[c].anew
       PROVE  left = data
  <2>1. \A c \in 1..rounds : WrittenForGood(writes, c)
    BY <1>1, <1>12 DEF WrittenForGood
  <2>2. \A i \in 1..Len(data) : i <= Len(left) /\ left[i] = data[i]
    BY <1>11, <2>1, InSomeChunk
  <2>3. Len(left) = Len(data)
    <3>1. Len(left) \in Nat /\ Len(data) \in Nat /\ Len(left) <= Len(data)
      BY <1>11
    <3>2. Len(data) # 0 => Len(data) \in 1..Len(data)
      BY <3>1
    <3> QED BY <2>2, <3>1, <3>2
  <2>4. left \in Seq(W \cup V) /\ data \in Seq(W \cup V)
    BY <1>11
  <2> HIDE DEF W
  <2> QED BY <2>2, <2>3, <2>4, SeqEqual
<1>13. WriteFile(old, data, writes) = left
  BY <1>1, <1>4 DEF left
<1> QED BY <1>11, <1>12, <1>13

\* What a download gets, when any read may fall short (AgentClient.read_file,
\* agentd.py:293-301, over fs.read, fs.cpp:69-88): it ends, with a beginning of the file,
\* which is all of it unless a read fell short; with one request more when the last chunk is
\* full.
THEOREM DownloadIsABeginning ==
  ASSUME NEW V, NEW file \in Seq(V), NEW rounds \in Nat, rounds * CHUNK > Len(file),
         NEW reads \in [1..rounds -> 0..CHUNK]
  PROVE  \E n \in 0..Len(file) :
            /\ ReadFile(file, reads) = [data |-> Beginning(file, n), eof |-> TRUE]
            /\ (\A i \in 1..rounds : reads[i] = CHUNK) => n = Len(file)
<1> DEFINE nothing == [data |-> <<>>, eof |-> FALSE]
           Solves(g) == DownloadRounds(file, reads, g)
           got == CHOOSE g : Solves(g)
           whole == \A i \in 1..rounds : reads[i] = CHUNK
<1>1. /\ rounds \in Nat /\ 0 \in 0..rounds /\ Len(reads) = rounds
      /\ \A i \in 0..rounds - 1 : i \in Nat /\ i \in 0..rounds /\ i + 1 \in 0..rounds
                                 /\ i + 1 \in 1..rounds /\ i + 1 # 0 /\ (i + 1) - 1 = i
  OBVIOUS
<1>2. \E g : Solves(g)
  BY DownloadSolved
<1>3. Solves(got)
  <2> HIDE DEF Solves
  <2> QED BY <1>2
<1>4. ReadFile(file, reads) = got[Len(reads)]
  BY DEF ReadFile, DownloadRounds
<1> HIDE DEF got
<1>5. /\ got[0] = nothing
      /\ \A i \in 0..rounds - 1 : got[i + 1] = ReadMore(file, got[i], reads[i + 1])
  BY <1>1, <1>3 DEF DownloadRounds
<1> DEFINE T == {i \in 0..rounds : IsBeginning(got[i], file, whole, i)}
<1> HIDE DEF Solves
<1>6. 0 \in T
  <2>1. 0 * CHUNK = 0 /\ Len(file) \in Nat
    BY OneMoreChunk
  <2>2. Beginning(file, 0) = <<>>
    BY DEF Beginning
  <2>3. IsBeginning(nothing, file, whole, 0)
    <3>1. nothing.data = <<>> /\ nothing.eof = FALSE /\ 0 \in 0..Len(file)
      BY <2>1
    <3>2. nothing = [data |-> Beginning(file, 0), eof |-> nothing.eof]
      BY <2>2
    <3> HIDE DEF nothing, whole
    <3> QED BY <2>1, <2>2, <3>1, <3>2 DEF IsBeginning
  <2> HIDE DEF nothing, whole
  <2> QED BY <1>1, <1>5, <2>3
<1>7. ASSUME NEW i \in 0..rounds - 1, i \in T PROVE i + 1 \in T
  <2>1. i \in Nat /\ i + 1 \in 0..rounds /\ i + 1 \in 1..rounds /\ reads[i + 1] \in 0..CHUNK
    BY <1>1
  <2>2. /\ IsBeginning(got[i], file, whole, i)
        /\ whole \in BOOLEAN
        /\ whole => reads[i + 1] = CHUNK
    BY <1>7, <2>1
  <2> HIDE DEF whole
  <2>3. IsBeginning(ReadMore(file, got[i], reads[i + 1]), file, whole, i + 1)
    BY <2>1, <2>2, ReadsOn
  <2> QED BY <1>5, <2>1, <2>3
<1>8. \A i \in 0..rounds : i \in T
  <2> HIDE DEF T
  <2> QED BY <1>1, <1>6, <1>7, UpTo
<1> HIDE DEF whole, nothing
<1>9. IsBeginning(got[rounds], file, whole, rounds)
  BY <1>1, <1>8
<1>10. PICK n \in 0..Len(file) :
        /\ got[rounds].data = Beginning(file, n)
        /\ got[rounds] = [data |-> Beginning(file, n), eof |-> got[rounds].eof]
        /\ got[rounds].eof \in BOOLEAN
        /\ ~got[rounds].eof => n = rounds * CHUNK
        /\ got[rounds].eof /\ whole => n = Len(file)
  BY <1>9 DEF IsBeginning
<1>11. got[rounds].eof
  <2>1. rounds * CHUNK \in Nat /\ Len(file) \in Nat
    BY OneMoreChunk
  <2>2. n # rounds * CHUNK
    BY <2>1
  <2> QED BY <1>10, <2>2
<1>12. got[rounds] = [data |-> Beginning(file, n), eof |-> TRUE]
  BY <1>10, <1>11
<1>13. whole => n = Len(file)
  BY <1>10, <1>11, Zenon
<1>14. ReadFile(file, reads) = got[rounds]
  BY <1>1, <1>4
<1> QED BY <1>12, <1>13, <1>14 DEF whole

\* The transfers of the runs are among those of the two theorems above: two requests write
\* two chunks, and three read them.
LEMMA SmallTransfers == DownloadsAreBeginnings /\ UploadsAreInPlace
<1>1. CHUNK \in Nat \ {0}
  BY FileOpsAssumption DEF FileOpsAssumption
<1>2. ASSUME NEW n \in 0..2 * CHUNK, NEW reads \in [1..3 -> 0..CHUNK]
      PROVE  LET data == [i \in 1..n |-> i]
                 got == ReadFile(data, reads)
             IN /\ got.eof /\ IsPrefix(got.data, data)
                /\ (\A i \in 1..3 : reads[i] = CHUNK) => got.data = data
  <2> DEFINE data == [i \in 1..n |-> i]
             got == ReadFile(data, reads)
  <2>1. n \in Nat /\ 3 * CHUNK > n
    BY <1>1
  <2>2. data \in [1..n -> Nat]
    BY <2>1
  <2> HIDE DEF data
  <2>3. data \in Seq(Nat) /\ Len(data) = n /\ 3 * CHUNK > Len(data)
    BY <2>1, <2>2
  <2>4. PICK k \in 0..Len(data) :
           /\ got = [data |-> Beginning(data, k), eof |-> TRUE]
           /\ (\A i \in 1..3 : reads[i] = CHUNK) => k = Len(data)
    BY <2>3, DownloadIsABeginning
  <2> HIDE DEF got
  <2>5. got.eof /\ got.data = Beginning(data, k)
    BY <2>4
  <2>6. /\ Beginning(data, k) \in Seq(Nat) /\ Len(Beginning(data, k)) = k
        /\ \A j \in 1..k : Beginning(data, k)[j] = data[j]
        /\ k = Len(data) => Beginning(data, k) = data
    BY <2>3, BeginningIsSeq
  <2>7. IsPrefix(Beginning(data, k), data)
    <3> DEFINE b == Beginning(data, k)
    <3>1. b \in Seq(Nat) /\ data \in Seq(Nat) /\ Len(b) = k /\ k <= Len(data) /\ k \in Nat
          /\ Len(data) \in Nat
      BY <2>3, <2>6
    <3> HIDE DEF b
    <3>2. SubSeq(data, 1, k) \in Seq(Nat) /\ Len(SubSeq(data, 1, k)) = k
          /\ \A j \in 1..k : SubSeq(data, 1, k)[j] = data[j]
      BY <3>1
    <3>3. b = SubSeq(data, 1, k)
      BY <2>6, <3>1, <3>2, SeqEqual DEF b
    <3> QED BY <3>1, <3>3 DEF b, IsPrefix
  <2> QED BY <2>4, <2>5, <2>6, <2>7 DEF data, got
<1>3. ASSUME NEW n \in 0..2 * CHUNK, NEW m \in 0..2 * CHUNK, NEW writes \in [1..2 -> IoOutcomes]
      PROVE  LET data == [i \in 1..n |-> i]
                 old == [i \in 1..m |-> n + i]
                 file == WriteFile(old, data, writes)
             IN /\ Len(file) <= n /\ \A i \in DOMAIN file : file[i] \in {data[i], 0}
                /\ \A c \in 1..2 : WrittenForGood(writes, c) =>
                      \A i \in ChunkOf(data, c) : i <= Len(file) /\ file[i] = data[i]
  <2> DEFINE data == [i \in 1..n |-> i]
             old == [i \in 1..m |-> n + i]
             file == WriteFile(old, data, writes)
  <2>1. n \in Nat /\ m \in Nat /\ n <= 2 * CHUNK
    BY <1>1
  <2>2. data \in [1..n -> Nat] /\ old \in [1..m -> Nat]
    BY <2>1
  <2> HIDE DEF data, old
  <2>3. data \in Seq(Nat) /\ old \in Seq(Nat) /\ Len(data) = n /\ Len(data) <= 2 * CHUNK
    BY <2>1, <2>2
  <2>4. /\ Len(file) <= Len(data)
        /\ DOMAIN file = 1..Len(file)
        /\ \A i \in 1..Len(file) : file[i] \in {data[i], 0}
        /\ \A c \in 1..2 : WrittenForGood(writes, c) =>
              \A i \in ChunkOf(data, c) : i <= Len(file) /\ file[i] = data[i]
    <3>1. 2 \in Nat /\ 2 # 0 /\ 0 \in Nat
      OBVIOUS
    <3>2. LET left == WriteFile(old, data, writes)
              unhurt == \A c \in 1..2 : writes[c].moved = CHUNK /\ ~writes[c].anew
          IN /\ Len(left) <= Len(data) /\ DOMAIN left = 1..Len(left)
             /\ \A i \in 1..Len(left) : left[i] \in {data[i], 0}
             /\ \A c \in 1..2 : WrittenForGood(writes, c) =>
                   \A i \in ChunkOf(data, c) : i <= Len(left) /\ left[i] = data[i]
             /\ unhurt => left = data
      <4>1. writes \in [1..2 -> IoOutcomes]
        OBVIOUS
      <4> QED BY <2>3, <3>1, <4>1, UploadLosesTheUnwritten
    <3> QED BY <3>2, Zenon
  <2> HIDE DEF file
  <2> QED BY <2>3, <2>4 DEF data, old, file
<1>4. DownloadsAreBeginnings
  BY <1>2, Zenon DEF DownloadsAreBeginnings
<1>5. UploadsAreInPlace
  BY <1>3, Zenon DEF UploadsAreInPlace
<1> QED BY <1>4, <1>5

\* What the runs check of the transfers, on files of up to two chunks over a card that fails
\* as it likes (AgentClient.read_file and write_file, agentd.py:293-311).
THEOREM TransfersLoseLittle == Spec => []TransfersLoseTheUnmoved
<1>1. TransfersLoseTheUnmoved
  BY SmallTransfers DEF TransfersLoseTheUnmoved
<1> QED BY <1>1, PTL

=============================================================================
