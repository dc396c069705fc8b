------------------------ MODULE RestoreExecutorProofs ------------------------
(***************************************************************************)
(* Proofs about RestoreExecutor, for any sets of identifiers and any       *)
(* number of crashes, shutdowns, cancels, failures and deletions: its      *)
(* types, what a resumed restore finds (UsesWhatExists), what is handed    *)
(* over (RestoredIsWhole, CompleteIsRestored), what a deletion leaves      *)
(* (DeletedIsGone).                                                        *)
(*                                                                         *)
(* The first induction (IInv) follows the temporary volume.  From its      *)
(* creation to the end of the copy nobody takes its content for granted;   *)
(* from then on, in this run of the executor or in a later one, place or   *)
(* saved progress say "copied", and they say so of a whole volume.  The    *)
(* one exception is a rollback, which saves the same progress over a       *)
(* volume it is about to delete: that is what RollsBack and rollbackCut    *)
(* are about.  The second (DoneInv) follows the volume that was given its  *)
(* name: whatever is deleted after that is another one.                    *)
(***************************************************************************)
EXTENDS RestoreExecutor, TLAPS

-----------------------------------------------------------------------------
(* The inductive invariant                                                 *)

\* What a value of TaskEntry may be.
Entries == [status : Statuses, progress : Progresses,
            volume : Ids, snapshot : SnapshotIds \union {NoId}]

\* A thread writes to a volume that is its own and no one else's ...
Writing == {"checkWaiting", "waitingTempVolume", "waitForVolume", "checkAttaching",
            "attachingVolume", "attachVolume", "checkAttached", "startCopy", "copy"}

\* ... and then goes by what is on it.
Reading == {"detachingTempVolume", "checkDetaching", "detachVolume", "compareZones",
            "resumeWaiting", "nameTempVolume", "creatingSnapshot", "createSnapshot"}

\* From the copy on, what is on the volume is what the backup was.
AfterCopy == Reading \union
  {"saveSnapshotId", "waitingSnapshot", "checkMoving", "moveToTargetZone", "nameRestored",
   "deletingTempVolume", "deleteVolume", "deletingTempSnapshot", "deleteSnapshot", "completeTask"}

\* Progress that is saved after the copy.
Copied == {"DETACHING_TEMP_VOLUME", "CREATING_SNAPSHOT", "WAITING_SNAPSHOT",
           "DELETING_TEMP_VOLUME", "DELETING_TEMP_SNAPSHOT", "DONE"}

\* Statuses of a record from which execute may start, now or after a restart.
Live == {"queued", "running", "partially_finished"}

\* A snapshot is there, and has what it should have.
Present(s) ==
  /\ s # NoId
  /\ snapshots[s] \notin {"none", "deleted"}
  /\ ~rollbackCut => snapshots[s] = "whole"

\* Progress that is saved before the restore makes its snapshot.
BeforeSnapshot == {"NONE", "STARTED", "CREATING_TEMP_VOLUME", "WAITING_TEMP_VOLUME",
                   "ATTACHING_VOLUME", "DETACHING_TEMP_VOLUME"}

\* An entry names what its progress needs, and no snapshot too early.
HasIds(e) ==
  /\ e.progress \in {"WAITING_TEMP_VOLUME", "ATTACHING_VOLUME", "CREATING_SNAPSHOT",
                     "WAITING_SNAPSHOT"} => e.volume # NoId
  /\ e.progress = "WAITING_SNAPSHOT" => Present(e.snapshot)
  /\ e.progress = "CREATING_SNAPSHOT" /\ e.snapshot # NoId => Present(e.snapshot)
  /\ e.progress \in BeforeSnapshot => e.snapshot = NoId

\* The thread's copy and the record differ in their status, and in a snapshot
\* that is not saved yet; or the record is gone.
RecordsOK ==
  /\ HasIds(rec) /\ HasIds(ent)
  /\ rec = NoRecord \/ (rec.progress = ent.progress /\ rec.volume = ent.volume)

\* Some places go with one progress.
ProgressOK ==
  /\ pc = "lookup" => ent.progress \notin Cleanings
  /\ pc \in {"useBackupEntry", "checkCreating", "createVolume", "checkCreated", "saveVolumeId"}
       => ent.progress = "CREATING_TEMP_VOLUME"
  /\ pc \in {"attachVolume", "checkAttached", "startCopy", "copy"}
       => ent.progress = "ATTACHING_VOLUME"
  /\ pc = "resumeDelete" => ent.progress = "DELETING_TEMP_VOLUME"
  /\ pc = "creatingSnapshot" => ent.progress \in {"DETACHING_TEMP_VOLUME", "CREATING_SNAPSHOT"}
  /\ pc \in {"checkDetaching", "detachVolume"} => ent.progress = "DETACHING_TEMP_VOLUME"
  /\ pc = "createSnapshot" => ent.progress = "CREATING_SNAPSHOT"
  /\ pc \in {"cleanSnapshot", "deleteSnapshot"}
       => ent.progress = "DELETING_TEMP_SNAPSHOT"

\* A task never changes from files to snapshots, for the entry of a snapshot is
\* not written again.
ByFile == request.fromFile \/ ~backup.snapshotEntry

FilePath == {"lookup", "started", "checkStarted", "creatingTempVolume", "useBackupEntry",
             "checkCreating", "createVolume", "checkCreated", "saveVolumeId",
             "resumeDetaching", "resumeDetach", "resumeDeleting", "resumeDelete"}

SnapshotPath == {"snapshotExists", "checkSnapshot", "createFromSnapshot", "nameFromSnapshot",
                 "deleteCanceled", "done"}

\* A thread knows of a snapshot when it needs one, and not before.
SnapshotOK ==
  /\ pc \in {"resumeWaiting", "saveSnapshotId", "waitingSnapshot", "checkMoving", "moveToTargetZone"}
       => Present(ent.snapshot)
  /\ pc \in (FilePath \ {"lookup"}) \union Writing \union {"detachingTempVolume"}
       => ent.snapshot = NoId

\* The local variables name the volumes the steps ask EC2 for.
VolumeOK ==
  /\ pc \in Writing \union Reading /\ tempVolume # NoId
       => tempVolume = ent.volume /\ Exists(tempVolume)
  /\ pc \in Writing \union {"creatingSnapshot", "createSnapshot", "nameTempVolume"}
       => tempVolume # NoId
  /\ pc \in {"checkCreated", "saveVolumeId"} => Exists(tempVolume)
  /\ pc \in {"resumeWaiting", "saveSnapshotId", "waitingSnapshot"} => ent.volume # NoId
  /\ pc \in {"nameFromSnapshot", "nameRestored"} => volumeToRestore # NoId

\* A restore keeps to its path.
PathOK ==
  /\ ent.volume # NoId => ByFile
  /\ pc \in FilePath => ByFile
  /\ pc \in SnapshotPath => ent.volume = NoId

\* EC2 knows every volume anybody names, so it never hands out one of them
\* again; nobody has been given the one that is written to.
Known(v) == v # NoId => volumes[v].state # "none"

FreshOK ==
  /\ \A v \in restored : Known(v)
  /\ Known(ent.volume) /\ Known(tempVolume) /\ Known(volumeToRestore)
  /\ pc \in (Writing \ {"copy"}) \union {"checkCreated", "saveVolumeId"}
       => tempVolume \notin restored

WholeIfAny(v) == v # NoId => volumes[v].data = "whole"

\* What says it is copied is whole.
WholeOK ==
  ~rollbackCut =>
    /\ \A v \in restored : volumes[v].data = "whole"
    /\ pc \in AfterCopy => WholeIfAny(ent.volume)
    /\ pc \in {"nameFromSnapshot", "nameRestored"} => WholeIfAny(volumeToRestore)
    /\ (pc # "idle" \/ rec.status \in Live) /\ ent.progress \in Copied /\ ~RollsBack
         => WholeIfAny(ent.volume)

IInv ==
  TypeOK /\ RecordsOK /\ ProgressOK /\ VolumeOK /\ SnapshotOK /\ PathOK /\ FreshOK /\ WholeOK

-----------------------------------------------------------------------------
(* The tables of execute                                                   *)

\* The steps that begin with setProgress, by name.
LEMMA ProgressNames ==
  DOMAIN ProgressSteps =
    {"started", "creatingTempVolume", "waitingTempVolume", "attachingVolume",
     "detachingTempVolume", "creatingSnapshot", "waitingSnapshot", "deletingTempVolume",
     "deletingTempSnapshot", "resumeDetaching", "resumeDeleting", "resumeWaiting",
     "interruptedCleaning", "failCleaning", "cleaningSnapshot", "cleaningVolume", "done"}
BY DEF ProgressSteps

\* The calls of checkThreadInterruption, by name.
LEMMA CheckNames ==
  DOMAIN CheckSteps =
    {"checkStarted", "checkCreating", "checkCreated", "checkWaiting", "checkAttaching",
     "checkAttached", "checkDetaching", "checkMoving", "checkSnapshot"}
BY DEF CheckSteps

\* The progress that is saved, by name.
LEMMA ProgressValues ==
  Progresses = {"NONE", "STARTED", "CREATING_TEMP_VOLUME", "WAITING_TEMP_VOLUME",
                "ATTACHING_VOLUME", "DETACHING_TEMP_VOLUME", "CREATING_SNAPSHOT",
                "WAITING_SNAPSHOT", "DELETING_TEMP_VOLUME", "DELETING_TEMP_SNAPSHOT",
                "INTERRUPTED_CLEANING", "FAIL_CLEANING", "DONE"}
<1> USE ProgressNames
<1>1. \A s \in DOMAIN ProgressSteps :
        ProgressSteps[s][1] \in
               {"STARTED", "CREATING_TEMP_VOLUME", "WAITING_TEMP_VOLUME",
                "ATTACHING_VOLUME", "DETACHING_TEMP_VOLUME", "CREATING_SNAPSHOT",
                "WAITING_SNAPSHOT", "DELETING_TEMP_VOLUME", "DELETING_TEMP_SNAPSHOT",
                "INTERRUPTED_CLEANING", "FAIL_CLEANING", "DONE"}
  BY DEF ProgressSteps
<1>2. /\ ProgressSteps["started"][1] = "STARTED"
      /\ ProgressSteps["creatingTempVolume"][1] = "CREATING_TEMP_VOLUME"
      /\ ProgressSteps["waitingTempVolume"][1] = "WAITING_TEMP_VOLUME"
      /\ ProgressSteps["attachingVolume"][1] = "ATTACHING_VOLUME"
      /\ ProgressSteps["detachingTempVolume"][1] = "DETACHING_TEMP_VOLUME"
      /\ ProgressSteps["creatingSnapshot"][1] = "CREATING_SNAPSHOT"
      /\ ProgressSteps["waitingSnapshot"][1] = "WAITING_SNAPSHOT"
      /\ ProgressSteps["deletingTempVolume"][1] = "DELETING_TEMP_VOLUME"
      /\ ProgressSteps["deletingTempSnapshot"][1] = "DELETING_TEMP_SNAPSHOT"
      /\ ProgressSteps["interruptedCleaning"][1] = "INTERRUPTED_CLEANING"
      /\ ProgressSteps["failCleaning"][1] = "FAIL_CLEANING"
      /\ ProgressSteps["done"][1] = "DONE"
  BY DEF ProgressSteps
<1>3. QED
  BY <1>1, <1>2 DEF Progresses

\* Every table leads to places of execute.
LEMMA TablesLead ==
  /\ \A s \in DOMAIN ProgressSteps : ProgressSteps[s][2] \in Pcs
  /\ \A c \in DOMAIN CheckSteps : CheckSteps[c] \in Pcs
  /\ \A p \in Progresses : firstStep(p) \in Pcs
  /\ \A p \in DOMAIN ZoneSteps : ZoneSteps[p] \in Pcs
  /\ OtherSteps \subseteq Pcs
<1> USE ProgressNames, CheckNames DEF Pcs, OtherSteps
<1>1. \A s \in DOMAIN ProgressSteps : ProgressSteps[s][2] \in Pcs
  BY DEF ProgressSteps
<1>2. \A c \in DOMAIN CheckSteps : CheckSteps[c] \in Pcs
  BY DEF CheckSteps
<1>3. \A p \in Progresses : firstStep(p) \in Pcs
  BY DEF firstStep
<1>4. \A p \in DOMAIN ZoneSteps : ZoneSteps[p] \in Pcs
  BY DEF ZoneSteps
<1>5. QED
  BY <1>1, <1>2, <1>3, <1>4

-----------------------------------------------------------------------------
(* The steps by their shape                                                *)

\* What the invariant is about, apart from the place of the thread.
Stay == UNCHANGED <<rec, ent, tempVolume, volumeToRestore, volumes, snapshots, restored, request,
                    rollbackCut>>

\* An exception: the thread drops what it is at and goes to its cleaning.
ThrowsAway ==
  /\ pc \in Checks \union CallsToAws \union {"copy", "useBackupEntry", "compareZones"}
  /\ pc' \in {"failCleaning", "interruptedCleaning"}
  /\ exit' \in {"failed", "canceled", "closing"}
  /\ Stay
  /\ UNCHANGED <<found, closing, deletion, backup>>

ThrowingSteps ==
  \/ callFails \/ isInterrupted \/ (isCanceled /\ pc # "checkSnapshot")
  \/ noSnapshot \/ snapshotIsGone \/ lookupFails \/ noBackupEntry \/ fileIsGone \/ cannotDetach
  \/ noTempVolume \/ cannotNameTempVolume \/ cannotNameRestored \/ cannotDeleteVolume

\* Every way to fail, or to notice a cancel or a shutdown, is an exception.
LEMMA ThrowShape ==
  ASSUME ThrowingSteps
  PROVE  ThrowsAway
<1> USE DEF ThrowsAway, Throws, Stay, others, cloud, CannotGoOn, Checks, CallsToAws
<1>1. CASE callFails \/ isInterrupted \/ (isCanceled /\ pc # "checkSnapshot")
  BY <1>1 DEF callFails, isInterrupted, isCanceled
<1>2. CASE noSnapshot \/ snapshotIsGone \/ lookupFails \/ noBackupEntry \/ fileIsGone
  BY <1>2 DEF noSnapshot, snapshotIsGone, lookupFails, noBackupEntry, fileIsGone
<1>3. CASE \/ cannotDetach \/ noTempVolume \/ cannotNameTempVolume \/ cannotNameRestored
           \/ cannotDeleteVolume
  BY <1>3 DEF cannotDetach, noTempVolume, cannotNameTempVolume, cannotNameRestored,
     cannotDeleteVolume
<1>4. QED
  BY <1>1, <1>2, <1>3 DEF ThrowingSteps

\* Steps of others, which may take the backup away.
OthersStep ==
  /\ Stay
  /\ UNCHANGED <<pc, found, exit>>
  /\ ~backup.snapshotEntry => ~backup'.snapshotEntry

\* Users, the shutdown and the delete task do nothing to the restore itself.
LEMMA OthersShape ==
  ASSUME TypeOK, updateCanceledTasks \/ destroy \/ deleteBackup \/ Delete
  PROVE  OthersStep
<1> USE DEF OthersStep, Stay, thread, cloud, others, restoreOnly
<1>1. CASE updateCanceledTasks \/ destroy \/ deleteBackup
  BY <1>1 DEF updateCanceledTasks, destroy, deleteBackup
<1>2. CASE Delete
  BY <1>2 DEF Delete, deleteTask, deleteFile, deleteKeptSnapshot, deleteSnapshotEntry, deleteEntry,
     DeletePart, TypeOK
<1>3. QED
  BY <1>1, <1>2

\* The steps of execute on a snapshot or before any volume, ...
FirstSteps ==
  \/ resumeCleaning \/ begin \/ snapshotExists \/ (isCanceled /\ pc = "checkSnapshot")
  \/ createFromSnapshot \/ nameFromSnapshot \/ deleteCanceled \/ lookup \/ useBackupEntry

\* ... up to the end of the copy, ...
CopySteps ==
  createVolume \/ saveVolumeId \/ waitForVolume \/ attachVolume \/ startCopy \/ copy

\* ... and after it, ...
LastSteps ==
  \/ detachVolume \/ compareZones \/ nameTempVolume \/ createSnapshot \/ saveSnapshotId
  \/ moveToTargetZone \/ nameRestored \/ deleteVolume \/ deleteSnapshot \/ completeTask

\* ... and those that roll back.
RollbackSteps ==
  resumeDetach \/ resumeDelete \/ cleanSnapshot \/ cleanVolume \/ afterCleaning

\* RestoreNext, by the groups above.
LEMMA NextSteps ==
  ASSUME [RestoreNext]_vars
  PROVE  \/ submit \/ setProgress \/ notInterrupted \/ ThrowingSteps
         \/ FirstSteps \/ CopySteps \/ LastSteps \/ RollbackSteps
         \/ updateCanceledTasks \/ destroy \/ deleteBackup \/ Delete
         \/ cancel \/ restart \/ UNCHANGED vars
BY DEF RestoreNext, Execute, ThrowingSteps, FirstSteps, CopySteps, LastSteps, RollbackSteps

-----------------------------------------------------------------------------
(* Type correctness                                                        *)

\* Entries are made of parts of their types.
LEMMA EntryTypes ==
  ASSUME NEW e \in Entries, NEW st \in Statuses, NEW pr \in Progresses, NEW v \in Ids
  PROVE  /\ WithStatus(e, st) \in Entries /\ WithProgress(e, pr) \in Entries
         /\ Entry(st, pr, v, e.snapshot) \in Entries
         /\ NoRecord \in Entries
BY DEF Entries, WithStatus, WithProgress, Entry, NoRecord, Ids, Statuses, Progresses

\* A new event counts.
LEMMA EventTypes ==
  ASSUME TypeOK, NEW kind \in Kinds, Happens(kind)
  PROVE  events' \in [Kinds -> Nat]
BY DEF TypeOK, Happens

\* What is on a new volume is something.
LEMMA NewVolumeTypes ==
  ASSUME TypeOK, NEW data \in {"blank", "part", "whole"}, NewVolume(data)
  PROVE  /\ FreshVolume \in VolumeIds /\ volumes[FreshVolume].state = "none"
         /\ volumes' = [volumes EXCEPT ![FreshVolume] = [state |-> "creating", data |-> data]]
         /\ volumes' \in [VolumeIds -> [state : {"none", "creating", "available", "attached", "deleted"},
                                        data : {"blank", "part", "whole"}]]
<1>1. FreshVolume \in VolumeIds /\ volumes[FreshVolume].state = "none"
  BY DEF NewVolume, FreshVolume
<1>2. QED
  BY <1>1 DEF NewVolume, TypeOK

\* The record, the thread's copy of it, and its place keep their types.
ControlTypes ==
  /\ {rec, ent} \subseteq Entries
  /\ pc \in Pcs

\* The other variables keep theirs.
RestTypes ==
  /\ request \in [fromFile : BOOLEAN, sameZone : BOOLEAN]
  /\ tempVolume \in Ids /\ volumeToRestore \in Ids
  /\ found \in BOOLEAN
  /\ exit \in {"none", "canceled", "closing", "failed"}
  /\ canceled \in BOOLEAN /\ closing \in BOOLEAN
  /\ volumes \in [VolumeIds -> [state : {"none", "creating", "available", "attached", "deleted"},
                                data : {"blank", "part", "whole"}]]
  /\ snapshots \in [SnapshotIds -> {"none", "blank", "part", "whole", "deleted"}]
  /\ restored \subseteq VolumeIds
  /\ backup \in [file : BOOLEAN, listed : BOOLEAN, snapshotEntry : BOOLEAN, snapshot : BOOLEAN]
  /\ deletion \in {"none", "queued", "file", "snapshot", "snapshotEntry", "entry", "complete"}
  /\ events \in [Kinds -> Nat]
  /\ rollbackCut \in BOOLEAN

\* The type invariant in its two parts.
LEMMA TypeParts == TypeOK <=> ControlTypes /\ RestTypes
BY DEF TypeOK, ControlTypes, RestTypes, Entries

\* The initial state is of its type.
LEMMA InitTypes == Init => TypeOK
<1> SUFFICES ASSUME Init
             PROVE  ControlTypes /\ RestTypes
  BY TypeParts
<1>1. ControlTypes
  BY TablesLead DEF Init, ControlTypes, Entries, Entry, Statuses, Progresses, Ids, OtherSteps
<1>2. backup \in [file : BOOLEAN, listed : BOOLEAN, snapshotEntry : BOOLEAN, snapshot : BOOLEAN]
  BY DEF Init
<1>3. RestTypes
  <2>1. /\ volumes \in [VolumeIds -> [state : {"none", "creating", "available", "attached", "deleted"},
                                     data : {"blank", "part", "whole"}]]
        /\ snapshots \in [SnapshotIds -> {"none", "blank", "part", "whole", "deleted"}]
        /\ events \in [Kinds -> Nat]
    BY DEF Init
  <2>2. QED
    BY <1>2, <2>1 DEF Init, RestTypes, Ids
<1>4. QED
  BY <1>1, <1>3

\* A place that is named, not looked up in a table.
NamedPlaces == OtherSteps \union
  {"failCleaning", "interruptedCleaning", "checkSnapshot", "checkCreating", "checkCreated",
   "checkWaiting", "checkAttaching", "checkAttached", "detachingTempVolume", "done",
   "resumeDeleting", "started", "cleaningVolume", "deletingTempVolume", "deletingTempSnapshot",
   "waitingSnapshot", "creatingSnapshot"}

\* Every step keeps records, copies and places of their types.
LEMMA NextControlTypes == TypeOK /\ [RestoreNext]_vars => ControlTypes'
<1> SUFFICES ASSUME TypeOK, [RestoreNext]_vars
             PROVE  ControlTypes'
  OBVIOUS
<1>0. rec \in Entries /\ ent \in Entries /\ pc \in Pcs
  BY TypeParts DEF ControlTypes
<1>a. NamedPlaces \subseteq Pcs
  BY TablesLead, ProgressNames, CheckNames DEF NamedPlaces, Pcs
<1>1. CASE submit \/ cancel \/ restart
  <2>a. \A st \in {"waiting", "canceled", "partially_finished"} : WithStatus(rec, st) \in Entries
    BY <1>0 DEF WithStatus, Entry, Entries, Statuses
  <2>1. CASE submit \/ cancel
    BY <1>0, <1>a, <2>1, <2>a DEF submit, cancel, Save, ControlTypes, NamedPlaces, OtherSteps
  <2>2. CASE restart
    BY <1>0, <1>a, <2>2, <2>a DEF restart, ControlTypes, NamedPlaces, OtherSteps
  <2>3. QED
    BY <1>1, <2>1, <2>2
<1>2. CASE setProgress
  <2> PICK s \in DOMAIN ProgressSteps :
         Save(WithProgress(ent, ProgressSteps[s][1])) /\ pc' = ProgressSteps[s][2]
    BY <1>2 DEF setProgress
  <2>1. ProgressSteps[s][1] \in Progresses /\ ProgressSteps[s][2] \in Pcs
    BY TablesLead DEF Progresses
  <2>2. WithProgress(ent, ProgressSteps[s][1]) \in Entries
    BY <1>0, <2>1 DEF WithProgress, Entry, Entries
  <2>3. QED
    BY <2>1, <2>2 DEF Save, ControlTypes
<1>3. CASE notInterrupted
  BY <1>0, <1>3, TablesLead DEF notInterrupted, Checks, Moves, ControlTypes
<1>4. CASE ThrowingSteps
  BY <1>0, <1>a, <1>4, ThrowShape DEF ThrowsAway, Stay, ControlTypes, NamedPlaces
<1>5. CASE FirstSteps
  <2>1. CASE lookup
    <3>1. firstStep(ent.progress) \in Pcs
      BY <1>0, TablesLead DEF Entries
    <3>2. QED
      BY <1>0, <2>1, <3>1 DEF lookup, ControlTypes
  <2>2. CASE begin \/ deleteCanceled
    <3>1. WithStatus(ent, "running") \in Entries /\ NoRecord \in Entries
      BY <1>0, EntryTypes DEF WithStatus, Entry, Entries, Statuses
    <3>2. QED
      BY <1>0, <1>a, <2>2, <3>1 DEF begin, deleteCanceled, Save, ControlTypes, NamedPlaces,
         OtherSteps
  <2>3. CASE \/ resumeCleaning \/ snapshotExists \/ (isCanceled /\ pc = "checkSnapshot")
             \/ createFromSnapshot \/ nameFromSnapshot \/ useBackupEntry
    BY <1>0, <1>a, <2>3 DEF resumeCleaning, snapshotExists, isCanceled, createFromSnapshot,
       nameFromSnapshot, useBackupEntry, Moves, ControlTypes, NamedPlaces, OtherSteps
  <2>4. QED
    BY <1>5, <2>1, <2>2, <2>3 DEF FirstSteps
<1>6. CASE CopySteps
  <2>1. CASE saveVolumeId
    <3>1. Entry(ent.status, ent.progress, tempVolume, ent.snapshot) \in Entries
      BY <1>0, EntryTypes DEF TypeOK, Entries
    <3>2. QED
      BY <1>a, <2>1, <3>1 DEF saveVolumeId, Save, ControlTypes, NamedPlaces
  <2>2. CASE createVolume \/ waitForVolume \/ attachVolume \/ startCopy \/ copy
    BY <1>0, <1>a, <2>2 DEF createVolume, waitForVolume, attachVolume, startCopy, copy, Moves,
       ControlTypes, NamedPlaces, OtherSteps
  <2>3. QED
    BY <1>6, <2>1, <2>2 DEF CopySteps
<1>7. CASE LastSteps
  <2>1. CASE compareZones
    BY <1>0, <1>a, <2>1, TablesLead DEF compareZones, Moves, ControlTypes, NamedPlaces, OtherSteps
  <2>2. CASE createSnapshot
    <3>1. FreshSnapshot \in SnapshotIds
      BY <2>2 DEF createSnapshot, FreshSnapshot
    <3>2. Entry(ent.status, ent.progress, ent.volume, FreshSnapshot) \in Entries
      BY <1>0, <3>1 DEF Entry, Entries
    <3>3. QED
      BY <1>0, <1>a, <2>2, <3>2 DEF createSnapshot, ControlTypes, NamedPlaces, OtherSteps
  <2>3. CASE completeTask
    <3>1. Entry("complete", "DONE", ent.volume, ent.snapshot) \in Entries
      BY <1>0, ProgressValues DEF Entry, Entries, Statuses
    <3>2. QED
      BY <1>a, <2>3, <3>1 DEF completeTask, Save, ControlTypes, NamedPlaces, OtherSteps
  <2>4. CASE \/ detachVolume \/ nameTempVolume \/ saveSnapshotId \/ moveToTargetZone
             \/ nameRestored
             \/ deleteVolume \/ deleteSnapshot
    BY <1>0, <1>a, <2>4 DEF detachVolume, nameTempVolume, saveSnapshotId, moveToTargetZone,
       nameRestored, deleteVolume, deleteSnapshot, Save, Moves, ControlTypes, NamedPlaces,
       OtherSteps
  <2>5. QED
    BY <1>7, <2>1, <2>2, <2>3, <2>4 DEF LastSteps
<1>8. CASE RollbackSteps
  <2>1. WithStatus(ent, "error") \in Entries /\ NoRecord \in Entries
    BY <1>0, EntryTypes DEF Entries, Statuses
  <2>2. QED
    BY <1>0, <1>8, <1>a, <2>1 DEF RollbackSteps, resumeDetach, resumeDelete, cleanSnapshot,
       cleanVolume, afterCleaning, Save, Moves, ControlTypes, NamedPlaces, OtherSteps
<1>9. CASE updateCanceledTasks \/ destroy \/ deleteBackup \/ Delete
  BY <1>0, <1>9, OthersShape DEF OthersStep, Stay, ControlTypes
<1>10. CASE UNCHANGED vars
  BY <1>0, <1>10 DEF vars, ControlTypes
<1>11. QED
  BY <1>1, <1>2, <1>3, <1>4, <1>5, <1>6, <1>7, <1>8, <1>9, <1>10, NextSteps

\* The states of EC2's volumes, and EC2's snapshots.
Volumes   == [VolumeIds -> [state : {"none", "creating", "available", "attached", "deleted"},
                            data : {"blank", "part", "whole"}]]
Snapshots == [SnapshotIds -> {"none", "blank", "part", "whole", "deleted"}]

\* A volume that changes its state or its content stays a volume.
LEMMA SetTypes ==
  ASSUME volumes \in Volumes, NEW v,
         NEW state \in {"none", "creating", "available", "attached", "deleted"}, NEW data \in {"blank", "part", "whole"}
  PROVE  /\ SetState(v, state) => volumes' \in Volumes
         /\ SetData(v, data) => volumes' \in Volumes
BY DEF SetState, SetData, Volumes

\* What users, the shutdown and the delete task leave is of its type.
LEMMA OthersTypes ==
  ASSUME TypeOK, updateCanceledTasks \/ destroy \/ deleteBackup \/ Delete
  PROVE  RestTypes'
<1>1. /\ events' \in [Kinds -> Nat]
      /\ canceled' \in BOOLEAN /\ closing' \in BOOLEAN
      /\ UNCHANGED <<tempVolume, volumeToRestore, found, exit, volumes, snapshots, restored, request,
                     rollbackCut>>
  BY EventTypes DEF updateCanceledTasks, destroy, deleteBackup, Delete, deleteTask, deleteFile,
     deleteKeptSnapshot, deleteSnapshotEntry, deleteEntry, DeletePart, restoreOnly, thread, cloud,
     others, Kinds, TypeOK
<1>2. /\ backup' \in [file : BOOLEAN, listed : BOOLEAN, snapshotEntry : BOOLEAN, snapshot : BOOLEAN]
      /\ deletion' \in {"none", "queued", "file", "snapshot", "snapshotEntry", "entry", "complete"}
  BY DEF updateCanceledTasks, destroy, deleteBackup, Delete, deleteTask, deleteFile,
     deleteKeptSnapshot, deleteSnapshotEntry, deleteEntry, DeletePart, others, TypeOK
<1>3. QED
  BY <1>1, <1>2 DEF RestTypes, TypeOK

\* Every step keeps the types of the other variables.
LEMMA NextRestTypes == IInv /\ [RestoreNext]_vars => RestTypes'
<1> SUFFICES ASSUME IInv, [RestoreNext]_vars
             PROVE  RestTypes'
  OBVIOUS
<1>0. TypeOK /\ volumes \in Volumes /\ snapshots \in Snapshots /\ ent \in Entries /\ RestTypes
  BY TypeParts DEF IInv, RestTypes, ControlTypes, Volumes, Snapshots
<1> HIDE DEF Volumes, Snapshots
<1>1. CASE submit \/ setProgress \/ notInterrupted \/ UNCHANGED vars
  BY <1>0, <1>1 DEF submit, setProgress, notInterrupted, Moves, vars, thread, cloud, others,
     RestTypes
<1>2. CASE ThrowingSteps
  <2>1. canceled' \in BOOLEAN
    BY <1>0, <1>2 DEF RestTypes, ThrowingSteps, callFails, isInterrupted, isCanceled, noSnapshot,
       snapshotIsGone, lookupFails, noBackupEntry, fileIsGone, cannotDetach, noTempVolume,
       cannotNameTempVolume, cannotNameRestored, cannotDeleteVolume, CannotGoOn
  <2>2. events' \in [Kinds -> Nat]
    BY <1>0, <1>2, EventTypes DEF TypeOK, Kinds, ThrowingSteps, callFails, isInterrupted,
       isCanceled, noSnapshot, snapshotIsGone, lookupFails, noBackupEntry, fileIsGone,
       cannotDetach, noTempVolume, cannotNameTempVolume, cannotNameRestored, cannotDeleteVolume,
       CannotGoOn
  <2>3. QED
    BY <1>0, <1>2, <2>1, <2>2, ThrowShape DEF ThrowsAway, Stay, RestTypes
<1>3. CASE FirstSteps
  <2>1. CASE createFromSnapshot
    <3>1. volumes' \in Volumes /\ FreshVolume \in VolumeIds
      BY <1>0, <2>1, NewVolumeTypes DEF createFromSnapshot, Volumes
    <3>2. QED
      BY <1>0, <2>1, <3>1 DEF createFromSnapshot, others, RestTypes, Volumes, Ids
  <2>2. CASE nameFromSnapshot
    <3>1. volumeToRestore \in VolumeIds
      BY <1>0, <2>2 DEF nameFromSnapshot, Moves, IInv, VolumeOK, RestTypes, Ids
    <3>2. QED
      BY <1>0, <2>2, <3>1 DEF nameFromSnapshot, Moves, thread, others, RestTypes
  <2>3. CASE lookup
    BY <1>0, <2>3 DEF lookup, cloud, others, RestTypes, Entries, Ids
  <2>4. CASE begin \/ snapshotExists \/ deleteCanceled \/ useBackupEntry
    BY <1>0, <2>4 DEF begin, snapshotExists, deleteCanceled, useBackupEntry, Moves, thread, cloud,
       others, RestTypes
  <2>5. CASE resumeCleaning
    <3>1. exit' \in {"failed", "closing"}
      BY <2>5 DEF resumeCleaning
    <3>2. QED
      BY <1>0, <2>5, <3>1 DEF resumeCleaning, cloud, others, RestTypes
  <2>6. CASE isCanceled /\ pc = "checkSnapshot"
    BY <1>0, <2>6 DEF isCanceled, thread, cloud, others, RestTypes
  <2>7. QED
    BY <1>3, <2>1, <2>2, <2>3, <2>4, <2>5, <2>6 DEF FirstSteps
<1>4. CASE CopySteps
  <2>1. CASE createVolume
    <3>1. volumes' \in Volumes /\ FreshVolume \in VolumeIds
      BY <1>0, <2>1, NewVolumeTypes DEF createVolume, Volumes
    <3>2. QED
      BY <1>0, <2>1, <3>1 DEF createVolume, others, RestTypes, Volumes, Ids
  <2>2. CASE saveVolumeId \/ waitForVolume
    BY <1>0, <2>2 DEF saveVolumeId, waitForVolume, Moves, thread, cloud, others, RestTypes
  <2>3. CASE attachVolume \/ startCopy \/ copy
    <3>1. volumes' \in Volumes
      BY <1>0, <2>3, SetTypes DEF attachVolume, startCopy, copy
    <3>2. QED
      BY <1>0, <2>3, <3>1 DEF attachVolume, startCopy, copy, Moves, thread, others, RestTypes,
         Volumes
  <2>4. QED
    BY <1>4, <2>1, <2>2, <2>3 DEF CopySteps
<1>5. CASE LastSteps
  <2>1. CASE detachVolume \/ deleteVolume
    <3>1. volumes' \in Volumes
      BY <1>0, <2>1, SetTypes DEF detachVolume, deleteVolume
    <3>2. QED
      BY <1>0, <2>1, <3>1 DEF detachVolume, deleteVolume, Moves, thread, others, RestTypes, Volumes
  <2>2. CASE nameTempVolume \/ nameRestored
    <3>1. /\ nameTempVolume => tempVolume \in VolumeIds
          /\ nameRestored => volumeToRestore \in VolumeIds
      BY <1>0, <2>2 DEF nameTempVolume, nameRestored, Moves, IInv, VolumeOK, RestTypes, Ids
    <3>2. QED
      BY <1>0, <2>2, <3>1 DEF nameTempVolume, nameRestored, Moves, thread, others, RestTypes
  <2>3. CASE createSnapshot
    <3>1. ent.volume \in VolumeIds
      BY <1>0, <2>3 DEF createSnapshot, Exists, Entries, Ids
    <3>2. volumes[ent.volume].data \in {"blank", "part", "whole"}
      BY <1>0, <3>1 DEF Volumes
    <3>3. snapshots' \in Snapshots
      BY <1>0, <2>3, <3>2 DEF createSnapshot, Snapshots
    <3>4. QED
      BY <1>0, <2>3, <3>3 DEF createSnapshot, thread, others, RestTypes, Snapshots
  <2>4. CASE moveToTargetZone
    <3>1. snapshots[ent.snapshot] \in {"blank", "part", "whole"}
      BY <1>0, <2>4 DEF moveToTargetZone, HasSnapshot, Entries, Snapshots
    <3>2. volumes' \in Volumes /\ FreshVolume \in VolumeIds
      BY <1>0, <2>4, <3>1, NewVolumeTypes DEF moveToTargetZone, Volumes
    <3>3. QED
      BY <1>0, <2>4, <3>2 DEF moveToTargetZone, others, RestTypes, Volumes, Ids
  <2>5. CASE compareZones \/ saveSnapshotId \/ completeTask
    BY <1>0, <2>5 DEF compareZones, saveSnapshotId, completeTask, Moves, thread, cloud, others,
       RestTypes
  <2>6. CASE deleteSnapshot
    <3>1. snapshots' \in Snapshots
      BY <1>0, <2>6 DEF deleteSnapshot, DeleteSnapshot, Snapshots
    <3>2. QED
      BY <1>0, <2>6, <3>1 DEF deleteSnapshot, Moves, thread, others, RestTypes, Snapshots
  <2>7. QED
    BY <1>5, <2>1, <2>2, <2>3, <2>4, <2>5, <2>6 DEF LastSteps
<1>6. CASE RollbackSteps
  <2>1. CASE resumeDetach \/ resumeDelete \/ cleanVolume
    <3>1. volumes' \in Volumes
      BY <1>0, <2>1, SetTypes DEF resumeDetach, resumeDelete, cleanVolume, DeleteVolumeOrSkip
    <3>2. events' \in [Kinds -> Nat]
      BY <1>0, <2>1, EventTypes DEF resumeDetach, resumeDelete, cleanVolume, DeleteVolumeOrSkip,
         Kinds, TypeOK
    <3>3. QED
      BY <1>0, <2>1, <3>1, <3>2, ZenonT(60)
         DEF resumeDetach, resumeDelete, cleanVolume, thread, others, RestTypes, Volumes
  <2>2. CASE cleanSnapshot
    <3>1. snapshots' \in Snapshots
      BY <1>0, <2>2 DEF cleanSnapshot, DeleteSnapshot, Snapshots
    <3>2. QED
      BY <1>0, <2>2, <3>1 DEF cleanSnapshot, Moves, thread, others, RestTypes, Snapshots
  <2>3. CASE afterCleaning
    BY <1>0, <2>3 DEF afterCleaning, thread, cloud, others, RestTypes
  <2>4. QED
    BY <1>6, <2>1, <2>2, <2>3 DEF RollbackSteps
<1>7. CASE cancel \/ restart
  <2>1. events' \in [Kinds -> Nat]
    BY <1>0, <1>7, EventTypes DEF cancel, restart, Kinds, TypeOK
  <2>2. CASE cancel
    BY <1>0, <2>1, <2>2 DEF cancel, thread, cloud, others, RestTypes
  <2>3. CASE restart
    BY <1>0, <2>1, <2>3 DEF restart, cloud, RollsBack, RestTypes, Ids
  <2>4. QED
    BY <1>7, <2>2, <2>3
<1>8. QED
  BY <1>0, <1>1, <1>2, <1>3, <1>4, <1>5, <1>6, <1>7, OthersTypes, NextSteps

\* Every step keeps the types.
LEMMA NextTypeOK == IInv /\ [RestoreNext]_vars => TypeOK'
<1> SUFFICES ASSUME IInv, [RestoreNext]_vars
             PROVE  ControlTypes' /\ RestTypes'
  BY TypeParts, PTL
<1>1. QED
  BY NextControlTypes, NextRestTypes DEF IInv

-----------------------------------------------------------------------------
(* What a step leaves alone                                                *)

\* Who writes what.
Frame ==
  /\ UNCHANGED request
  /\ UNCHANGED rollbackCut \/ restart
  /\ ~backup.snapshotEntry => ~backup'.snapshotEntry
  /\ UNCHANGED tempVolume \/ lookup \/ createVolume \/ restart
  /\ UNCHANGED volumeToRestore \/ createFromSnapshot \/ moveToTargetZone \/ restart
  /\ UNCHANGED snapshots \/ createSnapshot \/ deleteSnapshot \/ cleanSnapshot
  /\ UNCHANGED restored \/ nameFromSnapshot \/ nameTempVolume \/ nameRestored
  /\ \/ UNCHANGED volumes
     \/ createFromSnapshot \/ createVolume \/ moveToTargetZone
     \/ attachVolume \/ detachVolume \/ resumeDetach
     \/ startCopy \/ copy
     \/ deleteVolume \/ resumeDelete \/ cleanVolume
  /\ \/ UNCHANGED <<rec, ent>>
     \/ submit \/ begin \/ setProgress \/ saveVolumeId \/ createSnapshot \/ saveSnapshotId
     \/ completeTask \/ deleteCanceled \/ afterCleaning \/ cancel \/ restart

\* Every step keeps to it.
LEMMA NextFrame ==
  ASSUME TypeOK, [RestoreNext]_vars
  PROVE  Frame
<1> USE DEF Frame, thread, cloud, others, Moves
<1>1. CASE submit \/ setProgress \/ notInterrupted \/ cancel \/ restart \/ UNCHANGED vars
  BY <1>1 DEF submit, setProgress, notInterrupted, cancel, restart, vars
<1>2. CASE ThrowingSteps
  BY <1>2, ThrowShape DEF ThrowsAway, Stay
<1>3. CASE updateCanceledTasks \/ destroy \/ deleteBackup \/ Delete
  BY <1>3, OthersShape DEF OthersStep, Stay
<1>4. CASE FirstSteps
  BY <1>4 DEF FirstSteps, resumeCleaning, begin, snapshotExists, isCanceled, createFromSnapshot,
     nameFromSnapshot, deleteCanceled, lookup, useBackupEntry
<1>5. CASE CopySteps
  BY <1>5 DEF CopySteps, createVolume, saveVolumeId, waitForVolume, attachVolume, startCopy, copy
<1>6. CASE LastSteps
  BY <1>6 DEF LastSteps, detachVolume, compareZones, nameTempVolume, createSnapshot,
     saveSnapshotId, moveToTargetZone, nameRestored, deleteVolume, deleteSnapshot, completeTask
<1>7. CASE RollbackSteps
  BY <1>7 DEF RollbackSteps, resumeDetach, resumeDelete, cleanSnapshot, cleanVolume, afterCleaning
<1>8. QED
  BY <1>1, <1>2, <1>3, <1>4, <1>5, <1>6, <1>7, NextSteps

\* Events come one at a time.
LEMMA NextEvents ==
  ASSUME TypeOK, [RestoreNext]_vars
  PROVE  UNCHANGED events \/ \E k \in Kinds : Happens(k)
<1>1. CASE submit \/ setProgress \/ notInterrupted \/ cancel \/ restart \/ UNCHANGED vars
  BY <1>1 DEF submit, setProgress, notInterrupted, Moves, cancel, restart, vars, Kinds
<1>2. CASE ThrowingSteps
  BY <1>2 DEF ThrowingSteps, callFails, isInterrupted, isCanceled, noSnapshot, snapshotIsGone,
     lookupFails, noBackupEntry, fileIsGone, cannotDetach, noTempVolume, cannotNameTempVolume,
     cannotNameRestored, cannotDeleteVolume, CannotGoOn, Kinds
<1>3. CASE updateCanceledTasks \/ destroy \/ deleteBackup \/ Delete
  BY <1>3 DEF updateCanceledTasks, destroy, deleteBackup, Delete, deleteTask, deleteFile,
     deleteKeptSnapshot, deleteSnapshotEntry, deleteEntry, DeletePart, Kinds
<1>4. CASE FirstSteps
  BY <1>4 DEF FirstSteps, resumeCleaning, begin, snapshotExists, isCanceled, createFromSnapshot,
     nameFromSnapshot, deleteCanceled, lookup, useBackupEntry, Moves
<1>5. CASE CopySteps \/ LastSteps
  BY <1>5 DEF CopySteps, createVolume, saveVolumeId, waitForVolume, attachVolume, startCopy, copy,
     LastSteps, detachVolume, compareZones, nameTempVolume, createSnapshot, saveSnapshotId,
     moveToTargetZone, nameRestored, deleteVolume, deleteSnapshot, completeTask, Moves
<1>6. CASE RollbackSteps
  BY <1>6 DEF RollbackSteps, resumeDetach, resumeDelete, cleanSnapshot, cleanVolume, afterCleaning,
     DeleteVolumeOrSkip, Moves, Kinds
<1>7. QED
  BY <1>1, <1>2, <1>3, <1>4, <1>5, <1>6, NextSteps

\* A snapshot that is there stays, unless the restore deletes its own.
LEMMA SnapshotsStay ==
  ASSUME IInv, [RestoreNext]_vars, ~deleteSnapshot, ~cleanSnapshot
  PROVE  \A s \in SnapshotIds \union {NoId} : Present(s) => Present(s)'
<1> SUFFICES ASSUME NEW s \in SnapshotIds, Present(s)
             PROVE  Present(s)'
  BY DEF Present
<1>1. rollbackCut => rollbackCut'
  BY NextFrame DEF IInv, Frame, restart
<1>2. snapshots'[s] = snapshots[s]
  <2>1. CASE createSnapshot
    <3>1. FreshSnapshot \in SnapshotIds /\ snapshots[FreshSnapshot] = "none"
      BY <2>1 DEF createSnapshot, FreshSnapshot
    <3>2. FreshSnapshot # s
      BY <3>1 DEF Present
    <3>3. QED
      BY <2>1, <3>2 DEF createSnapshot, IInv, TypeOK
  <2>2. QED
    BY <2>1, NextFrame DEF Frame, IInv
<1>3. QED
  BY <1>1, <1>2 DEF Present

\* The steps that create a volume, each with what is on it.
LEMMA Creations ==
  ASSUME IInv, createFromSnapshot \/ createVolume \/ moveToTargetZone
  PROVE  /\ FreshVolume \in VolumeIds /\ volumes[FreshVolume].state = "none"
         /\ \E data \in {"blank", "part", "whole"} :
              /\ volumes' = [volumes EXCEPT ![FreshVolume] = [state |-> "creating", data |-> data]]
              /\ createVolume \/ rollbackCut \/ data = "whole"
<1>1. CASE createFromSnapshot
  BY <1>1, NewVolumeTypes DEF createFromSnapshot, IInv, NewVolume
<1>2. CASE createVolume
  BY <1>2, NewVolumeTypes DEF createVolume, IInv, NewVolume
<1>3. CASE moveToTargetZone
  <2>1. ent.snapshot \in SnapshotIds /\ snapshots[ent.snapshot] \notin {"none", "deleted"}
    BY <1>3 DEF moveToTargetZone, HasSnapshot, IInv, TypeOK
  <2>2. /\ snapshots[ent.snapshot] \in {"blank", "part", "whole"}
        /\ rollbackCut \/ snapshots[ent.snapshot] = "whole"
    BY <1>3, <2>1 DEF IInv, TypeOK, SnapshotOK, Present, moveToTargetZone
  <2>3. NewVolume(snapshots[ent.snapshot])
    BY <1>3 DEF moveToTargetZone
  <2>4. QED
    BY <2>2, <2>3, NewVolumeTypes DEF IInv, NewVolume
<1>4. QED
  BY <1>1, <1>2, <1>3

\* What EC2 knows of a volume that it has ever created.
LEMMA VolumesStay ==
  ASSUME IInv, [RestoreNext]_vars, NEW v \in VolumeIds, volumes[v].state # "none"
  PROVE  /\ volumes'[v].state # "none"
         /\ Exists(v) => Exists(v)' \/ deleteVolume \/ resumeDelete \/ cleanVolume
         /\ \/ volumes'[v].data = volumes[v].data
            \/ v = tempVolume /\ startCopy
            \/ volumes'[v].data = "whole"
<1> USE DEF Exists
<1>0. volumes \in Volumes
  BY DEF IInv, TypeOK, Volumes
<1>1. CASE createFromSnapshot \/ createVolume \/ moveToTargetZone
  <2>1. FreshVolume # v /\ volumes'[v] = volumes[v]
    BY <1>0, <1>1, Creations DEF Volumes
  <2>2. QED
    BY <2>1
<1>2. CASE attachVolume \/ detachVolume \/ resumeDetach
  BY <1>0, <1>2 DEF attachVolume, detachVolume, resumeDetach, SetState, Volumes
<1>3. CASE startCopy \/ copy
  BY <1>0, <1>3 DEF startCopy, copy, SetData, Volumes
<1>4. CASE deleteVolume \/ resumeDelete \/ cleanVolume
  BY <1>0, <1>4 DEF deleteVolume, resumeDelete, cleanVolume, DeleteVolumeOrSkip, SetState, Volumes
<1>5. CASE UNCHANGED volumes
  BY <1>5
<1>6. QED
  BY <1>1, <1>2, <1>3, <1>4, <1>5, NextFrame DEF Frame, IInv

-----------------------------------------------------------------------------
(* Records, and where the thread is                                        *)

\* What an entry's progress needs stays, while the restore keeps its snapshot.
LEMMA HasIdsStay ==
  ASSUME IInv, [RestoreNext]_vars, NEW e \in Entries, HasIds(e),
         deleteSnapshot \/ cleanSnapshot => e.progress = "DELETING_TEMP_SNAPSHOT"
  PROVE  HasIds(e)'
<1>1. e.snapshot \in SnapshotIds \union {NoId}
  BY DEF Entries
<1>2. CASE deleteSnapshot \/ cleanSnapshot
  BY <1>2 DEF HasIds, BeforeSnapshot
<1>3. CASE ~deleteSnapshot /\ ~cleanSnapshot
  <2>1. Present(e.snapshot) => Present(e.snapshot)'
    BY <1>1, <1>3, SnapshotsStay
  <2>2. QED
    BY <2>1 DEF HasIds
<1>4. QED
  BY <1>2, <1>3

\* Entries that differ in their status only need the same.
LEMMA StatusKeepsIds ==
  ASSUME NEW e \in Entries, NEW st
  PROVE  HasIds(e) <=> HasIds(WithStatus(e, st))
BY DEF HasIds, WithStatus, Entry

\* setProgress saves a progress whose needs are met where it is saved.
LEMMA ProgressHasIds ==
  ASSUME IInv, NEW s \in DOMAIN ProgressSteps, pc = s
  PROVE  HasIds(WithProgress(ent, ProgressSteps[s][1]))
<1> DEFINE f == WithProgress(ent, ProgressSteps[s][1])
<1>1. f.progress = ProgressSteps[s][1] /\ f.volume = ent.volume /\ f.snapshot = ent.snapshot
  BY DEF WithProgress, Entry
<1>2. CASE s \in {"waitingTempVolume", "attachingVolume"}
  BY <1>1, <1>2 DEF HasIds, ProgressSteps, IInv, VolumeOK, SnapshotOK, Writing, BeforeSnapshot
<1>3. CASE s = "creatingSnapshot"
  <2>1. ent.volume # NoId
    BY <1>3 DEF IInv, VolumeOK, Reading
  <2>2. ent.snapshot # NoId => Present(ent.snapshot)
    BY <1>3 DEF IInv, ProgressOK, RecordsOK, HasIds, BeforeSnapshot
  <2>3. QED
    BY <1>1, <1>3, <2>1, <2>2 DEF HasIds, ProgressSteps, BeforeSnapshot
<1>4. CASE s \in {"waitingSnapshot", "resumeWaiting"}
  BY <1>1, <1>4 DEF HasIds, ProgressSteps, IInv, VolumeOK, SnapshotOK, BeforeSnapshot
<1>5. CASE s \in {"started", "creatingTempVolume", "resumeDetaching", "detachingTempVolume"}
  BY <1>1, <1>5 DEF HasIds, ProgressSteps, IInv, SnapshotOK, FilePath, BeforeSnapshot
<1>6. CASE s \in {"deletingTempVolume", "deletingTempSnapshot", "resumeDeleting",
                  "interruptedCleaning", "failCleaning", "cleaningSnapshot", "cleaningVolume",
                  "done"}
  BY <1>1, <1>6 DEF HasIds, ProgressSteps, BeforeSnapshot
<1>7. QED
  BY <1>2, <1>3, <1>4, <1>5, <1>6, ProgressNames

\* The steps that write a record, or the thread's copy.
Saves ==
  \/ submit \/ begin \/ setProgress \/ saveVolumeId \/ createSnapshot \/ saveSnapshotId
  \/ completeTask \/ deleteCanceled \/ afterCleaning \/ cancel \/ restart

\* None of them deletes a snapshot.
LEMMA SavesKeepSnapshots == Saves => ~deleteSnapshot /\ ~cleanSnapshot
BY ProgressNames DEF Saves, submit, begin, setProgress, saveVolumeId, createSnapshot,
   saveSnapshotId, completeTask, deleteCanceled, afterCleaning, cancel, restart, deleteSnapshot,
   cleanSnapshot, Moves, cloud

\* Every step keeps what records and copies name.
LEMMA NextRecordsOK == IInv /\ [RestoreNext]_vars => RecordsOK'
<1> SUFFICES ASSUME IInv, [RestoreNext]_vars
             PROVE  RecordsOK'
  OBVIOUS
<1>0. /\ rec \in Entries /\ ent \in Entries
      /\ HasIds(rec) /\ HasIds(ent)
      /\ rec = NoRecord \/ (rec.progress = ent.progress /\ rec.volume = ent.volume)
      /\ NoRecord \in Entries /\ NoRecord.progress = "NONE" /\ NoRecord.snapshot = NoId
      /\ NoRecord.status = "absent"
  BY TypeParts, EntryTypes, ProgressValues
     DEF IInv, ControlTypes, RecordsOK, NoRecord, Entry, Entries, Statuses, Ids
<1>1. HasIds(NoRecord)'
  BY <1>0 DEF HasIds, BeforeSnapshot
<1>2. CASE UNCHANGED <<rec, ent>>
  <2>1. deleteSnapshot \/ cleanSnapshot =>
          ent.progress = "DELETING_TEMP_SNAPSHOT"
            /\ (rec = NoRecord \/ rec.progress = "DELETING_TEMP_SNAPSHOT")
    BY <1>0 DEF deleteSnapshot, cleanSnapshot, Moves, IInv, ProgressOK
  <2>2. \A e \in Entries :
           HasIds(e) /\ (deleteSnapshot \/ cleanSnapshot => e.progress = "DELETING_TEMP_SNAPSHOT")
             => HasIds(e)'
    BY HasIdsStay
  <2>3. HasIds(ent)' /\ HasIds(rec)'
    BY <1>0, <1>1, <1>2, <2>1, <2>2 DEF HasIds, Present
  <2>4. QED
    BY <1>0, <1>2, <2>3 DEF RecordsOK
<1>3. CASE Saves
  <2>1. \A e \in Entries : HasIds(e) => HasIds(e)'
    BY <1>3, SavesKeepSnapshots, HasIdsStay
  <2>2. \A e \in Entries, st \in Statuses :
          HasIds(e) => WithStatus(e, st) \in Entries /\ HasIds(WithStatus(e, st))
    BY StatusKeepsIds DEF WithStatus, Entry, Entries
  <2>3. CASE submit \/ cancel
    <3>1. PICK st \in Statuses :
            /\ rec' = WithStatus(rec, st)
            /\ ent' = rec' \/ (ent' = ent /\ rec # NoRecord)
      BY <1>0, <2>3 DEF submit, cancel, Save, Statuses
    <3>2. HasIds(rec)' /\ HasIds(ent)'
      BY <1>0, <2>1, <2>2, <3>1 DEF HasIds, Present
    <3>3. QED
      BY <1>0, <3>1, <3>2 DEF RecordsOK, WithStatus, Entry
  <2>4. CASE begin \/ saveSnapshotId
    <3>1. rec' = ent' /\ (ent' = ent \/ ent' = WithStatus(ent, "running"))
      BY <2>4 DEF begin, saveSnapshotId, Save
    <3>2. HasIds(ent)'
      BY <1>0, <2>1, <2>2, <3>1 DEF HasIds, Present, Statuses
    <3>3. QED
      BY <3>1, <3>2 DEF RecordsOK
  <2>5. CASE setProgress
    <3>1. PICK s \in DOMAIN ProgressSteps :
            pc = s /\ ent' = WithProgress(ent, ProgressSteps[s][1]) /\ rec' = ent'
      BY <2>5 DEF setProgress, Save
    <3>2. HasIds(WithProgress(ent, ProgressSteps[s][1]))
      BY <3>1, ProgressHasIds
    <3>3. WithProgress(ent, ProgressSteps[s][1]) \in Entries
      BY <1>0 DEF WithProgress, Entry, Entries, Progresses
    <3>4. HasIds(ent)'
      BY <2>1, <3>1, <3>2, <3>3 DEF HasIds, Present
    <3>5. QED
      BY <3>1, <3>4 DEF RecordsOK
  <2>6. CASE saveVolumeId
    <3>1. ent.progress = "CREATING_TEMP_VOLUME" /\ ent.snapshot = NoId
      BY <2>6 DEF saveVolumeId, IInv, ProgressOK, SnapshotOK, FilePath
    <3>2. ent'.progress = "CREATING_TEMP_VOLUME" /\ ent'.snapshot = NoId /\ rec' = ent'
      BY <2>6, <3>1 DEF saveVolumeId, Save, Entry
    <3>3. QED
      BY <3>2 DEF RecordsOK, HasIds
  <2>7. CASE createSnapshot
    <3>1. /\ ent.progress = "CREATING_SNAPSHOT" /\ ent.volume \in VolumeIds
          /\ rollbackCut \/ volumes[ent.volume].data = "whole"
          /\ volumes[ent.volume].data \in {"blank", "part", "whole"}
      BY <1>0, <2>7 DEF createSnapshot, IInv, ProgressOK, VolumeOK, WholeOK, WholeIfAny, Exists,
         AfterCopy, Reading, Entries, Ids, TypeOK
    <3>2. /\ FreshSnapshot \in SnapshotIds
          /\ snapshots'[FreshSnapshot] = volumes[ent.volume].data /\ UNCHANGED rollbackCut
      BY <2>7 DEF createSnapshot, FreshSnapshot, IInv, TypeOK, others
    <3>3. /\ ent'.progress = "CREATING_SNAPSHOT" /\ ent'.volume = ent.volume
          /\ ent'.snapshot = FreshSnapshot /\ rec' = rec
      BY <2>7, <3>1 DEF createSnapshot, Entry
    <3>4. HasIds(ent)'
      BY <3>1, <3>2, <3>3, NoIdAssumption DEF HasIds, Present, BeforeSnapshot, Exists
    <3>5. HasIds(rec)'
      BY <1>0, <2>1, <3>3 DEF HasIds, Present
    <3>6. QED
      BY <1>0, <3>1, <3>3, <3>4, <3>5 DEF RecordsOK
  <2>8. CASE completeTask
    <3>1. ent'.progress = "DONE" /\ rec' = ent'
      BY <2>8 DEF completeTask, Save, Entry
    <3>2. QED
      BY <3>1 DEF RecordsOK, HasIds, BeforeSnapshot
  <2>9. CASE deleteCanceled \/ afterCleaning
    <3>1. \/ rec' = NoRecord /\ ent' = ent
          \/ rec' = ent' /\ ent' = WithStatus(ent, "error")
      BY <2>9 DEF deleteCanceled, afterCleaning, Save
    <3>2. HasIds(ent)'
      BY <1>0, <2>1, <2>2, <3>1 DEF HasIds, Present, Statuses
    <3>3. HasIds(rec)'
      BY <1>1, <3>1, <3>2 DEF HasIds, Present
    <3>4. QED
      BY <3>1, <3>2, <3>3 DEF RecordsOK, NoRecord
  <2>10. CASE restart
    <3>1. ent' = rec' /\ (rec' = rec \/ rec' = WithStatus(rec, "partially_finished"))
      BY <2>10 DEF restart
    <3>2. HasIds(rec)'
      BY <1>0, <2>1, <2>2, <3>1 DEF HasIds, Present, Statuses
    <3>3. QED
      BY <3>1, <3>2 DEF RecordsOK
  <2>11. QED
    BY <1>3, <2>3, <2>4, <2>5, <2>6, <2>7, <2>8, <2>9, <2>10 DEF Saves
<1>4. QED
  BY <1>2, <1>3, NextFrame DEF Frame, IInv, Saves

\* Every step keeps the places and their progress together.
LEMMA NextProgressOK == IInv /\ [RestoreNext]_vars => ProgressOK'
<1> SUFFICES ASSUME IInv, [RestoreNext]_vars
             PROVE  ProgressOK'
  OBVIOUS
<1>0. ProgressOK /\ ent \in Entries /\ TypeOK
  BY TypeParts DEF IInv, ControlTypes
<1> USE DEF ProgressOK
<1>1. CASE submit \/ restart
  BY <1>1 DEF submit, restart
<1>2. CASE cancel \/ updateCanceledTasks \/ destroy \/ deleteBackup \/ Delete
  BY <1>0, <1>2, OthersShape DEF cancel, OthersStep, Stay
<1>3. CASE UNCHANGED vars
  BY <1>0, <1>3 DEF vars
<1>4. CASE ThrowingSteps
  BY <1>4, ThrowShape DEF ThrowsAway
<1>5. CASE setProgress
  <2> PICK s \in DOMAIN ProgressSteps :
         /\ pc = s /\ pc' = ProgressSteps[s][2]
         /\ ent' = WithProgress(ent, ProgressSteps[s][1])
    BY <1>5 DEF setProgress, Save
  <2>1. ent'.progress = ProgressSteps[s][1]
    BY DEF WithProgress, Entry
  <2>2. QED
    BY <2>1, ProgressNames DEF ProgressSteps
<1>6. CASE notInterrupted
  <2> PICK c \in Checks : pc = c /\ pc' = CheckSteps[c] /\ ent' = ent
    BY <1>6 DEF notInterrupted, Moves
  <2>1. QED
    BY <1>0, CheckNames DEF Checks, CheckSteps
<1>7. CASE FirstSteps
  <2>1. CASE lookup
    <3>1. pc' \in {"started", "resumeDetaching", "detachingTempVolume", "resumeWaiting", "compareZones"}
      BY <2>1 DEF lookup, firstStep
    <3>2. QED
      BY <3>1
  <2>2. CASE begin
    BY <2>2 DEF begin, Save, WithStatus, Entry
  <2>3. CASE \/ resumeCleaning \/ snapshotExists \/ (isCanceled /\ pc = "checkSnapshot")
             \/ createFromSnapshot \/ nameFromSnapshot \/ deleteCanceled \/ useBackupEntry
    BY <1>0, <2>3 DEF resumeCleaning, snapshotExists, isCanceled, createFromSnapshot,
       nameFromSnapshot, deleteCanceled, useBackupEntry, Moves
  <2>4. QED
    BY <1>7, <2>1, <2>2, <2>3 DEF FirstSteps
<1>8. CASE CopySteps
  BY <1>0, <1>8 DEF CopySteps, createVolume, saveVolumeId, waitForVolume, attachVolume,
     startCopy, copy, Moves
<1>9. CASE LastSteps
  <2>1. CASE compareZones
    <3>1. \/ pc' \in {"nameTempVolume", "completeTask"}
          \/ ent.progress \in DOMAIN ZoneSteps /\ pc' = ZoneSteps[ent.progress]
      BY <2>1 DEF compareZones, Moves
    <3>2. ent' = ent
      BY <2>1 DEF compareZones, Moves
    <3>3. QED
      BY <3>1, <3>2 DEF ZoneSteps
  <2>2. CASE \/ detachVolume \/ nameTempVolume \/ createSnapshot \/ saveSnapshotId
             \/ moveToTargetZone \/ nameRestored \/ deleteVolume \/ deleteSnapshot \/ completeTask
    BY <2>2 DEF detachVolume, nameTempVolume, createSnapshot, saveSnapshotId, moveToTargetZone,
       nameRestored, deleteVolume, deleteSnapshot, completeTask, Moves
  <2>3. QED
    BY <1>9, <2>1, <2>2 DEF LastSteps
<1>10. CASE RollbackSteps
  BY <1>10 DEF RollbackSteps, resumeDetach, resumeDelete, cleanSnapshot, cleanVolume,
     afterCleaning, Moves
<1>11. QED
  BY <1>1, <1>2, <1>3, <1>4, <1>5, <1>6, <1>7, <1>8, <1>9, <1>10, NextSteps

\* Who writes the volume a copy names.
LEMMA NamedVolume ==
  ASSUME IInv, [RestoreNext]_vars
  PROVE  \/ ent'.volume = ent.volume
         \/ restart /\ ent'.volume = NoId
         \/ saveVolumeId /\ ent'.volume = tempVolume
<1>0. rec = NoRecord \/ rec.volume = ent.volume
  BY DEF IInv, RecordsOK
<1> USE DEF WithStatus, WithProgress, Entry, Save
<1>1. CASE UNCHANGED ent
  BY <1>1
<1>2. CASE submit \/ restart
  <2>1. NoRecord.volume = NoId /\ NoRecord.status = "absent"
    BY DEF NoRecord
  <2>2. ent'.volume = rec.volume /\ (submit => rec # NoRecord)
    BY <1>2, <2>1 DEF submit, restart
  <2>3. QED
    BY <1>0, <1>2, <2>1, <2>2
<1>3. CASE \/ begin \/ setProgress \/ saveVolumeId \/ createSnapshot \/ saveSnapshotId
           \/ completeTask
           \/ deleteCanceled \/ afterCleaning \/ cancel
  BY <1>3 DEF begin, setProgress, saveVolumeId, createSnapshot, saveSnapshotId, completeTask,
     deleteCanceled, afterCleaning, cancel
<1>4. QED
  BY <1>1, <1>2, <1>3, NextFrame DEF Frame, IInv

\* A restore from a file stays one, and so does one from a snapshot.
LEMMA NextPathOK == IInv /\ [RestoreNext]_vars => PathOK'
<1> SUFFICES ASSUME IInv, [RestoreNext]_vars
             PROVE  PathOK'
  OBVIOUS
<1>0. PathOK
  BY DEF IInv
<1>1. ByFile => ByFile'
  BY NextFrame DEF IInv, Frame, ByFile
<1>2. ent'.volume # NoId => ByFile'
  BY <1>0, <1>1, NamedVolume DEF PathOK, saveVolumeId, FilePath
<1>3. ASSUME UNCHANGED pc, ent'.volume = ent.volume
      PROVE  PathOK'
  BY <1>0, <1>1, <1>2, <1>3 DEF PathOK
<1>4. ASSUME pc' \notin FilePath \union SnapshotPath
      PROVE  PathOK'
  BY <1>2, <1>4 DEF PathOK
<1>5. ASSUME pc \in FilePath, pc' \in FilePath
      PROVE  PathOK'
  BY <1>0, <1>1, <1>2, <1>5 DEF PathOK, FilePath, SnapshotPath
<1>6. ASSUME pc \in SnapshotPath, pc' \in SnapshotPath, ent'.volume = ent.volume
      PROVE  PathOK'
  BY <1>0, <1>2, <1>6 DEF PathOK, FilePath, SnapshotPath
<1> HIDE DEF PathOK
<1> USE DEF FilePath, SnapshotPath
<1>7. CASE submit \/ restart
  BY <1>4, <1>7 DEF submit, restart
<1>8. CASE cancel \/ updateCanceledTasks \/ destroy \/ deleteBackup \/ Delete \/ UNCHANGED vars
  BY <1>3, <1>8, OthersShape DEF cancel, OthersStep, Stay, vars, IInv
<1>9. CASE ThrowingSteps
  BY <1>4, <1>9, ThrowShape DEF ThrowsAway
<1>10. CASE setProgress
  <2> PICK s \in DOMAIN ProgressSteps : pc = s /\ pc' = ProgressSteps[s][2]
    BY <1>10 DEF setProgress
  <2>1. \/ pc \in FilePath /\ pc' \in FilePath
        \/ pc' \notin FilePath \union SnapshotPath
    BY ProgressNames DEF ProgressSteps
  <2>2. QED
    BY <1>4, <1>5, <2>1
<1>11. CASE notInterrupted
  <2> PICK c \in Checks : pc = c /\ pc' = CheckSteps[c] /\ ent' = ent
    BY <1>11 DEF notInterrupted, Moves
  <2>1. \/ pc \in FilePath /\ pc' \in FilePath
        \/ pc \in SnapshotPath /\ pc' \in SnapshotPath
        \/ pc' \notin FilePath \union SnapshotPath
    BY CheckNames DEF Checks, CheckSteps
  <2>2. QED
    BY <1>4, <1>5, <1>6, <2>1
<1>12. CASE FirstSteps
  <2>1. CASE begin
    <3>1. ent'.volume = ent.volume
      BY <2>1 DEF begin, Save, WithStatus, Entry
    <3>2. \/ pc' = "lookup" /\ ByFile
          \/ pc' = "snapshotExists" /\ ~ByFile
      BY <2>1 DEF begin, ByFile
    <3>3. QED
      BY <1>0, <1>1, <1>2, <3>1, <3>2 DEF PathOK
  <2>2. CASE lookup
    <3>1. pc' \in {"started", "resumeDetaching", "detachingTempVolume", "resumeWaiting", "compareZones"}
      BY <2>2 DEF lookup, firstStep
    <3>2. pc = "lookup"
      BY <2>2 DEF lookup
    <3>3. QED
      BY <1>4, <1>5, <3>1, <3>2
  <2>3. CASE resumeCleaning
    BY <1>4, <2>3 DEF resumeCleaning
  <2>4. CASE \/ snapshotExists \/ (isCanceled /\ pc = "checkSnapshot") \/ createFromSnapshot
             \/ nameFromSnapshot \/ deleteCanceled
    BY <1>6, <2>4 DEF snapshotExists, isCanceled, createFromSnapshot, nameFromSnapshot,
       deleteCanceled, Moves
  <2>5. CASE useBackupEntry
    BY <1>5, <2>5 DEF useBackupEntry, Moves
  <2>6. QED
    BY <1>12, <2>1, <2>2, <2>3, <2>4, <2>5 DEF FirstSteps
<1>13. CASE CopySteps
  BY <1>4, <1>5, <1>13 DEF CopySteps, createVolume, saveVolumeId, waitForVolume, attachVolume,
     startCopy, copy, Moves
<1>14. CASE LastSteps
  <2>1. CASE compareZones
    <3>1. \/ pc' \in {"nameTempVolume", "completeTask"}
          \/ ent.progress \in DOMAIN ZoneSteps /\ pc' = ZoneSteps[ent.progress]
      BY <2>1 DEF compareZones, Moves
    <3>2. QED
      BY <1>4, <3>1 DEF ZoneSteps
  <2>2. QED
    BY <1>4, <1>14, <2>1 DEF LastSteps, detachVolume, nameTempVolume, createSnapshot,
       saveSnapshotId, moveToTargetZone, nameRestored, deleteVolume, deleteSnapshot,
       completeTask, Moves
<1>15. CASE RollbackSteps
  BY <1>4, <1>5, <1>15 DEF RollbackSteps, resumeDetach, resumeDelete, cleanSnapshot, cleanVolume,
     afterCleaning, Moves
<1>16. QED
  BY <1>7, <1>8, <1>9, <1>10, <1>11, <1>12, <1>13, <1>14, <1>15, NextSteps

\* Who writes the snapshot a copy names.
LEMMA NamedSnapshot ==
  ASSUME IInv, [RestoreNext]_vars
  PROVE  ent'.snapshot = ent.snapshot \/ submit \/ restart \/ createSnapshot
<1> USE DEF WithStatus, WithProgress, Entry, Save
<1>1. CASE \/ begin \/ setProgress \/ saveVolumeId \/ saveSnapshotId \/ completeTask
           \/ deleteCanceled \/ afterCleaning \/ cancel
  BY <1>1 DEF begin, setProgress, saveVolumeId, saveSnapshotId, completeTask, deleteCanceled,
     afterCleaning, cancel
<1>2. QED
  BY <1>1, NextFrame DEF Frame, IInv

\* Places where the snapshot is there, and places where there is none yet.
WithSnapshot == {"resumeWaiting", "saveSnapshotId", "waitingSnapshot", "checkMoving",
                 "moveToTargetZone"}

WithoutSnapshot == (FilePath \ {"lookup"}) \union Writing \union {"detachingTempVolume"}

\* A restore knows its snapshot where it needs it, and has none before.
LEMMA NextSnapshotOK == IInv /\ [RestoreNext]_vars => SnapshotOK'
<1> SUFFICES ASSUME IInv, [RestoreNext]_vars
             PROVE  SnapshotOK'
  OBVIOUS
<1>0. /\ pc \in WithSnapshot => Present(ent.snapshot)
      /\ pc \in WithoutSnapshot => ent.snapshot = NoId
      /\ ent \in Entries /\ HasIds(ent) /\ ent.snapshot \in SnapshotIds \union {NoId}
  BY TypeParts DEF IInv, ControlTypes, RecordsOK, SnapshotOK, WithSnapshot, WithoutSnapshot,
     Entries
<1>1. ASSUME pc' \in WithSnapshot => Present(ent.snapshot)',
             pc' \in WithoutSnapshot => ent'.snapshot = NoId
      PROVE  SnapshotOK'
  BY <1>1 DEF SnapshotOK, WithSnapshot, WithoutSnapshot
<1> USE DEF WithSnapshot, WithoutSnapshot, FilePath, Writing
<1>2. ASSUME pc' \notin WithSnapshot \union WithoutSnapshot
      PROVE  SnapshotOK'
  BY <1>1, <1>2
<1>3. ASSUME ent'.snapshot = ent.snapshot, ~deleteSnapshot, ~cleanSnapshot
      PROVE  Present(ent.snapshot) => Present(ent.snapshot)'
  BY <1>0, <1>3, SnapshotsStay DEF Present
<1>4. ASSUME ent'.snapshot = ent.snapshot, ~deleteSnapshot, ~cleanSnapshot,
             pc' \in WithSnapshot => pc \in WithSnapshot,
             pc' \in WithoutSnapshot => pc \in WithoutSnapshot
      PROVE  SnapshotOK'
  BY <1>0, <1>1, <1>3, <1>4
<1> HIDE DEF SnapshotOK
<1>5. CASE submit \/ restart
  BY <1>2, <1>5 DEF submit, restart
<1>6. CASE cancel \/ updateCanceledTasks \/ destroy \/ deleteBackup \/ Delete \/ UNCHANGED vars
  <2>1. UNCHANGED <<pc, ent, snapshots, rollbackCut>>
    BY <1>6, OthersShape DEF cancel, OthersStep, Stay, vars, IInv, thread, cloud, others
  <2>2. QED
    BY <1>0, <1>1, <2>1 DEF Present
<1>7. CASE ThrowingSteps
  BY <1>2, <1>7, ThrowShape DEF ThrowsAway
<1>8. CASE setProgress
  <2> PICK s \in DOMAIN ProgressSteps : pc = s /\ pc' = ProgressSteps[s][2]
    BY <1>8 DEF setProgress
  <2>1. ent'.snapshot = ent.snapshot
    BY <1>8 DEF setProgress, Save, WithProgress, Entry
  <2>2. /\ pc' \in WithSnapshot => pc \in WithSnapshot
        /\ pc' \in WithoutSnapshot => pc \in WithoutSnapshot
    BY ProgressNames DEF ProgressSteps
  <2>3. ~deleteSnapshot /\ ~cleanSnapshot
    BY ProgressNames DEF deleteSnapshot, cleanSnapshot, Moves
  <2>4. QED
    BY <1>4, <2>1, <2>2, <2>3
<1>9. CASE notInterrupted
  <2> PICK c \in Checks : pc = c /\ pc' = CheckSteps[c] /\ ent' = ent
    BY <1>9 DEF notInterrupted, Moves
  <2>1. /\ pc' \in WithSnapshot => pc \in WithSnapshot
        /\ pc' \in WithoutSnapshot => pc \in WithoutSnapshot
    BY CheckNames DEF Checks, CheckSteps
  <2>2. ~deleteSnapshot /\ ~cleanSnapshot
    BY CheckNames DEF Checks, deleteSnapshot, cleanSnapshot, Moves
  <2>3. QED
    BY <1>4, <2>1, <2>2
<1>10. CASE FirstSteps
  <2>1. CASE lookup
    <3>1. UNCHANGED <<ent, snapshots, rollbackCut>> /\ pc = "lookup"
      BY <2>1 DEF lookup, cloud, others
    <3>2. \/ pc' = "started" /\ ent.progress \in {"NONE", "STARTED"}
          \/ pc' = "resumeDetaching" /\ ent.progress \in RedoneProgresses
          \/ pc' = "detachingTempVolume" /\ ent.progress = "DETACHING_TEMP_VOLUME"
          \/ pc' = "resumeWaiting" /\ ent.progress = "CREATING_SNAPSHOT" /\ ent.snapshot # NoId
          \/ pc' = "compareZones"
      BY <2>1 DEF lookup, firstStep
    <3>3. ent.progress \in RedoneProgresses => ent.progress \in BeforeSnapshot
      BY <1>0, ProgressValues DEF RedoneProgresses, BeforeSnapshot, Entries
    <3>4. ent.progress \in BeforeSnapshot => ent.snapshot = NoId
      BY <1>0 DEF HasIds
    <3>5. ent.progress = "CREATING_SNAPSHOT" /\ ent.snapshot # NoId => Present(ent.snapshot)'
      BY <1>0, <3>1 DEF HasIds, Present
    <3>6. QED
      BY <1>1, <3>1, <3>2, <3>3, <3>4, <3>5 DEF BeforeSnapshot, Present
  <2>2. CASE useBackupEntry
    BY <1>4, <2>2 DEF useBackupEntry, Moves, deleteSnapshot, cleanSnapshot
  <2>3. CASE \/ resumeCleaning \/ begin \/ snapshotExists \/ (isCanceled /\ pc = "checkSnapshot")
             \/ createFromSnapshot \/ nameFromSnapshot \/ deleteCanceled
    BY <1>2, <2>3 DEF resumeCleaning, begin, snapshotExists, isCanceled, createFromSnapshot,
       nameFromSnapshot, deleteCanceled, Moves
  <2>4. QED
    BY <1>10, <2>1, <2>2, <2>3 DEF FirstSteps
<1>11. CASE CopySteps
  <2>1. pc \in WithoutSnapshot /\ pc' \notin WithSnapshot
    BY <1>11 DEF CopySteps, createVolume, saveVolumeId, waitForVolume, attachVolume, startCopy,
       copy, Moves
  <2>2. ent'.snapshot = ent.snapshot
    BY <1>11 DEF CopySteps, createVolume, saveVolumeId, waitForVolume, attachVolume, startCopy,
       copy, Moves, Save, Entry
  <2>3. QED
    BY <1>0, <1>1, <2>1, <2>2
<1>12. CASE LastSteps
  <2>1. CASE compareZones
    <3>1. \/ pc' \in {"nameTempVolume", "completeTask"}
          \/ ent.progress \in DOMAIN ZoneSteps /\ pc' = ZoneSteps[ent.progress]
      BY <2>1 DEF compareZones, Moves
    <3>2. pc' = "waitingSnapshot" => ent.progress = "WAITING_SNAPSHOT"
      BY <3>1 DEF ZoneSteps
    <3>3. pc' \notin (WithSnapshot \ {"waitingSnapshot"}) \union WithoutSnapshot
      BY <3>1 DEF ZoneSteps
    <3>4. UNCHANGED <<ent, snapshots, rollbackCut>>
      BY <2>1 DEF compareZones, Moves, cloud, others
    <3>5. pc' \in WithSnapshot => Present(ent.snapshot)'
      BY <1>0, <3>2, <3>3, <3>4 DEF HasIds, Present
    <3>6. QED
      BY <1>1, <3>3, <3>5
  <2>2. CASE createSnapshot
    <3>1. pc' = "saveSnapshotId" /\ ent'.progress = "CREATING_SNAPSHOT" /\ ent'.snapshot = FreshSnapshot
      BY <2>2 DEF createSnapshot, IInv, ProgressOK, Entry
    <3>2. FreshSnapshot \in SnapshotIds
      BY <2>2 DEF createSnapshot, FreshSnapshot
    <3>3. Present(ent.snapshot)'
      BY <3>1, <3>2, NextRecordsOK, NoIdAssumption DEF RecordsOK, HasIds, Present
    <3>4. QED
      BY <1>1, <3>1, <3>3
  <2>3. CASE saveSnapshotId
    BY <1>4, <2>3 DEF saveSnapshotId, Save, deleteSnapshot, cleanSnapshot, Moves
  <2>4. CASE \/ detachVolume \/ nameTempVolume \/ moveToTargetZone \/ nameRestored \/ deleteVolume
             \/ deleteSnapshot \/ completeTask
    BY <1>2, <2>4 DEF detachVolume, nameTempVolume, moveToTargetZone, nameRestored, deleteVolume,
       deleteSnapshot, completeTask, Moves
  <2>5. QED
    BY <1>12, <2>1, <2>2, <2>3, <2>4 DEF LastSteps
<1>13. CASE RollbackSteps
  <2>1. CASE resumeDetach \/ resumeDelete
    BY <1>4, <2>1 DEF resumeDetach, resumeDelete, deleteSnapshot, cleanSnapshot, Moves
  <2>2. CASE cleanSnapshot \/ cleanVolume \/ afterCleaning
    BY <1>2, <2>2 DEF cleanSnapshot, cleanVolume, afterCleaning, Moves
  <2>3. QED
    BY <1>13, <2>1, <2>2 DEF RollbackSteps
<1>14. QED
  BY <1>5, <1>6, <1>7, <1>8, <1>9, <1>10, <1>11, <1>12, <1>13, NextSteps

\* Places where the temporary volume is the one on record, or has to be one; where it
\* is not saved yet; where the record has one; and where the restored one has its name to get.
Same == Writing \union Reading
Some == Writing \union {"creatingSnapshot", "createSnapshot", "nameTempVolume"}
Made == {"checkCreated", "saveVolumeId"}
Kept == {"resumeWaiting", "saveSnapshotId", "waitingSnapshot"}
Named == {"nameFromSnapshot", "nameRestored"}

\* The local variables name what they should.
LEMMA NextVolumeOK == IInv /\ [RestoreNext]_vars => VolumeOK'
<1> SUFFICES ASSUME IInv, [RestoreNext]_vars
             PROVE  VolumeOK'
  OBVIOUS
<1>0. /\ pc \in Same /\ tempVolume # NoId => tempVolume = ent.volume /\ Exists(tempVolume)
      /\ pc \in Some => tempVolume # NoId
      /\ pc \in Made => Exists(tempVolume)
      /\ pc \in Kept => ent.volume # NoId
      /\ pc \in Named => volumeToRestore # NoId
      /\ HasIds(ent) /\ tempVolume \in VolumeIds \union {NoId}
  BY DEF IInv, VolumeOK, RecordsOK, Same, Some, Made, Kept, Named, TypeOK, Ids
<1>1. ASSUME pc' \in Same /\ tempVolume' # NoId => tempVolume' = ent'.volume /\ Exists(tempVolume)',
             pc' \in Some => tempVolume' # NoId,
             pc' \in Made => Exists(tempVolume)',
             pc' \in Kept => ent'.volume # NoId,
             pc' \in Named => volumeToRestore' # NoId
      PROVE  VolumeOK'
  BY <1>1 DEF VolumeOK, Same, Some, Made, Kept, Named
<1> HIDE DEF VolumeOK
<1> USE DEF Same, Some, Made, Kept, Named, Writing, Reading
<1>2. ASSUME pc' \notin Same \union Some \union Made \union Kept \union Named
      PROVE  VolumeOK'
  BY <1>1, <1>2
<1>3. ASSUME UNCHANGED tempVolume, Exists(tempVolume),
             ~deleteVolume, ~resumeDelete, ~cleanVolume
      PROVE  Exists(tempVolume)'
  BY <1>0, <1>3, VolumesStay DEF Exists
<1>4. ASSUME UNCHANGED <<tempVolume, volumeToRestore>>, ent'.volume = ent.volume,
             ~deleteVolume, ~resumeDelete, ~cleanVolume,
             pc' \in Same => pc \in Same, pc' \in Some => pc \in Some, pc' \in Made => pc \in Made,
             pc' \in Kept => pc \in Kept, pc' \in Named => pc \in Named
      PROVE  VolumeOK'
  BY <1>0, <1>1, <1>3, <1>4
<1> DEFINE Stays == /\ pc' \in Same => pc \in Same
                    /\ pc' \in Some => pc \in Some
                    /\ pc' \in Made => pc \in Made
                    /\ pc' \in Kept => pc \in Kept
                    /\ pc' \in Named => pc \in Named
           Deletes == deleteVolume \/ resumeDelete \/ cleanVolume
<1>5. CASE submit \/ restart
  BY <1>2, <1>5 DEF submit, restart
<1>6. CASE cancel \/ updateCanceledTasks \/ destroy \/ deleteBackup \/ Delete \/ UNCHANGED vars
  <2>1. UNCHANGED <<pc, ent, tempVolume, volumeToRestore, volumes>>
    BY <1>6, OthersShape DEF cancel, OthersStep, Stay, vars, IInv, thread, cloud, others
  <2>2. QED
    BY <1>0, <1>1, <2>1 DEF Exists
<1>7. CASE ThrowingSteps
  BY <1>2, <1>7, ThrowShape DEF ThrowsAway
<1>8. CASE setProgress
  <2> PICK s \in DOMAIN ProgressSteps : pc = s /\ pc' = ProgressSteps[s][2]
    BY <1>8 DEF setProgress
  <2>1. UNCHANGED <<tempVolume, volumeToRestore>> /\ ent'.volume = ent.volume
    BY <1>8 DEF setProgress, Save, WithProgress, Entry, thread
  <2>2. Stays
    BY ProgressNames DEF ProgressSteps
  <2>3. ~Deletes
    BY ProgressNames DEF deleteVolume, resumeDelete, cleanVolume, Moves
  <2>4. QED
    BY <1>4, <2>1, <2>2, <2>3
<1>9. CASE notInterrupted
  <2> PICK c \in Checks : pc = c /\ pc' = CheckSteps[c] /\ ent' = ent
    BY <1>9 DEF notInterrupted, Moves
  <2>1. UNCHANGED <<tempVolume, volumeToRestore>>
    BY <1>9 DEF notInterrupted, Moves, thread
  <2>2. Stays
    BY CheckNames DEF Checks, CheckSteps
  <2>3. ~Deletes
    BY CheckNames DEF Checks, deleteVolume, resumeDelete, cleanVolume, Moves
  <2>4. QED
    BY <1>4, <2>1, <2>2, <2>3
<1>10. CASE FirstSteps
  <2>1. CASE lookup
    <3>1. UNCHANGED <<ent, volumes>> /\ tempVolume' = IF Exists(ent.volume) THEN ent.volume ELSE NoId
      BY <2>1 DEF lookup, cloud
    <3>2. /\ pc' \in {"started", "resumeDetaching", "detachingTempVolume", "resumeWaiting",
                      "compareZones"}
          /\ pc' = "resumeWaiting" => ent.progress = "CREATING_SNAPSHOT"
      BY <2>1 DEF lookup, firstStep
    <3>3. pc' = "resumeWaiting" => ent'.volume # NoId
      BY <1>0, <3>1, <3>2 DEF HasIds
    <3>4. tempVolume' # NoId => tempVolume' = ent'.volume /\ Exists(tempVolume)'
      BY <3>1 DEF Exists
    <3>5. QED
      BY <1>1, <3>2, <3>3, <3>4
  <2>2. CASE createFromSnapshot
    <3>1. pc' = "nameFromSnapshot" /\ volumeToRestore' \in VolumeIds
      BY <2>2, Creations DEF createFromSnapshot
    <3>2. QED
      BY <1>1, <3>1, NoIdAssumption
  <2>3. CASE \/ resumeCleaning \/ begin \/ snapshotExists \/ (isCanceled /\ pc = "checkSnapshot")
             \/ nameFromSnapshot \/ deleteCanceled \/ useBackupEntry
    BY <1>2, <2>3 DEF resumeCleaning, begin, snapshotExists, isCanceled,
       nameFromSnapshot, deleteCanceled, useBackupEntry, Moves
  <2>4. QED
    BY <1>10, <2>1, <2>2, <2>3 DEF FirstSteps
<1>11. CASE CopySteps
  <2>1. CASE createVolume
    <3>1. FreshVolume \in VolumeIds /\ volumes'[FreshVolume].state = "creating"
      BY <2>1, Creations DEF IInv, TypeOK
    <3>2. pc' = "checkCreated" /\ tempVolume' = FreshVolume
      BY <2>1 DEF createVolume
    <3>3. Exists(tempVolume)'
      BY <3>1, <3>2, NoIdAssumption DEF Exists
    <3>4. QED
      BY <1>1, <3>2, <3>3
  <2>2. CASE saveVolumeId
    <3>1. /\ pc = "saveVolumeId" /\ pc' = "checkWaiting"
          /\ UNCHANGED <<tempVolume, volumes>> /\ ent'.volume = tempVolume
      BY <2>2 DEF saveVolumeId, Save, Entry, thread, cloud
    <3>2. Exists(tempVolume)' /\ tempVolume' # NoId
      BY <1>0, <3>1 DEF Exists
    <3>3. QED
      BY <1>1, <3>1, <3>2
  <2>3. CASE waitForVolume \/ attachVolume \/ startCopy \/ copy
    <3>1. UNCHANGED <<tempVolume, volumeToRestore, ent>>
      BY <2>3 DEF waitForVolume, attachVolume, startCopy, copy, Moves, thread
    <3>2. ~Deletes
      BY <2>3 DEF waitForVolume, attachVolume, startCopy, copy, deleteVolume, resumeDelete,
         cleanVolume, Moves
    <3>3. Stays
      BY <2>3 DEF waitForVolume, attachVolume, startCopy, copy, Moves
    <3>4. QED
      BY <1>4, <3>1, <3>2, <3>3
  <2>4. QED
    BY <1>11, <2>1, <2>2, <2>3 DEF CopySteps
<1>12. CASE LastSteps
  <2>1. CASE compareZones
    <3>1. \/ pc' \in {"nameTempVolume", "completeTask"}
          \/ ent.progress \in DOMAIN ZoneSteps /\ pc' = ZoneSteps[ent.progress]
      BY <2>1 DEF compareZones, Moves
    <3>2. /\ pc' \in {"nameTempVolume", "completeTask", "creatingSnapshot", "waitingSnapshot",
                      "deletingTempVolume", "deletingTempSnapshot"}
          /\ pc' = "waitingSnapshot" => ent.progress = "WAITING_SNAPSHOT"
      BY <3>1 DEF ZoneSteps
    <3>3. pc = "compareZones" /\ UNCHANGED <<ent, tempVolume, volumes>> /\ tempVolume # NoId
      BY <2>1 DEF compareZones, Moves, thread, cloud
    <3>4. pc' = "waitingSnapshot" => ent'.volume # NoId
      BY <1>0, <3>2, <3>3 DEF HasIds
    <3>5. tempVolume' = ent'.volume /\ Exists(tempVolume)'
      BY <1>0, <3>3 DEF Exists
    <3>6. QED
      BY <1>1, <3>2, <3>3, <3>4, <3>5
  <2>2. CASE createSnapshot
    <3>1. pc' = "saveSnapshotId" /\ ent'.volume # NoId
      BY <2>2 DEF createSnapshot, Exists, Entry
    <3>2. QED
      BY <1>1, <3>1
  <2>3. CASE moveToTargetZone
    <3>1. pc' = "nameRestored" /\ volumeToRestore' \in VolumeIds
      BY <2>3, Creations DEF moveToTargetZone
    <3>2. QED
      BY <1>1, <3>1, NoIdAssumption
  <2>4. CASE detachVolume \/ saveSnapshotId
    <3>1. UNCHANGED <<tempVolume, volumeToRestore, ent>>
      BY <2>4 DEF detachVolume, saveSnapshotId, Save, Moves, thread
    <3>2. ~Deletes
      BY <2>4 DEF detachVolume, saveSnapshotId, deleteVolume, resumeDelete, cleanVolume, Moves
    <3>3. Stays
      BY <2>4 DEF detachVolume, saveSnapshotId, Moves
    <3>4. QED
      BY <1>4, <3>1, <3>2, <3>3
  <2>5. CASE nameTempVolume \/ nameRestored \/ deleteVolume \/ deleteSnapshot \/ completeTask
    BY <1>2, <2>5 DEF nameTempVolume, nameRestored, deleteVolume, deleteSnapshot, completeTask,
       Moves
  <2>6. QED
    BY <1>12, <2>1, <2>2, <2>3, <2>4, <2>5 DEF LastSteps
<1>13. CASE RollbackSteps
  BY <1>2, <1>13 DEF RollbackSteps, resumeDetach, resumeDelete, cleanSnapshot, cleanVolume,
     afterCleaning, Moves
<1>14. QED
  BY <1>5, <1>6, <1>7, <1>8, <1>9, <1>10, <1>11, <1>12, <1>13, NextSteps

\* EC2 knows what is named, and whoever writes writes to what is nobody else's.
LEMMA NextFreshOK == IInv /\ [RestoreNext]_vars => FreshOK'
<1> SUFFICES ASSUME IInv, [RestoreNext]_vars
             PROVE  FreshOK'
  OBVIOUS
<1>0. FreshOK /\ TypeOK
  BY DEF IInv
<1>1. /\ \A v \in VolumeIds : volumes[v].state # "none" => volumes'[v].state # "none"
      /\ restored \subseteq VolumeIds /\ ent.volume \in VolumeIds \union {NoId}
      /\ tempVolume \in VolumeIds \union {NoId} /\ volumeToRestore \in VolumeIds \union {NoId}
  BY <1>0, VolumesStay DEF TypeOK, Ids
<1>2. ASSUME NEW v \in VolumeIds \union {NoId}, Known(v)
      PROVE  v # NoId => volumes'[v].state # "none"
  BY <1>1, <1>2 DEF Known
<1>3. createFromSnapshot \/ createVolume \/ moveToTargetZone
        => /\ FreshVolume \in VolumeIds /\ volumes[FreshVolume].state = "none"
           /\ volumes'[FreshVolume].state # "none"
  BY <1>0, Creations DEF TypeOK
<1>4. \A v \in restored' : v # NoId => volumes'[v].state # "none"
  <2>1. \A v \in restored' : v \in restored \/ v = tempVolume \/ v = volumeToRestore
    BY NextFrame DEF Frame, IInv, nameFromSnapshot, nameTempVolume, nameRestored
  <2>2. QED
    BY <1>0, <1>1, <1>2, <2>1 DEF FreshOK
<1>5. tempVolume' # NoId => volumes'[tempVolume'].state # "none"
  <2>1. \/ tempVolume' \in {tempVolume, ent.volume, NoId}
        \/ createVolume /\ tempVolume' = FreshVolume
    BY NextFrame DEF Frame, IInv, lookup, createVolume, restart
  <2>2. QED
    BY <1>0, <1>1, <1>2, <1>3, <2>1 DEF FreshOK
<1>6. volumeToRestore' # NoId => volumes'[volumeToRestore'].state # "none"
  <2>1. \/ volumeToRestore' \in {volumeToRestore, NoId}
        \/ (createFromSnapshot \/ moveToTargetZone) /\ volumeToRestore' = FreshVolume
    BY NextFrame DEF Frame, IInv, createFromSnapshot, moveToTargetZone, restart
  <2>2. QED
    BY <1>0, <1>1, <1>2, <1>3, <2>1 DEF FreshOK
<1>7. ent'.volume # NoId => volumes'[ent'.volume].state # "none"
  BY <1>0, <1>1, <1>2, NamedVolume DEF FreshOK
<1> DEFINE Own == (Writing \ {"copy"}) \union {"checkCreated", "saveVolumeId"}
<1>8. pc' \in Own => tempVolume' \notin restored'
  <2>1. CASE createVolume
    <3>1. FreshVolume \notin restored
      BY <1>0, <1>1, <1>3, <2>1, NoIdAssumption DEF FreshOK, Known
    <3>2. QED
      BY <2>1, <3>1 DEF createVolume
  <2>2. ASSUME pc' \in Own, ~createVolume
        PROVE  pc \in Own /\ UNCHANGED <<tempVolume, restored>>
    <3> USE DEF Writing
    <3>1. CASE submit \/ restart \/ ThrowingSteps \/ RollbackSteps
      BY <2>2, <3>1, ThrowShape DEF submit, restart, ThrowsAway, RollbackSteps, resumeDetach,
         resumeDelete, cleanSnapshot, cleanVolume, afterCleaning, Moves
    <3>2. CASE cancel \/ updateCanceledTasks \/ destroy \/ deleteBackup \/ Delete \/ UNCHANGED vars
      BY <2>2, <3>2, OthersShape DEF cancel, OthersStep, Stay, vars, IInv, thread, cloud
    <3>3. CASE setProgress
      <4> PICK s \in DOMAIN ProgressSteps : pc = s /\ pc' = ProgressSteps[s][2]
        BY <3>3 DEF setProgress
      <4>1. pc \in Own
        BY <2>2, ProgressNames DEF ProgressSteps
      <4>2. QED
        BY <3>3, <4>1 DEF setProgress, thread, cloud
    <3>4. CASE notInterrupted
      <4> PICK c \in Checks : pc = c /\ pc' = CheckSteps[c]
        BY <3>4 DEF notInterrupted, Moves
      <4>1. pc \in Own
        BY <2>2, CheckNames DEF Checks, CheckSteps
      <4>2. QED
        BY <3>4, <4>1 DEF notInterrupted, Moves, thread, cloud
    <3>5. CASE FirstSteps
      <4>1. pc' \notin Own
        BY <3>5 DEF FirstSteps, resumeCleaning, begin, snapshotExists, isCanceled,
           createFromSnapshot, nameFromSnapshot, deleteCanceled, lookup, firstStep,
           useBackupEntry, Moves
      <4>2. QED
        BY <2>2, <4>1
    <3>6. CASE CopySteps
      BY <2>2, <3>6 DEF CopySteps, saveVolumeId, waitForVolume, attachVolume, startCopy, copy,
         Moves, thread, cloud
    <3>7. CASE LastSteps
      <4>1. CASE compareZones
        BY <2>2, <4>1 DEF compareZones, Moves, ZoneSteps
      <4>2. QED
        BY <2>2, <3>7, <4>1 DEF LastSteps, detachVolume, nameTempVolume, createSnapshot,
           saveSnapshotId, moveToTargetZone, nameRestored, deleteVolume, deleteSnapshot,
           completeTask, Moves
    <3>8. QED
      BY <3>1, <3>2, <3>3, <3>4, <3>5, <3>6, <3>7, NextSteps
  <2>3. QED
    BY <1>0, <2>1, <2>2 DEF FreshOK
<1>9. QED
  BY <1>4, <1>5, <1>6, <1>7, <1>8 DEF FreshOK, Known

\* What is on a volume stays on it, unless the restore writes to it.
LEMMA DataStays ==
  ASSUME IInv, [RestoreNext]_vars, NEW v \in VolumeIds, volumes[v].state # "none",
         volumes[v].data = "whole", ~(startCopy /\ v = tempVolume)
  PROVE  volumes'[v].data = "whole"
BY VolumesStay

\* Restored volumes are whole, and the next one too.
LEMMA RestoredStayWhole ==
  ASSUME IInv, [RestoreNext]_vars, ~rollbackCut
  PROVE  \A v \in restored' : volumes'[v].data = "whole"
<1>0. /\ TypeOK /\ FreshOK /\ VolumeOK
      /\ \A v \in restored : volumes[v].data = "whole"
      /\ pc \in AfterCopy => WholeIfAny(ent.volume)
      /\ pc \in {"nameFromSnapshot", "nameRestored"} => WholeIfAny(volumeToRestore)
  BY DEF IInv, WholeOK
<1>1. CASE UNCHANGED restored
  <2> SUFFICES ASSUME NEW v \in restored
               PROVE  volumes'[v].data = "whole"
    BY <1>1
  <2>1. v \in VolumeIds /\ volumes[v].data = "whole" /\ volumes[v].state # "none"
    BY <1>0, NoIdAssumption DEF TypeOK, FreshOK, Known
  <2>2. ~(startCopy /\ v = tempVolume)
    BY <1>0 DEF FreshOK, startCopy, Moves, Writing
  <2>3. QED
    BY <2>1, <2>2, DataStays
<1>2. CASE nameFromSnapshot \/ nameRestored
  BY <1>0, <1>2 DEF nameFromSnapshot, nameRestored, Moves, VolumeOK, WholeIfAny
<1>3. CASE nameTempVolume
  BY <1>0, <1>3 DEF nameTempVolume, Moves, Exists, VolumeOK, WholeIfAny, AfterCopy, Reading
<1>4. QED
  BY <1>1, <1>2, <1>3, NextFrame DEF Frame, IInv

\* A volume waits for its name from its creation.
LEMMA WaitingForName ==
  ASSUME IInv, [RestoreNext]_vars, pc' \in {"nameFromSnapshot", "nameRestored"},
         ~createFromSnapshot, ~moveToTargetZone
  PROVE  UNCHANGED <<pc, ent, volumeToRestore, volumes>>
<1>1. CASE setProgress
  <2> PICK s \in DOMAIN ProgressSteps : pc' = ProgressSteps[s][2]
    BY <1>1 DEF setProgress
  <2>1. QED
    BY ProgressNames DEF ProgressSteps
<1>2. CASE notInterrupted
  <2> PICK c \in Checks : pc' = CheckSteps[c]
    BY <1>2 DEF notInterrupted, Moves
  <2>1. QED
    BY CheckNames DEF Checks, CheckSteps
<1>3. CASE submit \/ restart \/ ThrowingSteps
  BY <1>3, ThrowShape DEF submit, restart, ThrowsAway
<1>4. CASE FirstSteps
  BY <1>4 DEF FirstSteps, resumeCleaning, begin, snapshotExists, isCanceled,
     nameFromSnapshot, deleteCanceled, lookup, firstStep, useBackupEntry, Moves
<1>5. CASE CopySteps \/ RollbackSteps
  BY <1>5 DEF CopySteps, createVolume, saveVolumeId, waitForVolume, attachVolume, startCopy, copy,
     RollbackSteps, resumeDetach, resumeDelete, cleanSnapshot, cleanVolume, afterCleaning, Moves
<1>6. CASE LastSteps
  <2>1. CASE compareZones
    BY <2>1 DEF compareZones, Moves, ZoneSteps
  <2>2. QED
    BY <1>6, <2>1 DEF LastSteps, detachVolume, nameTempVolume, createSnapshot, saveSnapshotId,
       nameRestored, deleteVolume, deleteSnapshot, completeTask, Moves
<1>7. CASE cancel \/ updateCanceledTasks \/ destroy \/ deleteBackup \/ Delete \/ UNCHANGED vars
  BY <1>7, OthersShape DEF cancel, OthersStep, Stay, vars, IInv, thread, cloud
<1>8. QED
  BY <1>1, <1>2, <1>3, <1>4, <1>5, <1>6, <1>7, NextSteps

\* So is the volume that waits for its name.
LEMMA NamedIsWhole ==
  ASSUME IInv, [RestoreNext]_vars, ~rollbackCut, pc' \in {"nameFromSnapshot", "nameRestored"}
  PROVE  WholeIfAny(volumeToRestore)'
<1>1. CASE createFromSnapshot \/ moveToTargetZone
  <2>1. volumeToRestore' = FreshVolume /\ ~createVolume
    BY <1>1 DEF createFromSnapshot, moveToTargetZone, createVolume
  <2>2. volumes'[FreshVolume].data = "whole"
    BY <1>1, <2>1, Creations DEF IInv, TypeOK
  <2>3. QED
    BY <2>1, <2>2 DEF WholeIfAny
<1>2. CASE ~createFromSnapshot /\ ~moveToTargetZone
  BY <1>2, WaitingForName DEF IInv, WholeOK, WholeIfAny
<1>3. QED
  BY <1>1, <1>2

\* The volume on record was whole, and nothing is written to it any more.
LEMMA KeepsWhole ==
  ASSUME IInv, [RestoreNext]_vars, WholeIfAny(ent.volume), ~startCopy, ent'.volume \in {ent.volume, NoId}
  PROVE  WholeIfAny(ent.volume)'
<1>1. ent.volume # NoId => ent.volume \in VolumeIds /\ volumes[ent.volume].state # "none"
  BY DEF IInv, TypeOK, Ids, FreshOK, Known
<1>2. QED
  BY <1>1, DataStays DEF WholeIfAny

\* The volume on record is one a copy ended on: the thread is past it, or the progress says so
\* and no rollback is under way.
Trusted ==
  \/ pc \in AfterCopy
  \/ (pc # "idle" \/ rec.status \in Live) /\ ent.progress \in Copied /\ ~RollsBack

\* Only the end of a copy makes a volume trusted that was not.
LEMMA TrustStays ==
  ASSUME IInv, [RestoreNext]_vars, Trusted', ~rollbackCut', ~copy
  PROVE  \/ ent'.volume = NoId
         \/ Trusted /\ ~startCopy /\ ent'.volume \in {ent.volume, NoId}
<1>0. /\ ProgressOK /\ PathOK /\ ent.progress \in Progresses
      /\ rec = NoRecord \/ rec.progress = ent.progress
      /\ NoRecord.status = "absent"
  BY TypeParts DEF IInv, RecordsOK, NoRecord, Entry, ControlTypes, Entries
<1>1. \/ ent'.volume \in {ent.volume, NoId}
      \/ saveVolumeId
  BY NamedVolume
<1>2. ASSUME pc' \notin AfterCopy
      PROVE  (pc' # "idle" \/ rec'.status \in Live) /\ ent'.progress \in Copied /\ ~RollsBack'
  BY <1>2 DEF Trusted
<1> USE DEF AfterCopy, Reading, Copied, Live
<1>3. CASE submit
  <2>1. /\ pc = "idle" /\ pc' = "begin" /\ ent'.progress = rec.progress
        /\ rec.status \in {"queued", "partially_finished"}
    BY <1>3 DEF submit, Save, WithStatus, Entry
  <2>2. Trusted
    BY <1>0, <1>2, <2>1 DEF Trusted, RollsBack
  <2>3. QED
    BY <1>1, <1>3, <2>1, <2>2 DEF saveVolumeId, startCopy, Moves
<1>4. CASE restart
  <2>1. /\ pc' = "idle" /\ ent' = rec' /\ ~RollsBack /\ ent'.progress = rec.progress
        /\ rec'.status = rec.status \/ (rec.status = "running" /\ rec'.status = "partially_finished")
    BY <1>4 DEF restart, WithStatus, Entry
  <2>2. Trusted
    BY <1>0, <1>2, <2>1 DEF Trusted
  <2>3. QED
    BY <1>1, <1>4, <2>2 DEF restart, saveVolumeId, startCopy, Moves, Save, thread
<1>5. CASE cancel \/ updateCanceledTasks \/ destroy \/ deleteBackup \/ Delete \/ UNCHANGED vars
  <2>1. UNCHANGED <<pc, ent>> /\ (rec' = rec \/ rec'.status = "canceled")
    BY <1>5, OthersShape DEF cancel, OthersStep, Stay, vars, IInv, WithStatus, Entry
  <2>2. Trusted
    BY <2>1 DEF Trusted, RollsBack
  <2>3. ~startCopy /\ ~saveVolumeId
    BY <2>1 DEF startCopy, saveVolumeId, Moves
  <2>4. QED
    BY <1>1, <2>2, <2>3
<1>6. CASE ThrowingSteps
  <2>1. /\ pc \in Checks \union CallsToAws \union {"copy", "useBackupEntry", "compareZones"}
        /\ pc' \in {"failCleaning", "interruptedCleaning"} /\ UNCHANGED <<ent, volumes>>
    BY <1>6, ThrowShape DEF ThrowsAway, Stay
  <2>2. pc # "idle" /\ ~RollsBack
    BY <2>1, CheckNames DEF RollsBack, Checks, CallsToAws
  <2>3. Trusted
    BY <1>2, <2>1, <2>2 DEF Trusted
  <2>4. ~startCopy /\ ~saveVolumeId
    BY <2>1 DEF startCopy, saveVolumeId, Moves
  <2>5. QED
    BY <1>1, <2>3, <2>4
<1>7. CASE setProgress
  <2> PICK s \in DOMAIN ProgressSteps :
         /\ pc = s /\ pc' = ProgressSteps[s][2]
         /\ ent' = WithProgress(ent, ProgressSteps[s][1])
    BY <1>7 DEF setProgress, Save
  <2>1. ent'.progress = ProgressSteps[s][1] /\ ent'.volume = ent.volume
    BY DEF WithProgress, Entry
  <2>2. CASE s \in {"started", "creatingTempVolume", "waitingTempVolume", "attachingVolume",
                    "interruptedCleaning", "failCleaning"}
    BY <1>2, <2>1, <2>2 DEF ProgressSteps
  <2>3. CASE s \in {"resumeDetaching", "resumeDeleting", "cleaningSnapshot", "cleaningVolume"}
    BY <1>2, <2>1, <2>3 DEF ProgressSteps, RollsBack
  <2>4. CASE s = "done"
    BY <1>0, <2>1, <2>4 DEF PathOK, SnapshotPath
  <2>5. CASE s \in {"detachingTempVolume", "creatingSnapshot", "resumeWaiting", "waitingSnapshot",
                    "deletingTempVolume", "deletingTempSnapshot"}
    BY <2>1, <2>5 DEF Trusted, startCopy, Moves
  <2>6. QED
    BY <2>2, <2>3, <2>4, <2>5, ProgressNames
<1>8. CASE notInterrupted
  <2> PICK c \in Checks : pc = c /\ pc' = CheckSteps[c] /\ ent' = ent
    BY <1>8 DEF notInterrupted, Moves
  <2>1. /\ pc' \in AfterCopy => pc \in AfterCopy
        /\ pc # "idle" /\ ~RollsBack /\ pc # "startCopy"
    BY CheckNames DEF Checks, CheckSteps, RollsBack
  <2>2. Trusted
    BY <2>1 DEF Trusted
  <2>3. QED
    BY <2>1, <2>2 DEF startCopy, Moves
<1>9. CASE FirstSteps
  <2>1. CASE lookup
    <3>1. pc = "lookup" /\ ent' = ent
      BY <2>1 DEF lookup
    <3>2. \/ pc' \in {"started", "resumeDetaching"}
          \/ ent.progress \notin {"NONE", "STARTED"} \union RedoneProgresses
      BY <2>1 DEF lookup, firstStep, RedoneProgresses
    <3>3. ent.progress \in Copied
      BY <1>0, <1>2, <3>1, <3>2, ProgressValues DEF ProgressOK, Cleanings, RedoneProgresses
    <3>4. Trusted
      BY <3>1, <3>3 DEF Trusted, RollsBack
    <3>5. QED
      BY <3>1, <3>4 DEF startCopy, Moves
  <2>2. CASE \/ resumeCleaning \/ begin \/ snapshotExists \/ (isCanceled /\ pc = "checkSnapshot")
             \/ createFromSnapshot \/ nameFromSnapshot \/ deleteCanceled \/ useBackupEntry
    <3>1. /\ pc \in {"begin", "snapshotExists", "checkSnapshot", "createFromSnapshot", "nameFromSnapshot",
                     "deleteCanceled", "useBackupEntry"}
          /\ pc' \notin AfterCopy /\ ent'.progress = ent.progress /\ ent'.volume = ent.volume
      BY <2>2 DEF resumeCleaning, begin, snapshotExists, isCanceled, createFromSnapshot,
         nameFromSnapshot, deleteCanceled, useBackupEntry, Moves, Save, WithStatus, Entry
    <3>2. Trusted
      BY <1>2, <3>1 DEF Trusted, RollsBack
    <3>3. QED
      BY <3>1, <3>2 DEF startCopy, Moves
  <2>3. QED
    BY <1>9, <2>1, <2>2 DEF FirstSteps
<1>10. CASE CopySteps
  <2>1. CASE waitForVolume
    <3>1. pc = "waitForVolume" /\ pc' = "checkAttaching" /\ ent' = ent
      BY <2>1 DEF waitForVolume, Moves
    <3>2. Trusted
      BY <1>2, <3>1 DEF Trusted, RollsBack
    <3>3. QED
      BY <3>1, <3>2 DEF startCopy, Moves
  <2>2. CASE createVolume \/ saveVolumeId \/ attachVolume \/ startCopy
    <3>1. /\ pc' \notin AfterCopy
          /\ ent'.progress \in {"CREATING_TEMP_VOLUME", "ATTACHING_VOLUME"}
      BY <1>0, <2>2 DEF createVolume, saveVolumeId, attachVolume, startCopy, Moves, Save, Entry,
         ProgressOK
    <3>2. QED
      BY <1>2, <3>1
  <2>3. QED
    BY <1>10, <2>1, <2>2 DEF CopySteps
<1>11. CASE LastSteps
  <2>1. pc \in AfterCopy
    BY <1>11 DEF LastSteps, detachVolume, compareZones, nameTempVolume, createSnapshot,
       saveSnapshotId, moveToTargetZone, nameRestored, deleteVolume, deleteSnapshot,
       completeTask, Moves
  <2>2. QED
    BY <1>1, <2>1 DEF Trusted, startCopy, saveVolumeId, Moves
<1>12. CASE RollbackSteps
  <2>1. CASE resumeDetach \/ cleanSnapshot \/ cleanVolume
    <3>1. pc' \in {"resumeDeleting", "cleaningVolume", "afterCleaning"}
      BY <2>1 DEF resumeDetach, cleanSnapshot, cleanVolume, Moves
    <3>2. QED
      BY <1>2, <3>1 DEF RollsBack
  <2>2. CASE resumeDelete
    <3>1. pc' = "started" /\ ent'.progress = "DELETING_TEMP_VOLUME"
      BY <1>0, <2>2 DEF resumeDelete, ProgressOK
    <3>2. QED
      BY <1>2, <3>1 DEF RollsBack
  <2>3. CASE afterCleaning
    <3>1. pc' = "idle" /\ rec'.status \in {"error", "absent"}
      BY <1>0, <2>3 DEF afterCleaning, Save, WithStatus, Entry
    <3>2. QED
      BY <1>2, <3>1
  <2>4. QED
    BY <1>12, <2>1, <2>2, <2>3 DEF RollbackSteps
<1>13. QED
  BY <1>3, <1>4, <1>5, <1>6, <1>7, <1>8, <1>9, <1>10, <1>11, <1>12, NextSteps

\* What says it is copied stays whole.
LEMMA NextWholeOK == IInv /\ [RestoreNext]_vars => WholeOK'
<1> SUFFICES ASSUME IInv, [RestoreNext]_vars, ~rollbackCut'
             PROVE  WholeOK'
  BY DEF WholeOK
<1>1. ~rollbackCut
  BY NextFrame DEF IInv, Frame, restart
<1>2. Trusted => WholeIfAny(ent.volume)
  BY <1>1 DEF IInv, WholeOK, Trusted
<1>3. Trusted' => WholeIfAny(ent.volume)'
  <2>1. CASE copy
    <3>1. tempVolume = ent.volume /\ tempVolume \in VolumeIds /\ ent' = ent
      BY <2>1 DEF copy, Moves, IInv, TypeOK, Ids, VolumeOK, Writing
    <3>2. volumes'[tempVolume].data = "whole"
      BY <2>1, <3>1 DEF copy, SetData, IInv, TypeOK
    <3>3. QED
      BY <3>1, <3>2 DEF WholeIfAny
  <2>2. CASE ~copy
    <3> SUFFICES ASSUME Trusted'
                 PROVE  WholeIfAny(ent.volume)'
      OBVIOUS
    <3>1. CASE ent'.volume = NoId
      BY <3>1 DEF WholeIfAny
    <3>2. CASE Trusted /\ ~startCopy /\ ent'.volume \in {ent.volume, NoId}
      BY <1>2, <3>2, KeepsWhole
    <3>3. QED
      BY <2>2, <3>1, <3>2, TrustStays
  <2>3. QED
    BY <2>1, <2>2
<1>4. QED
  BY <1>1, <1>3, RestoredStayWhole, NamedIsWhole DEF WholeOK, Trusted

-----------------------------------------------------------------------------
(* The theorems                                                            *)

\* The invariant holds initially.
LEMMA InitIInv == Init => IInv
<1> SUFFICES ASSUME Init
             PROVE  IInv
  OBVIOUS
<1>0. /\ rec = ent /\ ent = Entry("queued", "NONE", NoId, NoId) /\ pc = "idle"
      /\ tempVolume = NoId /\ volumeToRestore = NoId /\ restored = {}
  BY DEF Init
<1>1. TypeOK
  BY InitTypes
<1>2. RecordsOK /\ ProgressOK /\ SnapshotOK
  BY <1>0 DEF RecordsOK, HasIds, BeforeSnapshot, Entry, ProgressOK, SnapshotOK, FilePath, Writing
<1>3. VolumeOK /\ PathOK /\ FreshOK
  BY <1>0 DEF VolumeOK, Writing, Reading, PathOK, FilePath, SnapshotPath, Entry, FreshOK, Known
<1>4. WholeOK
  BY <1>0 DEF WholeOK, AfterCopy, Reading, Entry, Copied
<1>5. QED
  BY <1>1, <1>2, <1>3, <1>4 DEF IInv

\* While EC2 creates a volume nothing changes that the invariants ask for.
Unaffected ==
  /\ UNCHANGED <<request, rec, ent, pc, thread, canceled, snapshots, restored, backup, deletion,
                 closing, events, rollbackCut>>
  /\ volumes' \in Volumes
  /\ \A v \in VolumeIds : /\ volumes'[v].data = volumes[v].data
                          /\ volumes'[v].state = "none" <=> volumes[v].state = "none"
                          /\ Exists(v)' <=> Exists(v)

\* A volume that comes up is such a step.
LEMMA CreatedShape ==
  ASSUME TypeOK, NEW u \in VolumeIds, volumeIsCreated(u)
  PROVE  Unaffected
BY DEF TypeOK, volumeIsCreated, SetState, Unaffected, Volumes, Exists, others

\* It disturbs no part of the invariant.
LEMMA CreatedKeepsIInv ==
  ASSUME IInv, Unaffected
  PROVE  IInv'
<1> USE DEF Unaffected, thread
<1>1. TypeOK'
  BY DEF IInv, TypeOK, Volumes
<1>2. RecordsOK'
  BY DEF IInv, RecordsOK, HasIds, Present
<1>3. ProgressOK' /\ SnapshotOK' /\ PathOK'
  BY DEF IInv, ProgressOK, SnapshotOK, Present, PathOK, ByFile
<1>4. VolumeOK'
  BY DEF IInv, TypeOK, Ids, VolumeOK, Exists
<1>5. FreshOK'
  BY DEF IInv, TypeOK, Ids, FreshOK, Known
<1>6. WholeOK'
  BY DEF IInv, TypeOK, Ids, WholeOK, WholeIfAny, RollsBack
<1>7. QED
  BY <1>1, <1>2, <1>3, <1>4, <1>5, <1>6 DEF IInv

\* Next, with the volumes that come up meanwhile.
LEMMA NextOrCreated ==
  ASSUME TypeOK, [Next]_vars
  PROVE  [RestoreNext]_vars \/ Unaffected
BY CreatedShape DEF Next

\* The invariant is inductive.
LEMMA NextIInv == IInv /\ [Next]_vars => IInv'
<1> SUFFICES ASSUME IInv, [Next]_vars
             PROVE  IInv'
  OBVIOUS
<1>1. CASE [RestoreNext]_vars
  BY <1>1, NextTypeOK, NextRecordsOK, NextProgressOK, NextVolumeOK, NextSnapshotOK, NextPathOK,
     NextFreshOK, NextWholeOK DEF IInv
<1>2. CASE Unaffected
  BY <1>2, CreatedKeepsIInv
<1>3. QED
  BY <1>1, <1>2, NextOrCreated DEF IInv

\* In every behaviour of the restore the invariant holds: records and copies name what their
\* progress needs, EC2 knows what they name, and what is marked as copied is whole.
THEOREM Invariance == Spec => []IInv
BY InitIInv, NextIInv, PTL DEF Spec

\* Variables keep their types, for any number of volumes and events.
THEOREM TypeCorrectness == Spec => []TypeOK
<1>1. IInv => TypeOK
  BY DEF IInv
<1>2. QED
  BY <1>1, Invariance, PTL

\* A restore that starts again finds what its record says it has
\* (AWSRestoreVolumeStrategyTaskExecutor:302-326).
THEOREM RestoresUseWhatExists == Spec => []UsesWhatExists
<1>1. IInv => UsesWhatExists
  <2> SUFFICES ASSUME IInv
               PROVE  UsesWhatExists
    OBVIOUS
  <2>1. /\ rec.progress \in {"WAITING_TEMP_VOLUME", "ATTACHING_VOLUME", "CREATING_SNAPSHOT",
                             "WAITING_SNAPSHOT"} => rec.volume # NoId
        /\ rec.progress = "WAITING_SNAPSHOT" => rec.snapshot # NoId
    BY DEF IInv, RecordsOK, HasIds, Present
  <2>2. pc = "createSnapshot" => Exists(ent.volume)
    BY DEF IInv, VolumeOK, Reading
  <2>3. pc = "moveToTargetZone" => HasSnapshot
    BY DEF IInv, SnapshotOK, Present, HasSnapshot
  <2>4. QED
    BY <2>1, <2>2, <2>3 DEF UsesWhatExists
<1>2. QED
  BY <1>1, Invariance, PTL

\* Whatever fails, is canceled or is cut short, but for a rollback, no volume is handed over with
\* a part of the backup on it.
THEOREM HandedOverIsWhole == Spec => []RestoredIsWhole
<1>1. IInv => RestoredIsWhole
  BY DEF IInv, WholeOK, RestoredIsWhole
<1>2. QED
  BY <1>1, Invariance, PTL

-----------------------------------------------------------------------------
(* The delete task                                                         *)

\* Unless a call failed, the parts of the backup go in their order, and those that are gone are
\* gone when the task starts over.
DeletionOK ==
  events["failure"] = 0 =>
    /\ ~backup.snapshotEntry => ~backup.snapshot
    /\ deletion \in {"snapshot", "snapshotEntry", "entry"} => ~backup.file
    /\ deletion = "snapshotEntry" => ~backup.snapshot
    /\ deletion = "entry" => ~backup.snapshotEntry
    /\ ~backup.listed => ~backup.file /\ ~backup.snapshotEntry
    /\ deletion = "complete" => ~backup.listed

\* Every step keeps it.
LEMMA NextDeletionOK == TypeOK /\ DeletionOK /\ [RestoreNext]_vars => DeletionOK'
<1> SUFFICES ASSUME TypeOK, DeletionOK, [RestoreNext]_vars, events'["failure"] = 0
             PROVE  DeletionOK'
  BY DEF DeletionOK
<1>1. UNCHANGED <<backup, deletion>> \/ deleteBackup \/ Delete \/ restart
  <2>1. CASE submit \/ setProgress \/ notInterrupted \/ cancel \/ UNCHANGED vars
    BY <2>1 DEF submit, setProgress, notInterrupted, Moves, cancel, others, vars
  <2>2. CASE ThrowingSteps
    BY <2>2, ThrowShape DEF ThrowsAway
  <2>3. CASE updateCanceledTasks \/ destroy
    BY <2>3 DEF updateCanceledTasks, destroy, others
  <2>4. CASE FirstSteps
    BY <2>4 DEF FirstSteps, resumeCleaning, begin, snapshotExists, isCanceled, createFromSnapshot,
       nameFromSnapshot, deleteCanceled, lookup, useBackupEntry, Moves, others
  <2>5. CASE CopySteps \/ LastSteps
    BY <2>5 DEF CopySteps, createVolume, saveVolumeId, waitForVolume, attachVolume, startCopy,
       copy, LastSteps, detachVolume, compareZones, nameTempVolume, createSnapshot, saveSnapshotId,
       moveToTargetZone, nameRestored, deleteVolume, deleteSnapshot, completeTask, Moves, others
  <2>6. CASE RollbackSteps
    BY <2>6 DEF RollbackSteps, resumeDetach, resumeDelete, cleanSnapshot, cleanVolume,
       afterCleaning, Moves, others
  <2>7. QED
    BY <2>1, <2>2, <2>3, <2>4, <2>5, <2>6, NextSteps
<1>2. events["failure"] = 0 /\ ~Happens("failure")
  <2>1. events["failure"] \in Nat
    BY DEF TypeOK, Kinds
  <2>2. \A k \in Kinds : Happens(k) => events'["failure"] >= events["failure"]
    BY <2>1 DEF Happens, TypeOK, Kinds
  <2>3. ~Happens("failure")
    BY <2>1 DEF Happens, TypeOK, Kinds
  <2>4. QED
    BY <2>1, <2>2, <2>3, NextEvents
<1>3. backup \in [file : BOOLEAN, listed : BOOLEAN, snapshotEntry : BOOLEAN, snapshot : BOOLEAN]
  BY DEF TypeOK
<1>4. CASE UNCHANGED <<backup, deletion>>
  BY <1>2, <1>4 DEF DeletionOK
<1>5. CASE deleteBackup \/ restart
  BY <1>2, <1>5 DEF DeletionOK, deleteBackup, restart
<1>6. CASE deleteTask
  BY <1>2, <1>6 DEF DeletionOK, deleteTask, restoreOnly
<1>7. CASE deleteFile \/ deleteKeptSnapshot \/ deleteSnapshotEntry \/ deleteEntry
  BY <1>2, <1>3, <1>7 DEF DeletionOK, deleteFile, deleteKeptSnapshot, deleteSnapshotEntry,
     deleteEntry, DeletePart
<1>8. QED
  BY <1>1, <1>4, <1>5, <1>6, <1>7 DEF Delete

\* A delete task that finishes has left nothing of the backup, however often it was cut short
\* and started over, unless a call failed (AWSDeleteTaskExecutor:52-69).
THEOREM DeletionIsWhole == Spec => []DeletedIsGone
<1>1. Init => DeletionOK
  BY DEF Init, DeletionOK
<1>2. TypeOK /\ DeletionOK => DeletedIsGone
  <2> SUFFICES ASSUME TypeOK, DeletionOK, deletion = "complete", events["failure"] = 0
               PROVE  backup = [file |-> FALSE, listed |-> FALSE, snapshotEntry |-> FALSE,
                                snapshot |-> FALSE]
    BY DEF DeletedIsGone
  <2>1. ~backup.file /\ ~backup.listed /\ ~backup.snapshotEntry /\ ~backup.snapshot
    BY DEF DeletionOK
  <2>2. QED
    BY <2>1 DEF TypeOK
<1>3. TypeOK /\ DeletionOK /\ [Next]_vars => DeletionOK'
  BY NextDeletionOK, NextOrCreated DEF Unaffected, DeletionOK
<1>4. QED
  BY <1>1, <1>2, <1>3, TypeCorrectness, PTL DEF Spec

-----------------------------------------------------------------------------
(* What a restore that says it is complete has left                        *)

\* Progress that is saved when the restored volume has its name, in another zone.
Last == {"DELETING_TEMP_VOLUME", "DELETING_TEMP_SNAPSHOT"}

LastPlaces == {"deletingTempVolume", "deleteVolume", "deletingTempSnapshot", "deleteSnapshot"}

\* The thread is at the end, or the record will lead there.
AtEnd ==
  \/ pc \in LastPlaces
  \/ (pc # "idle" \/ rec.status \in Live) /\ ent.progress \in Last /\ ~RollsBack

\* A volume has been handed over, and it is not the temporary one.
Handed == \E v \in restored : Exists(v) /\ v # ent.volume

\* A volume has been handed over, or a restore from a snapshot was canceled.
Finished ==
  \/ \E v \in restored : Exists(v)
  \/ events["cancel"] > 0 /\ ~request.fromFile

\* Only an idle task is complete.
StatusOK == rec.status = "complete" \/ ent.status = "complete" => pc = "idle"

\* Cancels are users', and snapshots are for restores from snapshots.
CancelOK ==
  /\ canceled \/ rec.status = "canceled" \/ ent.status = "canceled" \/ pc = "deleteCanceled"
       => events["cancel"] > 0
  /\ pc \in SnapshotPath => ~request.fromFile

\* A restore that has saved DONE and may still run has no temporary volume, so the zones
\* are compared only with progress the table knows.
ZonesOK ==
  /\ (pc # "idle" \/ rec.status \in Live) /\ ent.progress = "DONE" => ent.volume = NoId
  /\ pc = "compareZones" /\ tempVolume # NoId => ent.progress \in DOMAIN ZoneSteps

\* What is deleted at the end is not what was handed over.
HandedOK ==
  ~rollbackCut =>
    /\ pc \in {"nameFromSnapshot", "nameRestored"}
         => Exists(volumeToRestore) /\ volumeToRestore # ent.volume
    /\ AtEnd => Handed
    /\ pc \in {"done", "completeTask"} \/ rec.status = "complete" => Finished

DoneInv == IInv /\ StatusOK /\ CancelOK /\ ZonesOK /\ HandedOK

\* What a save makes of the statuses.
LEMMA NextStatuses ==
  ASSUME IInv, [RestoreNext]_vars
  PROVE  /\ rec'.status \in {rec.status, ent.status, "waiting", "running", "canceled",
                             "partially_finished", "error", "absent"} \/ completeTask
         /\ ent'.status \in {rec.status, ent.status, "waiting", "running",
                             "partially_finished", "error", "absent"} \/ completeTask
         /\ rec'.status = "canceled" \/ ent'.status = "canceled"
              => rec.status = "canceled" \/ ent.status = "canceled" \/ cancel
<1> USE DEF WithStatus, WithProgress, Entry, Save, NoRecord
<1>1. CASE submit \/ begin \/ setProgress \/ saveVolumeId \/ createSnapshot \/ saveSnapshotId
  BY <1>1 DEF submit, begin, setProgress, saveVolumeId, createSnapshot, saveSnapshotId
<1>2. CASE completeTask \/ deleteCanceled \/ afterCleaning \/ cancel \/ restart
  BY <1>2 DEF completeTask, deleteCanceled, afterCleaning, cancel, restart
<1>3. QED
  BY <1>1, <1>2, NextFrame DEF Frame, IInv

\* Only the dispatcher wakes an idle thread.
LEMMA IdleStays ==
  ASSUME IInv, [RestoreNext]_vars, pc = "idle"
  PROVE  pc' = "idle" \/ submit
<1>1. CASE setProgress \/ notInterrupted
  BY <1>1, ProgressNames, CheckNames DEF setProgress, notInterrupted, Moves, Checks
<1>2. CASE ThrowingSteps
  BY <1>2, ThrowShape, CheckNames DEF ThrowsAway, Checks, CallsToAws
<1>3. CASE FirstSteps \/ CopySteps
  BY <1>3 DEF FirstSteps, resumeCleaning, begin, snapshotExists, isCanceled, createFromSnapshot,
     nameFromSnapshot, deleteCanceled, lookup, useBackupEntry, CopySteps, createVolume,
     saveVolumeId, waitForVolume, attachVolume, startCopy, copy, Moves
<1>4. CASE LastSteps \/ RollbackSteps
  BY <1>4 DEF LastSteps, detachVolume, compareZones, nameTempVolume, createSnapshot,
     saveSnapshotId, moveToTargetZone, nameRestored, deleteVolume, deleteSnapshot, completeTask,
     RollbackSteps, resumeDetach, resumeDelete, cleanSnapshot, cleanVolume, afterCleaning, Moves
<1>5. CASE \/ updateCanceledTasks \/ destroy \/ deleteBackup \/ Delete \/ cancel \/ restart
           \/ UNCHANGED vars
  BY <1>5, OthersShape DEF OthersStep, IInv, cancel, restart, vars
<1>6. QED
  BY <1>1, <1>2, <1>3, <1>4, <1>5, NextSteps

\* Only an idle task is complete, after every step.
LEMMA NextStatusOK == DoneInv /\ [RestoreNext]_vars => StatusOK'
<1> SUFFICES ASSUME DoneInv, [RestoreNext]_vars
             PROVE  StatusOK'
  OBVIOUS
<1>0. IInv /\ StatusOK
  BY DEF DoneInv
<1>1. CASE completeTask \/ submit
  BY <1>1 DEF StatusOK, completeTask, submit, Save, WithStatus, Entry
<1>2. CASE ~completeTask /\ ~submit
  BY <1>0, <1>2, NextStatuses, IdleStays DEF StatusOK
<1>3. QED
  BY <1>1, <1>2

\* Cancels are counted.
LEMMA CancelsStay ==
  ASSUME IInv, [RestoreNext]_vars
  PROVE  /\ events["cancel"] > 0 => events'["cancel"] > 0
         /\ cancel => events'["cancel"] > 0
<1>1. events \in [Kinds -> Nat] /\ "cancel" \in Kinds
  BY DEF IInv, TypeOK, Kinds
<1>2. \A k \in Kinds : Happens(k) => /\ events["cancel"] > 0 => events'["cancel"] > 0
                                     /\ k = "cancel" => events'["cancel"] > 0
  BY <1>1 DEF Happens
<1>3. QED
  BY <1>2, NextEvents DEF IInv, cancel, Kinds

\* Cancels and snapshots stay what they are.
LEMMA NextCancelOK == DoneInv /\ [RestoreNext]_vars => CancelOK'
<1> SUFFICES ASSUME DoneInv, [RestoreNext]_vars
             PROVE  CancelOK'
  OBVIOUS
<1>0. IInv /\ CancelOK
  BY DEF DoneInv
<1>1. UNCHANGED request
  BY <1>0, NextFrame DEF Frame, IInv
<1>2. /\ canceled' => canceled \/ cancel \/ rec.status = "canceled"
      /\ pc' = "deleteCanceled" => pc = "deleteCanceled" \/ canceled
      /\ pc' \in SnapshotPath => pc \in SnapshotPath \/ (begin /\ ~request.fromFile)
  <2> USE DEF SnapshotPath
  <2>1. CASE submit \/ restart \/ cancel \/ UNCHANGED vars
    BY <2>1 DEF submit, restart, cancel, vars
  <2>2. CASE setProgress
    <3> PICK s \in DOMAIN ProgressSteps : pc = s /\ pc' = ProgressSteps[s][2]
      BY <2>2 DEF setProgress
    <3>1. pc' \notin SnapshotPath
      BY ProgressNames DEF ProgressSteps
    <3>2. QED
      BY <2>2, <3>1 DEF setProgress
  <2>3. CASE notInterrupted
    <3> PICK c \in Checks : pc = c /\ pc' = CheckSteps[c] /\ canceled' = canceled
      BY <2>3 DEF notInterrupted, Moves
    <3>1. QED
      BY CheckNames DEF Checks, CheckSteps
  <2>4. CASE ThrowingSteps
    <3>1. pc' \notin SnapshotPath
      BY <2>4, ThrowShape DEF ThrowsAway
    <3>2. canceled' => canceled
      BY <2>4 DEF ThrowingSteps, callFails, isInterrupted, isCanceled, noSnapshot, snapshotIsGone,
         lookupFails, noBackupEntry, fileIsGone, cannotDetach, noTempVolume, cannotNameTempVolume,
         cannotNameRestored, cannotDeleteVolume, CannotGoOn
    <3>3. QED
      BY <3>1, <3>2
  <2>5. CASE updateCanceledTasks
    <3>1. pc' = pc /\ (canceled' <=> rec.status = "canceled")
      BY <2>5 DEF updateCanceledTasks
    <3>2. QED
      BY <2>5, <3>1
  <2>6. CASE destroy \/ deleteBackup \/ Delete
    BY <2>6 DEF destroy, deleteBackup, Delete, deleteTask, deleteFile, deleteKeptSnapshot,
       deleteSnapshotEntry, deleteEntry, DeletePart, restoreOnly
  <2>7. CASE FirstSteps
    BY <2>7 DEF FirstSteps, resumeCleaning, begin, snapshotExists, isCanceled, createFromSnapshot,
       nameFromSnapshot, deleteCanceled, lookup, firstStep, useBackupEntry, Moves
  <2>8. CASE CopySteps \/ RollbackSteps
    BY <2>8 DEF CopySteps, createVolume, saveVolumeId, waitForVolume, attachVolume, startCopy,
       copy, RollbackSteps, resumeDetach, resumeDelete, cleanSnapshot, cleanVolume,
       afterCleaning, Moves
  <2>9. CASE LastSteps
    <3>1. CASE compareZones
      BY <3>1 DEF compareZones, Moves, ZoneSteps
    <3>2. QED
      BY <2>9, <3>1 DEF LastSteps, detachVolume, nameTempVolume, createSnapshot, saveSnapshotId,
         moveToTargetZone, nameRestored, deleteVolume, deleteSnapshot, completeTask, Moves
  <2>10. QED
    BY <2>1, <2>2, <2>3, <2>4, <2>5, <2>6, <2>7, <2>8, <2>9, NextSteps
<1>3. QED
  BY <1>0, <1>1, <1>2, NextStatuses, CancelsStay DEF CancelOK

\* What the table of the zones knows.
LEMMA ZoneNames ==
  DOMAIN ZoneSteps = {"DETACHING_TEMP_VOLUME", "CREATING_SNAPSHOT", "WAITING_SNAPSHOT",
                      "DELETING_TEMP_VOLUME", "DELETING_TEMP_SNAPSHOT"}
BY DEF ZoneSteps

\* A record that the thread may go on from has the progress of its copy.
LEMMA LiveProgress ==
  ASSUME IInv, rec.status \in Live
  PROVE  rec # NoRecord /\ rec.progress = ent.progress /\ rec.volume = ent.volume
BY DEF IInv, RecordsOK, Live, NoRecord, Entry

\* Where the thread or the record was when a progress that stays had been saved.
LEMMA WasLive ==
  ASSUME IInv, [RestoreNext]_vars, pc' # "idle" \/ rec'.status \in Live, ~afterCleaning, ~completeTask
  PROVE  /\ pc # "idle" \/ rec.status \in Live
         /\ \/ setProgress
            \/ ent'.progress = ent.progress
<1> USE DEF WithStatus, WithProgress, Entry, Save, Live
<1>1. CASE submit
  BY <1>1, LiveProgress DEF submit
<1>2. CASE restart
  <2>1. rec.status \in Live /\ ent' = rec' /\ rec'.progress = rec.progress
    BY <1>2 DEF restart
  <2>2. QED
    BY <2>1, LiveProgress
<1>3. CASE \/ begin \/ setProgress \/ saveVolumeId \/ createSnapshot \/ saveSnapshotId
           \/ deleteCanceled
           \/ cancel
  <2>1. pc # "idle" \/ rec.status \in Live
    BY <1>3, ProgressNames DEF begin, setProgress, saveVolumeId, createSnapshot, saveSnapshotId,
       deleteCanceled, cancel
  <2>2. setProgress \/ ent'.progress = ent.progress
    BY <1>3 DEF begin, saveVolumeId, createSnapshot, saveSnapshotId, deleteCanceled, cancel
  <2>3. QED
    BY <2>1, <2>2
<1>4. CASE UNCHANGED <<rec, ent>> /\ ~submit
  BY <1>4, IdleStays
<1>5. QED
  BY <1>1, <1>2, <1>3, <1>4, NextFrame DEF Frame, IInv

\* Where the comparison of the zones comes from.
LEMMA ComparesZones ==
  ASSUME IInv, [RestoreNext]_vars, pc' = "compareZones"
  PROVE  \/ UNCHANGED <<pc, ent, tempVolume>>
         \/ lookup \/ detachVolume
         \/ setProgress /\ ent'.progress = "WAITING_SNAPSHOT"
<1>1. CASE setProgress
  <2> PICK s \in DOMAIN ProgressSteps :
         pc' = ProgressSteps[s][2] /\ ent' = WithProgress(ent, ProgressSteps[s][1])
    BY <1>1 DEF setProgress, Save
  <2>1. s = "resumeWaiting"
    BY ProgressNames DEF ProgressSteps
  <2>2. QED
    BY <1>1, <2>1 DEF ProgressSteps, WithProgress, Entry
<1>2. CASE notInterrupted
  <2> PICK c \in Checks : pc' = CheckSteps[c]
    BY <1>2 DEF notInterrupted, Moves
  <2>1. QED
    BY CheckNames DEF Checks, CheckSteps
<1>3. CASE submit \/ restart \/ ThrowingSteps
  BY <1>3, ThrowShape DEF submit, restart, ThrowsAway
<1>4. CASE FirstSteps
  BY <1>4 DEF FirstSteps, resumeCleaning, begin, snapshotExists, isCanceled, createFromSnapshot,
     nameFromSnapshot, deleteCanceled, useBackupEntry, Moves
<1>5. CASE CopySteps \/ RollbackSteps
  BY <1>5 DEF CopySteps, createVolume, saveVolumeId, waitForVolume, attachVolume, startCopy, copy,
     RollbackSteps, resumeDetach, resumeDelete, cleanSnapshot, cleanVolume, afterCleaning, Moves
<1>6. CASE LastSteps
  <2>1. CASE compareZones
    BY <2>1 DEF compareZones, Moves, ZoneSteps
  <2>2. QED
    BY <1>6, <2>1 DEF LastSteps, nameTempVolume, createSnapshot, saveSnapshotId, moveToTargetZone,
       nameRestored, deleteVolume, deleteSnapshot, completeTask, Moves
<1>7. CASE cancel \/ updateCanceledTasks \/ destroy \/ deleteBackup \/ Delete \/ UNCHANGED vars
  BY <1>7, OthersShape DEF cancel, OthersStep, Stay, vars, IInv, thread
<1>8. QED
  BY <1>1, <1>2, <1>3, <1>4, <1>5, <1>6, <1>7, NextSteps

\* The zones are compared with progress the table knows.
LEMMA NextZonesOK == DoneInv /\ [RestoreNext]_vars => ZonesOK'
<1> SUFFICES ASSUME DoneInv, [RestoreNext]_vars
             PROVE  ZonesOK'
  OBVIOUS
<1>0. /\ IInv /\ ZonesOK /\ ProgressOK /\ PathOK /\ ent.progress \in Progresses
  BY TypeParts DEF DoneInv, IInv, ControlTypes, Entries
<1>1. ASSUME pc' # "idle" \/ rec'.status \in Live, ent'.progress = "DONE"
      PROVE  ent'.volume = NoId
  <2>1. CASE completeTask \/ afterCleaning
    <3>1. pc' = "idle" /\ rec'.status \in {"complete", "error", "absent"}
      BY <2>1 DEF completeTask, afterCleaning, Save, WithStatus, NoRecord, Entry
    <3>2. QED
      BY <1>1, <3>1 DEF Live
  <2>2. CASE setProgress
    <3> PICK s \in DOMAIN ProgressSteps :
           /\ pc = s /\ ent' = WithProgress(ent, ProgressSteps[s][1])
      BY <2>2 DEF setProgress, Save
    <3>1. s = "done" /\ ent'.volume = ent.volume
      BY <1>1, ProgressNames DEF ProgressSteps, WithProgress, Entry
    <3>2. QED
      BY <1>0, <3>1 DEF PathOK, SnapshotPath
  <2>3. CASE ~completeTask /\ ~afterCleaning /\ ~setProgress
    <3>1. ent.progress = "DONE" /\ ent.volume = NoId
      BY <1>0, <1>1, <2>3, WasLive DEF ZonesOK
    <3>2. ~saveVolumeId
      BY <1>0, <3>1 DEF saveVolumeId, ProgressOK
    <3>3. QED
      BY <1>0, <3>1, <3>2, NamedVolume
  <2>4. QED
    BY <2>1, <2>2, <2>3
<1>2. ASSUME pc' = "compareZones", tempVolume' # NoId
      PROVE  ent'.progress \in DOMAIN ZoneSteps
  <2>1. CASE UNCHANGED <<pc, ent, tempVolume>>
    BY <1>0, <1>2, <2>1 DEF ZonesOK
  <2>2. CASE detachVolume
    BY <1>0, <2>2, ZoneNames DEF detachVolume, Moves, ProgressOK
  <2>3. CASE setProgress /\ ent'.progress = "WAITING_SNAPSHOT"
    BY <2>3, ZoneNames
  <2>4. CASE lookup
    <3>1. pc = "lookup" /\ ent' = ent /\ tempVolume' = IF Exists(ent.volume) THEN ent.volume ELSE NoId
      BY <2>4 DEF lookup
    <3>2. ent.progress \notin {"NONE", "STARTED"} \union RedoneProgresses
      BY <1>2, <2>4 DEF lookup, firstStep, RedoneProgresses
    <3>3. ent.volume # NoId
      BY <1>2, <3>1 DEF Exists
    <3>4. ent.progress # "DONE"
      BY <1>0, <3>1, <3>3 DEF ZonesOK
    <3>5. QED
      BY <1>0, <3>1, <3>2, <3>4, ProgressValues, ZoneNames DEF ProgressOK, Cleanings,
         RedoneProgresses
  <2>5. QED
    BY <1>0, <1>2, <2>1, <2>2, <2>3, <2>4, ComparesZones
<1>3. QED
  BY <1>1, <1>2 DEF ZonesOK

\* A rollback goes on, unless the process ends.
LEMMA RollbackStays ==
  ASSUME IInv, [RestoreNext]_vars, RollsBack, ~afterCleaning, ~setProgress
  PROVE  RollsBack' \/ rollbackCut'
<1> USE DEF RollsBack
<1>1. CASE restart
  BY <1>1 DEF restart
<1>2. CASE RollbackSteps
  BY <1>2 DEF RollbackSteps, resumeDetach, resumeDelete, cleanSnapshot, cleanVolume, IInv,
     ProgressOK, Moves
<1>3. CASE notInterrupted \/ ThrowingSteps
  BY <1>3, ThrowShape, CheckNames DEF notInterrupted, Moves, ThrowsAway, Checks, CallsToAws
<1>4. CASE submit \/ FirstSteps \/ CopySteps \/ LastSteps
  BY <1>4 DEF submit, FirstSteps, resumeCleaning, begin, snapshotExists, isCanceled,
     createFromSnapshot, nameFromSnapshot, deleteCanceled, lookup, useBackupEntry, CopySteps,
     createVolume, saveVolumeId, waitForVolume, attachVolume, startCopy, copy, LastSteps,
     detachVolume, compareZones, nameTempVolume, createSnapshot, saveSnapshotId,
     moveToTargetZone, nameRestored, deleteVolume, deleteSnapshot, completeTask, Moves
<1>5. CASE cancel \/ updateCanceledTasks \/ destroy \/ deleteBackup \/ Delete \/ UNCHANGED vars
  BY <1>5, OthersShape DEF cancel, OthersStep, Stay, vars, IInv
<1>6. QED
  BY <1>1, <1>2, <1>3, <1>4, <1>5, NextSteps

\* Where the last places, and those where a restore is finished, come from.
LEMMA EndPlaces ==
  ASSUME IInv, [RestoreNext]_vars
  PROVE  /\ pc' \in LastPlaces
              => \/ nameRestored
                 \/ pc \in LastPlaces /\ ent'.volume = ent.volume
                 \/ compareZones /\ ent.progress \in Last
         /\ pc' \in {"done", "completeTask"}
              => \/ nameFromSnapshot \/ deleteCanceled \/ nameTempVolume \/ deleteSnapshot
                 \/ pc \in {"done", "completeTask"} /\ UNCHANGED volumes
                 \/ compareZones /\ ent.progress \notin DOMAIN ZoneSteps
<1> USE DEF LastPlaces
<1>1. CASE setProgress
  <2> PICK s \in DOMAIN ProgressSteps :
         pc = s /\ pc' = ProgressSteps[s][2] /\ ent' = WithProgress(ent, ProgressSteps[s][1])
    BY <1>1 DEF setProgress, Save
  <2>1. /\ pc' \in LastPlaces => s \in LastPlaces
        /\ pc' \in {"done", "completeTask"} => s = "done"
    BY ProgressNames DEF ProgressSteps
  <2>2. ent'.volume = ent.volume /\ UNCHANGED volumes
    BY <1>1 DEF setProgress, WithProgress, Entry, cloud
  <2>3. QED
    BY <2>1, <2>2
<1>2. CASE notInterrupted
  <2> PICK c \in Checks : pc' = CheckSteps[c]
    BY <1>2 DEF notInterrupted, Moves
  <2>1. QED
    BY CheckNames DEF Checks, CheckSteps
<1>3. CASE submit \/ restart \/ ThrowingSteps
  BY <1>3, ThrowShape DEF submit, restart, ThrowsAway
<1>4. CASE FirstSteps
  BY <1>4 DEF FirstSteps, resumeCleaning, begin, snapshotExists, isCanceled, createFromSnapshot,
     nameFromSnapshot, deleteCanceled, lookup, firstStep, useBackupEntry, Moves
<1>5. CASE CopySteps \/ RollbackSteps
  BY <1>5 DEF CopySteps, createVolume, saveVolumeId, waitForVolume, attachVolume, startCopy, copy,
     RollbackSteps, resumeDetach, resumeDelete, cleanSnapshot, cleanVolume, afterCleaning, Moves
<1>6. CASE LastSteps
  <2>1. CASE compareZones
    <3>1. \/ pc' = "nameTempVolume"
          \/ pc' = "completeTask" /\ ent.progress \notin DOMAIN ZoneSteps
          \/ ent.progress \in DOMAIN ZoneSteps /\ pc' = ZoneSteps[ent.progress]
      BY <2>1 DEF compareZones, Moves
    <3>2. ent.progress \in DOMAIN ZoneSteps /\ pc' = ZoneSteps[ent.progress]
            => pc' # "completeTask" /\ pc' # "done" /\ (pc' \in LastPlaces => ent.progress \in Last)
      BY ZoneNames DEF ZoneSteps, Last
    <3>3. QED
      BY <2>1, <3>1, <3>2
  <2>2. QED
    BY <1>6, <2>1 DEF LastSteps, detachVolume, nameTempVolume, createSnapshot, saveSnapshotId,
       moveToTargetZone, nameRestored, deleteVolume, deleteSnapshot, completeTask, Moves
<1>7. CASE cancel \/ updateCanceledTasks \/ destroy \/ deleteBackup \/ Delete \/ UNCHANGED vars
  BY <1>7, OthersShape DEF cancel, OthersStep, Stay, vars, IInv, thread, cloud
<1>8. QED
  BY <1>1, <1>2, <1>3, <1>4, <1>5, <1>6, <1>7, NextSteps

\* Only nameRestored leads to the end.
LEMMA EndStays ==
  ASSUME DoneInv, [RestoreNext]_vars, AtEnd', ~rollbackCut', ~nameRestored
  PROVE  AtEnd /\ ent'.volume \in {ent.volume, NoId}
<1>0. IInv
  BY DEF DoneInv
<1>1. CASE pc' \in LastPlaces
  <2>1. CASE compareZones /\ ent.progress \in Last
    BY <2>1 DEF compareZones, Moves, AtEnd, RollsBack
  <2>2. CASE pc \in LastPlaces /\ ent'.volume = ent.volume
    BY <2>2 DEF AtEnd
  <2>3. QED
    BY <1>0, <1>1, <2>1, <2>2, EndPlaces
<1>2. CASE pc' \notin LastPlaces
  <2>1. (pc' # "idle" \/ rec'.status \in Live) /\ ent'.progress \in Last /\ ~RollsBack'
    BY <1>2 DEF AtEnd
  <2>2. ~afterCleaning /\ ~completeTask
    BY <2>1 DEF afterCleaning, completeTask, Save, WithStatus, NoRecord, Entry, Live, Last
  <2>3. CASE setProgress
    <3> PICK s \in DOMAIN ProgressSteps :
           /\ pc = s /\ pc' = ProgressSteps[s][2]
           /\ ent' = WithProgress(ent, ProgressSteps[s][1])
      BY <2>3 DEF setProgress, Save
    <3>1. ent'.progress = ProgressSteps[s][1] /\ ent'.volume = ent.volume
      BY DEF WithProgress, Entry
    <3>2. s \in {"deletingTempVolume", "deletingTempSnapshot"}
      BY <2>1, <3>1, ProgressNames DEF ProgressSteps, Last, RollsBack
    <3>3. QED
      BY <3>1, <3>2 DEF AtEnd, LastPlaces
  <2>4. CASE ~setProgress
    <3>1. (pc # "idle" \/ rec.status \in Live) /\ ent.progress \in Last
      BY <1>0, <2>1, <2>2, <2>4, WasLive
    <3>2. ~RollsBack
      BY <1>0, <2>1, <2>2, <2>4, RollbackStays
    <3>3. ~saveVolumeId
      BY <1>0, <3>1 DEF saveVolumeId, IInv, ProgressOK, Last
    <3>4. QED
      BY <1>0, <3>1, <3>2, <3>3, NamedVolume DEF AtEnd
  <2>5. QED
    BY <2>3, <2>4
<1>3. QED
  BY <1>1, <1>2

\* A restore deletes no volume but the temporary one.
LEMMA OthersExist ==
  ASSUME IInv, [RestoreNext]_vars, NEW v \in VolumeIds, Exists(v),
         v # ent.volume \/ (~deleteVolume /\ ~resumeDelete /\ ~cleanVolume)
  PROVE  Exists(v)'
<1>1. CASE deleteVolume \/ resumeDelete \/ cleanVolume
  BY <1>1 DEF deleteVolume, resumeDelete, cleanVolume, DeleteVolumeOrSkip, SetState, Exists,
     IInv, TypeOK
<1>2. CASE ~deleteVolume /\ ~resumeDelete /\ ~cleanVolume
  BY <1>2, VolumesStay DEF Exists
<1>3. QED
  BY <1>1, <1>2

\* What was handed over is still there.
LEMMA HandedStays ==
  ASSUME IInv, [RestoreNext]_vars
  PROVE  /\ restored \subseteq restored' /\ restored \subseteq VolumeIds
         /\ Handed /\ ent'.volume \in {ent.volume, NoId} => Handed'
         /\ Finished /\ ~deleteVolume /\ ~resumeDelete /\ ~cleanVolume => Finished'
<1>1. /\ restored \subseteq restored' /\ restored \subseteq VolumeIds
      /\ UNCHANGED request
  BY NextFrame DEF Frame, IInv, TypeOK, nameFromSnapshot, nameTempVolume, nameRestored
<1>2. ASSUME NEW v \in restored, Exists(v), v # ent.volume, ent'.volume \in {ent.volume, NoId}
      PROVE  Exists(v)' /\ v # ent'.volume
  BY <1>1, <1>2, OthersExist, NoIdAssumption
<1>3. ASSUME NEW v \in restored, Exists(v), ~deleteVolume, ~resumeDelete, ~cleanVolume
      PROVE  Exists(v)'
  BY <1>1, <1>3, OthersExist
<1>4. Handed /\ ent'.volume \in {ent.volume, NoId} => Handed'
  BY <1>1, <1>2 DEF Handed
<1>5. Finished /\ ~deleteVolume /\ ~resumeDelete /\ ~cleanVolume => Finished'
  BY <1>1, <1>3, CancelsStay DEF Finished
<1>6. QED
  BY <1>1, <1>4, <1>5

\* A volume that waits for its name is there, and is not the temporary one.
LEMMA WaitingIsThere ==
  ASSUME DoneInv, [RestoreNext]_vars, ~rollbackCut, pc' \in {"nameFromSnapshot", "nameRestored"}
  PROVE  Exists(volumeToRestore)' /\ volumeToRestore' # ent'.volume
<1>0. IInv
  BY DEF DoneInv
<1>1. CASE createFromSnapshot \/ moveToTargetZone
  <2>1. volumeToRestore' = FreshVolume /\ ent' = ent
    BY <1>1 DEF createFromSnapshot, moveToTargetZone
  <2>2. FreshVolume \in VolumeIds /\ FreshVolume # ent.volume
    BY <1>0, <1>1, Creations, NoIdAssumption DEF IInv, FreshOK, Known
  <2>3. volumes'[FreshVolume].state = "creating"
    BY <1>0, <1>1, Creations DEF IInv, TypeOK
  <2>4. QED
    BY <2>1, <2>2, <2>3, NoIdAssumption DEF Exists
<1>2. CASE ~createFromSnapshot /\ ~moveToTargetZone
  BY <1>0, <1>2, WaitingForName DEF DoneInv, HandedOK, Exists
<1>3. QED
  BY <1>1, <1>2

\* What is handed over at the end is there.
LEMMA EndHasHanded ==
  ASSUME DoneInv, [RestoreNext]_vars, ~rollbackCut, AtEnd', ~rollbackCut'
  PROVE  Handed'
<1>0. IInv /\ HandedOK
  BY DEF DoneInv
<1>1. CASE nameRestored
  <2>1. /\ pc = "nameRestored" /\ UNCHANGED <<ent, volumes, volumeToRestore>>
        /\ restored' = restored \union {volumeToRestore}
    BY <1>1 DEF nameRestored, Moves, thread
  <2>2. Exists(volumeToRestore) /\ volumeToRestore # ent.volume
    BY <1>0, <2>1 DEF HandedOK
  <2>3. QED
    BY <2>1, <2>2 DEF Handed, Exists
<1>2. CASE ~nameRestored
  BY <1>0, <1>2, EndStays, HandedStays DEF HandedOK
<1>3. QED
  BY <1>1, <1>2

\* A record that is complete was so, or becomes so at the end of execute.
LEMMA CompleteStays ==
  ASSUME DoneInv, [RestoreNext]_vars, rec'.status = "complete"
  PROVE  rec.status = "complete" \/ completeTask
<1> USE DEF WithStatus, WithProgress, Entry, Save, NoRecord
<1>1. pc # "idle" => ent.status # "complete"
  BY DEF DoneInv, StatusOK
<1>2. CASE begin \/ setProgress \/ saveVolumeId \/ createSnapshot \/ saveSnapshotId
  BY <1>1, <1>2, ProgressNames DEF begin, setProgress, saveVolumeId, createSnapshot, saveSnapshotId
<1>3. CASE submit \/ deleteCanceled \/ afterCleaning \/ cancel \/ restart
  BY <1>3 DEF submit, deleteCanceled, afterCleaning, cancel, restart
<1>4. QED
  BY <1>2, <1>3, NextFrame DEF Frame, DoneInv, IInv

\* A restore that is finished has handed a volume over.
LEMMA NextFinished ==
  ASSUME DoneInv, [RestoreNext]_vars, ~rollbackCut,
         pc' \in {"done", "completeTask"} \/ rec'.status = "complete"
  PROVE  Finished'
<1>0. IInv /\ HandedOK /\ CancelOK /\ ZonesOK /\ StatusOK
  BY DEF DoneInv
<1>1. CASE nameFromSnapshot \/ nameTempVolume
  <2>1. PICK v : Exists(v) /\ restored' = restored \union {v} /\ UNCHANGED volumes
    BY <1>0, <1>1 DEF HandedOK, nameFromSnapshot, nameTempVolume, Moves
  <2>2. QED
    BY <2>1 DEF Finished, Exists
<1>2. CASE deleteCanceled
  BY <1>0, <1>2 DEF deleteCanceled, CancelOK, SnapshotPath, Finished, others
<1>3. CASE deleteSnapshot
  <2>1. AtEnd
    BY <1>3 DEF deleteSnapshot, Moves, AtEnd, LastPlaces
  <2>2. Finished
    BY <1>0, <2>1 DEF HandedOK, Handed, Finished
  <2>3. ~deleteVolume /\ ~resumeDelete /\ ~cleanVolume
    BY <1>3 DEF deleteSnapshot, deleteVolume, resumeDelete, cleanVolume, Moves
  <2>4. QED
    BY <1>0, <2>2, <2>3, HandedStays
<1>4. CASE pc \in {"done", "completeTask"} \/ rec.status = "complete"
  <2>1. Finished
    BY <1>0, <1>4 DEF HandedOK
  <2>2. ~deleteVolume /\ ~resumeDelete /\ ~cleanVolume
    BY <1>0, <1>4 DEF deleteVolume, resumeDelete, cleanVolume, Moves, StatusOK
  <2>3. QED
    BY <1>0, <2>1, <2>2, HandedStays
<1>5. ~(compareZones /\ ent.progress \notin DOMAIN ZoneSteps)
  BY <1>0 DEF ZonesOK, compareZones, Moves
<1>6. CASE completeTask
  BY <1>4, <1>6 DEF completeTask
<1>7. QED
  BY <1>0, <1>1, <1>2, <1>3, <1>4, <1>5, <1>6, EndPlaces, CompleteStays

\* What was handed over stays handed over.
LEMMA NextHandedOK == DoneInv /\ [RestoreNext]_vars => HandedOK'
<1> SUFFICES ASSUME DoneInv, [RestoreNext]_vars, ~rollbackCut'
             PROVE  HandedOK'
  BY DEF HandedOK
<1>1. ~rollbackCut
  BY NextFrame DEF DoneInv, IInv, Frame, restart
<1>2. pc' \in {"nameFromSnapshot", "nameRestored"}
        => Exists(volumeToRestore)' /\ volumeToRestore' # ent'.volume
  BY <1>1, WaitingIsThere
<1>3. AtEnd' => Handed'
  BY <1>1, EndHasHanded
<1>4. pc' \in {"done", "completeTask"} \/ rec'.status = "complete" => Finished'
  BY <1>1, NextFinished
<1>5. QED
  BY <1>2, <1>3, <1>4 DEF HandedOK

\* A volume that comes up takes nothing away.
LEMMA CreatedKeepsDone ==
  ASSUME DoneInv, Unaffected, IInv'
  PROVE  DoneInv'
<1> USE DEF Unaffected, thread, DoneInv
<1>1. StatusOK' /\ CancelOK' /\ ZonesOK'
  BY DEF StatusOK, CancelOK, ZonesOK, ByFile
<1>2. restored \subseteq VolumeIds /\ volumeToRestore \in Ids
  BY DEF IInv, TypeOK
<1>3. /\ Handed => Handed'
      /\ Finished => Finished'
  BY <1>2 DEF Handed, Finished
<1>4. Exists(volumeToRestore)' <=> Exists(volumeToRestore)
  BY <1>2 DEF Ids, Exists
<1>5. HandedOK'
  <2>1. AtEnd' <=> AtEnd
    BY DEF AtEnd, RollsBack
  <2>2. QED
    BY <1>3, <1>4, <2>1 DEF HandedOK
<1>6. QED
  BY <1>1, <1>5

\* A restore that reads complete has left a volume with its name and the whole backup, whatever
\* fails, is deleted or is cut short, unless that was a rollback or a cancel of a restore from a
\* snapshot (AWSRestoreVolumeStrategyTaskExecutor:126-131).
THEOREM CompleteIsRestoredAlways == Spec => []CompleteIsRestored
<1>1. Init => DoneInv
  <2> SUFFICES ASSUME Init
               PROVE  DoneInv
    OBVIOUS
  <2>1. pc = "idle" /\ ~canceled /\ rec = ent /\ ent = Entry("queued", "NONE", NoId, NoId)
    BY DEF Init
  <2>2. QED
    BY <2>1, InitIInv DEF DoneInv, StatusOK, CancelOK, ZonesOK, HandedOK, AtEnd, LastPlaces,
       Last, Entry, SnapshotPath
<1>2. DoneInv /\ [Next]_vars => DoneInv'
  <2> SUFFICES ASSUME DoneInv, [Next]_vars
               PROVE  DoneInv'
    OBVIOUS
  <2>1. IInv'
    BY NextIInv DEF DoneInv
  <2>2. CASE [RestoreNext]_vars
    BY <2>1, <2>2, NextStatusOK, NextCancelOK, NextZonesOK, NextHandedOK DEF DoneInv
  <2>3. CASE Unaffected
    BY <2>1, <2>3, CreatedKeepsDone
  <2>4. QED
    BY <2>2, <2>3, NextOrCreated DEF DoneInv, IInv
<1>3. DoneInv => CompleteIsRestored
  <2> SUFFICES ASSUME DoneInv, rec.status = "complete", ~rollbackCut,
                      ~(events["cancel"] > 0 /\ ~request.fromFile)
               PROVE  \E v \in restored : Whole(v)
    BY DEF CompleteIsRestored
  <2>1. PICK v \in restored : Exists(v)
    BY DEF DoneInv, HandedOK, Finished
  <2>2. volumes[v].data = "whole"
    BY DEF DoneInv, IInv, WholeOK
  <2>3. QED
    BY <2>1, <2>2 DEF Whole
<1>4. QED
  BY <1>1, <1>2, <1>3, PTL DEF Spec

=============================================================================
