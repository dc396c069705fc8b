-------------------------- MODULE RestoreExecutor --------------------------
(***************************************************************************)
(* The steps of AWSRestoreVolumeStrategyTaskExecutor for ONE restore task  *)
(* on a single server, while the dispatcher may run                        *)
(* AWSDeleteTaskExecutor for the very backup it reads.  As in              *)
(* BackupExecutor every save of the record and every call that changes EC2 *)
(* is a step, the thread works on its own copy (ent) of the record, and    *)
(* after a crash starts again from what was saved (rec).                   *)
(***************************************************************************)
EXTENDS Integers, FiniteSets

CONSTANTS
  VolumeIds,     \* identifiers of EC2 volumes the restore may create
  SnapshotIds,   \* identifiers of its temporary snapshots
  NoId,          \* null
  MaxEvents      \* bound: crashes, shutdowns, cancels, failing calls and deletions together

ASSUME NoIdAssumption  == NoId \notin VolumeIds \union SnapshotIds
ASSUME EventsAssumption == MaxEvents \in Nat

VARIABLES
  request,   \* what was asked for: from the snapshot or a file, in which zone
  rec,       \* the record in the Tasks table
  ent,       \* the TaskEntry in the hands of the thread that executes it
  pc,        \* where that thread is in execute
  tempVolume, volumeToRestore,  \* local variables of the same names
  found,     \* the local variable backupEntry is not null
  exit,      \* why cleaningStep runs, once it does
  canceled,  \* the task is in TaskServiceImpl.canceledTasks
  volumes,   \* EC2: the state of each volume and what is on it
  snapshots, \* EC2: what is on each temporary snapshot
  restored,  \* volumes that were given the name of a restored volume
  backup,    \* its file, its BackupEntry, its SnapshotEntry and its EC2 snapshot
  deletion,  \* the delete task of the backup
  closing,   \* the context is closing: threads are interrupted
  events,    \* how many events of each kind there were
  rollbackCut \* history: the process ended while a rollback was under way

thread == <<tempVolume, volumeToRestore, found, exit>>
cloud  == <<volumes, snapshots, restored>>
others == <<request, backup, deletion, closing, rollbackCut>>
vars   == <<request, rec, ent, pc, thread, canceled, cloud, backup, deletion, closing, events,
            rollbackCut>>

Entry(status, progress, volume, snapshot) ==
  [status |-> status, progress |-> progress, volume |-> volume, snapshot |-> snapshot]

WithStatus(e, s)   == Entry(s, e.progress, e.volume, e.snapshot)
WithProgress(e, p) == Entry(e.status, p, e.volume, e.snapshot)

NoRecord == Entry("absent", "NONE", NoId, NoId)

Exists(v)     == v # NoId /\ volumes[v].state \in {"creating", "available", "attached"}
Attached(v)   == v # NoId /\ volumes[v].state = "attached"
Available(v)  == v # NoId /\ volumes[v].state = "available"

-----------------------------------------------------------------------------
(* execute as a table                                                      *)

\* Steps that begin with setProgress: what they save, and what comes next.
ProgressSteps ==
  [ started             |-> <<"STARTED", "checkStarted">>,
    creatingTempVolume  |-> <<"CREATING_TEMP_VOLUME", "useBackupEntry">>,
    waitingTempVolume   |-> <<"WAITING_TEMP_VOLUME", "waitForVolume">>,
    attachingVolume     |-> <<"ATTACHING_VOLUME", "attachVolume">>,
    detachingTempVolume |-> <<"DETACHING_TEMP_VOLUME", "checkDetaching">>,
    creatingSnapshot    |-> <<"CREATING_SNAPSHOT", "createSnapshot">>,
    waitingSnapshot     |-> <<"WAITING_SNAPSHOT", "checkMoving">>,
    deletingTempVolume  |-> <<"DELETING_TEMP_VOLUME", "deleteVolume">>,
    deletingTempSnapshot |-> <<"DELETING_TEMP_SNAPSHOT", "deleteSnapshot">>,
    resumeDetaching     |-> <<"DETACHING_TEMP_VOLUME", "resumeDetach">>,
    resumeDeleting      |-> <<"DELETING_TEMP_VOLUME", "resumeDelete">>,
    resumeWaiting       |-> <<"WAITING_SNAPSHOT", "compareZones">>,
    interruptedCleaning |-> <<"INTERRUPTED_CLEANING", "cleaningSnapshot">>,
    failCleaning        |-> <<"FAIL_CLEANING", "cleaningSnapshot">>,
    cleaningSnapshot    |-> <<"DELETING_TEMP_SNAPSHOT", "cleanSnapshot">>,
    cleaningVolume      |-> <<"DELETING_TEMP_VOLUME", "cleanVolume">>,
    done                |-> <<"DONE", "completeTask">> ]

\* Calls of checkThreadInterruption, and what comes next if it returns.
CheckSteps ==
  [ checkStarted   |-> "creatingTempVolume",
    checkCreating  |-> "createVolume",
    checkCreated   |-> "saveVolumeId",
    checkWaiting   |-> "waitingTempVolume",
    checkAttaching |-> "attachingVolume",
    checkAttached  |-> "startCopy",
    checkDetaching |-> "detachVolume",
    checkMoving    |-> "moveToTargetZone",
    checkSnapshot  |-> "createFromSnapshot" ]

OtherSteps ==
  {"idle", "begin", "lookup", "useBackupEntry", "createVolume", "saveVolumeId", "waitForVolume",
   "attachVolume", "startCopy", "copy", "detachVolume", "compareZones", "nameTempVolume",
   "createSnapshot", "saveSnapshotId", "moveToTargetZone", "nameRestored", "deleteVolume",
   "deleteSnapshot", "completeTask", "snapshotExists", "createFromSnapshot", "nameFromSnapshot",
   "deleteCanceled", "resumeDetach", "resumeDelete", "cleanSnapshot", "cleanVolume",
   "afterCleaning"}

Pcs == DOMAIN ProgressSteps \union DOMAIN CheckSteps \union OtherSteps

Statuses   == {"absent", "queued", "waiting", "running", "complete", "canceled",
               "partially_finished", "error"}
Progresses == {"NONE"} \union {ProgressSteps[s][1] : s \in DOMAIN ProgressSteps}
Kinds      == {"crash", "shutdown", "cancel", "failure", "deletion"}

\* Progress from which a resumed restore throws its temporary volume away.
RedoneProgresses == {"CREATING_TEMP_VOLUME", "WAITING_TEMP_VOLUME", "ATTACHING_VOLUME", "COPYING"}

\* Deviation: a resumed restore goes on with the volume it was writing to.
firstStepKeepingVolume(progress) ==
  CASE progress \in {"NONE", "STARTED", "CREATING_TEMP_VOLUME"} -> "started"
    [] progress \in RedoneProgresses \union {"DETACHING_TEMP_VOLUME"} -> "detachingTempVolume"
    [] progress = "CREATING_SNAPSHOT" /\ ent.snapshot # NoId -> "resumeWaiting"
    [] OTHER -> "compareZones"

\* Deviation: it waits for its snapshot without asking whether it has one.
firstStepWithoutId(progress) ==
  CASE progress \in {"NONE", "STARTED"} -> "started"
    [] progress \in RedoneProgresses -> "resumeDetaching"
    [] progress = "DETACHING_TEMP_VOLUME" -> "detachingTempVolume"
    [] progress = "CREATING_SNAPSHOT" -> "resumeWaiting"
    [] OTHER -> "compareZones"

\* Where restoreFromBackupFile goes, by the progress it resumes from.
firstStep(progress) ==
  CASE progress \in {"NONE", "STARTED"} -> "started"
    [] progress \in RedoneProgresses -> "resumeDetaching"
    [] progress = "DETACHING_TEMP_VOLUME" -> "detachingTempVolume"
    [] progress = "CREATING_SNAPSHOT" /\ ent.snapshot # NoId -> "resumeWaiting"
    [] OTHER -> "compareZones"

\* The cases of the switch for another zone; any other progress is done.
ZoneSteps ==
  [ DETACHING_TEMP_VOLUME |-> "creatingSnapshot", CREATING_SNAPSHOT |-> "creatingSnapshot",
    WAITING_SNAPSHOT |-> "waitingSnapshot", DELETING_TEMP_VOLUME |-> "deletingTempVolume",
    DELETING_TEMP_SNAPSHOT |-> "deletingTempSnapshot" ]

-----------------------------------------------------------------------------
\* A backup whose snapshot was kept, or was not.
Init ==
  /\ request \in [fromFile : BOOLEAN, sameZone : BOOLEAN]
  /\ rec = Entry("queued", "NONE", NoId, NoId)
  /\ ent = rec
  /\ pc = "idle" /\ tempVolume = NoId /\ volumeToRestore = NoId /\ found = FALSE
  /\ exit = "none"
  /\ canceled = FALSE
  /\ volumes   = [v \in VolumeIds |-> [state |-> "none", data |-> "blank"]]
  /\ snapshots = [s \in SnapshotIds |-> "none"]
  /\ restored = {}
  /\ \E kept \in BOOLEAN :
       backup = [file |-> TRUE, listed |-> TRUE, snapshotEntry |-> kept, snapshot |-> kept]
  /\ deletion = "none"
  /\ closing = FALSE
  /\ events = [k \in Kinds |-> 0]
  /\ rollbackCut = FALSE

-----------------------------------------------------------------------------
(* Building blocks                                                         *)

TotalEvents == events["crash"] + events["shutdown"] + events["cancel"] + events["failure"]
               + events["deletion"]

Happens(kind) ==
  /\ TotalEvents < MaxEvents
  /\ events' = [events EXCEPT ![kind] = @ + 1]

\* taskRepository.save(taskEntry)
Save(e) == ent' = e /\ rec' = e

\* A step of the thread that leaves its record and its locals alone.
Moves(here, there) ==
  /\ pc = here
  /\ pc' = there
  /\ UNCHANGED <<rec, ent, thread, canceled, others, events>>

Throws(why) ==
  /\ exit' = why
  /\ pc' = IF why = "failed" THEN "failCleaning" ELSE "interruptedCleaning"
  /\ UNCHANGED <<rec, ent, tempVolume, volumeToRestore, found, cloud, others>>

\* A step that finds a null, or EC2 in a state that makes it throw.
CannotGoOn(here, broken) ==
  /\ pc = here
  /\ broken
  /\ Throws("failed")
  /\ UNCHANGED <<canceled, events>>

\* EC2 hands out an identifier it has not used; which one does not matter.
FreshVolume   == CHOOSE v \in VolumeIds : volumes[v].state = "none"
FreshSnapshot == CHOOSE s \in SnapshotIds : snapshots[s] = "none"

\* EC2 answers with a volume that it has only begun to create.
NewVolume(data) ==
  /\ \E v \in VolumeIds : volumes[v].state = "none"
  /\ volumes' = [volumes EXCEPT ![FreshVolume] = [state |-> "creating", data |-> data]]

SetState(v, state) == volumes' = [volumes EXCEPT ![v].state = state]
SetData(v, data)   == volumes' = [volumes EXCEPT ![v].data = data]

-----------------------------------------------------------------------------
(* The dispatcher, and the beginning of execute                            *)

submit ==
  /\ pc = "idle"
  /\ ~closing
  /\ rec.status \in {"queued", "partially_finished"}
  /\ Save(WithStatus(rec, "waiting"))
  /\ pc' = "begin"
  /\ UNCHANGED <<thread, canceled, cloud, others, events>>

Cleanings == {"FAIL_CLEANING", "INTERRUPTED_CLEANING"}

\* A cleaning that was cut short begins again, and does not say it is running.
resumeCleaning ==
  /\ pc = "begin"
  /\ ent.progress \in Cleanings
  /\ exit' = IF ent.progress = "FAIL_CLEANING" THEN "failed" ELSE "closing"
  /\ pc' = IF ent.progress = "FAIL_CLEANING" THEN "failCleaning" ELSE "interruptedCleaning"
  /\ UNCHANGED <<rec, ent, tempVolume, volumeToRestore, found, canceled, cloud, others, events>>

begin ==
  /\ pc = "begin"
  /\ ent.progress \notin Cleanings
  /\ Save(WithStatus(ent, "running"))
  /\ pc' = IF backup.snapshotEntry /\ ~request.fromFile THEN "snapshotExists" ELSE "lookup"
  /\ UNCHANGED <<thread, canceled, cloud, others, events>>

setProgress ==
  \E step \in DOMAIN ProgressSteps :
    /\ pc = step
    /\ Save(WithProgress(ent, ProgressSteps[step][1]))
    /\ pc' = ProgressSteps[step][2]
    /\ UNCHANGED <<thread, canceled, cloud, others, events>>

-----------------------------------------------------------------------------
(* checkThreadInterruption                                                 *)

Checks == DOMAIN CheckSteps

notInterrupted ==
  /\ ~canceled
  /\ \E check \in Checks : Moves(check, CheckSteps[check])
  /\ UNCHANGED cloud

\* restoreFromSnapshot catches the cancel and goes on.
isCanceled ==
  /\ pc \in Checks \union {"copy"}
  /\ canceled
  /\ canceled' = FALSE
  /\ UNCHANGED events
  /\ IF pc = "checkSnapshot"
       THEN pc' = "deleteCanceled" /\ UNCHANGED <<rec, ent, thread, cloud, others>>
       ELSE Throws("canceled")

\* A thread interrupted in a sleep has lost its flag, so notInterrupted may
\* happen as well.
isInterrupted ==
  /\ pc \in Checks \union {"copy"}
  /\ closing
  /\ Throws("closing")
  /\ UNCHANGED <<canceled, events>>

-----------------------------------------------------------------------------
(* restoreFromSnapshot                                                     *)

snapshotExists ==
  /\ Moves("snapshotExists", "checkSnapshot")
  /\ backup.snapshotEntry /\ backup.snapshot
  /\ UNCHANGED cloud

noSnapshot == CannotGoOn("snapshotExists", ~(backup.snapshotEntry /\ backup.snapshot))

\* The volume comes up before anything of it is saved.
createFromSnapshot ==
  /\ pc = "createFromSnapshot"
  /\ backup.snapshot
  /\ NewVolume("whole") /\ volumeToRestore' = FreshVolume
  /\ pc' = "nameFromSnapshot"
  /\ UNCHANGED <<rec, ent, tempVolume, found, exit, canceled, snapshots, restored, others, events>>

snapshotIsGone == CannotGoOn("createFromSnapshot", ~backup.snapshot)

\* Deviation: the name goes to a volume that only a restore from a file has.
nameFromSnapshotTemp ==
  /\ Moves("nameFromSnapshot", "done")
  /\ restored' = restored \union {tempVolume}
  /\ UNCHANGED <<volumes, snapshots>>

nameFromSnapshot ==
  /\ Moves("nameFromSnapshot", "done")
  /\ restored' = restored \union {volumeToRestore}
  /\ UNCHANGED <<volumes, snapshots>>

\* The save of DONE that follows writes the deleted record again.
deleteCanceled ==
  /\ pc = "deleteCanceled"
  /\ rec' = NoRecord
  /\ pc' = "done"
  /\ UNCHANGED <<ent, thread, canceled, cloud, others, events>>

-----------------------------------------------------------------------------
(* restoreFromBackupFile, up to the copy                                   *)

\* EC2 answers with nothing, or with an error, when the volume is gone.
lookup ==
  /\ pc = "lookup"
  /\ backup.listed \/ request.fromFile
  /\ tempVolume' = IF Exists(ent.volume) THEN ent.volume ELSE NoId
  /\ found' = backup.listed
  /\ pc' = firstStep(ent.progress)
  /\ UNCHANGED <<rec, ent, volumeToRestore, exit, canceled, cloud, others, events>>

lookupFails ==
  CannotGoOn("lookup", (ent.volume # NoId /\ ~Exists(ent.volume))
                       \/ (~backup.listed /\ ~request.fromFile))

useBackupEntry ==
  /\ Moves("useBackupEntry", "checkCreating")
  /\ found
  /\ UNCHANGED cloud

noBackupEntry == CannotGoOn("useBackupEntry", ~found)

createVolume ==
  /\ pc = "createVolume"
  /\ NewVolume("blank") /\ tempVolume' = FreshVolume
  /\ pc' = "checkCreated"
  /\ UNCHANGED <<rec, ent, volumeToRestore, found, exit, canceled, snapshots, restored, others,
                 events>>

saveVolumeId ==
  /\ pc = "saveVolumeId"
  /\ Save(Entry(ent.status, ent.progress, tempVolume, ent.snapshot))
  /\ pc' = "checkWaiting"
  /\ UNCHANGED <<thread, canceled, cloud, others, events>>

\* waitForVolumeState(.., VolumeState.Available)
waitForVolume ==
  /\ Moves("waitForVolume", "checkAttaching")
  /\ Available(ent.volume)
  /\ UNCHANGED cloud

attachVolume ==
  /\ Moves("attachVolume", "checkAttached")
  /\ SetState(tempVolume, "attached")
  /\ UNCHANGED <<snapshots, restored>>

\* The source is opened first, then the device.
startCopy ==
  /\ Moves("startCopy", "copy")
  /\ backup.file
  /\ SetData(tempVolume, "part")
  /\ UNCHANGED <<snapshots, restored>>

fileIsGone == CannotGoOn("startCopy", ~backup.file)

copy ==
  /\ Moves("copy", "detachingTempVolume")
  /\ SetData(tempVolume, "whole")
  /\ UNCHANGED <<snapshots, restored>>

-----------------------------------------------------------------------------
(* From the copy to the end                                                *)

detachVolume ==
  /\ Moves("detachVolume", "compareZones")
  /\ Attached(ent.volume)
  /\ SetState(ent.volume, "available")
  /\ UNCHANGED <<snapshots, restored>>

cannotDetach == CannotGoOn("detachVolume", ~Attached(ent.volume))

compareZones ==
  /\ tempVolume # NoId
  /\ Moves("compareZones",
           IF request.sameZone THEN "nameTempVolume"
           ELSE IF ent.progress \in DOMAIN ZoneSteps THEN ZoneSteps[ent.progress]
           ELSE "completeTask")
  /\ UNCHANGED cloud

noTempVolume == CannotGoOn("compareZones", tempVolume = NoId)

\* The temporary volume becomes the restored one.
nameTempVolume ==
  /\ Moves("nameTempVolume", "completeTask")
  /\ found /\ Exists(tempVolume)
  /\ restored' = restored \union {tempVolume}
  /\ UNCHANGED <<volumes, snapshots>>

cannotNameTempVolume == CannotGoOn("nameTempVolume", ~(found /\ Exists(tempVolume)))

\* UsesWhatExists: the null that creatingTempSnapshotStep asks for never comes.
createSnapshot ==
  /\ pc = "createSnapshot"
  /\ Exists(ent.volume)
  /\ \E s \in SnapshotIds : snapshots[s] = "none"
  /\ snapshots' = [snapshots EXCEPT ![FreshSnapshot] = volumes[ent.volume].data]
  /\ ent' = Entry(ent.status, ent.progress, ent.volume, FreshSnapshot)
  /\ pc' = "saveSnapshotId"
  /\ UNCHANGED <<rec, thread, canceled, volumes, restored, others, events>>

saveSnapshotId ==
  /\ pc = "saveSnapshotId"
  /\ Save(ent)
  /\ pc' = "waitingSnapshot"
  /\ UNCHANGED <<thread, canceled, cloud, others, events>>

HasSnapshot == ent.snapshot # NoId /\ snapshots[ent.snapshot] \notin {"none", "deleted"}

moveToTargetZone ==
  /\ pc = "moveToTargetZone"
  /\ HasSnapshot
  /\ NewVolume(snapshots[ent.snapshot]) /\ volumeToRestore' = FreshVolume
  /\ pc' = "nameRestored"
  /\ UNCHANGED <<rec, ent, tempVolume, found, exit, canceled, snapshots, restored, others, events>>

nameRestored ==
  /\ Moves("nameRestored", "deletingTempVolume")
  /\ found
  /\ restored' = restored \union {volumeToRestore}
  /\ UNCHANGED <<volumes, snapshots>>

cannotNameRestored == CannotGoOn("nameRestored", ~found)

deleteVolume ==
  /\ Moves("deleteVolume", "deletingTempSnapshot")
  /\ Available(ent.volume)
  /\ SetState(ent.volume, "deleted")
  /\ UNCHANGED <<snapshots, restored>>

cannotDeleteVolume == CannotGoOn("deleteVolume", ~Available(ent.volume))

DeleteSnapshot(s) ==
  snapshots' = IF s = NoId THEN snapshots ELSE [snapshots EXCEPT ![s] = "deleted"]

\* awsCommunication.deleteSnapshot catches whatever EC2 throws.
deleteSnapshot ==
  /\ Moves("deleteSnapshot", "completeTask")
  /\ DeleteSnapshot(ent.snapshot)
  /\ UNCHANGED <<volumes, restored>>

completeTask ==
  /\ pc = "completeTask"
  /\ Save(Entry("complete", "DONE", ent.volume, ent.snapshot))
  /\ pc' = "idle"
  /\ UNCHANGED <<thread, canceled, cloud, others, events>>

-----------------------------------------------------------------------------
(* A resumed restore throws its volume away; whatever goes wrong there is  *)
(* skipped, and so is a cancel that is noticed there.                      *)

resumeDetach ==
  /\ pc = "resumeDetach"
  /\ pc' = "resumeDeleting"
  /\ \/ ~canceled /\ Attached(ent.volume) /\ SetState(ent.volume, "available") /\ UNCHANGED events
     \/ ~canceled /\ ~Attached(ent.volume) /\ UNCHANGED <<volumes, events>>
     \/ ~canceled /\ Happens("failure") /\ UNCHANGED volumes
     \/ (canceled \/ closing) /\ UNCHANGED <<volumes, events>>
  /\ canceled' = FALSE
  /\ UNCHANGED <<rec, ent, thread, snapshots, restored, others>>

DeleteVolumeOrSkip ==
  \/ Available(ent.volume) /\ SetState(ent.volume, "deleted") /\ UNCHANGED events
  \/ ~Available(ent.volume) /\ UNCHANGED <<volumes, events>>
  \/ Happens("failure") /\ UNCHANGED volumes

resumeDelete ==
  /\ pc = "resumeDelete"
  /\ pc' = "started"
  /\ DeleteVolumeOrSkip
  /\ UNCHANGED <<rec, ent, thread, canceled, snapshots, restored, others>>

-----------------------------------------------------------------------------
(* cleaningStep, and what failCleaningStep and interruptedCleaningStep do  *)
(* after it                                                                *)

cleanSnapshot ==
  /\ Moves("cleanSnapshot", "cleaningVolume")
  /\ DeleteSnapshot(ent.snapshot)
  /\ UNCHANGED <<volumes, restored>>

\* The volume is not detached first: one that is attached stays.
cleanVolume ==
  /\ pc = "cleanVolume"
  /\ pc' = "afterCleaning"
  /\ DeleteVolumeOrSkip
  /\ UNCHANGED <<rec, ent, thread, canceled, snapshots, restored, others>>

\* Deviation: the status of a restore that failed is set but not saved.
afterCleaningSaveForgotten ==
  /\ pc = "afterCleaning"
  /\ IF exit = "failed" THEN ent' = WithStatus(ent, "error") /\ UNCHANGED rec
                        ELSE rec' = NoRecord /\ UNCHANGED ent
  /\ pc' = "idle"
  /\ UNCHANGED <<thread, canceled, cloud, others, events>>

\* Deviation: a restore that failed is cleaned up and then completed.
afterCleaningCompletes ==
  /\ pc = "afterCleaning"
  /\ IF exit = "failed" THEN Save(Entry("complete", "DONE", ent.volume, ent.snapshot))
                        ELSE rec' = NoRecord /\ UNCHANGED ent
  /\ pc' = "idle"
  /\ UNCHANGED <<thread, canceled, cloud, others, events>>

afterCleaning ==
  /\ pc = "afterCleaning"
  /\ IF exit = "failed" THEN Save(WithStatus(ent, "error"))
                        ELSE rec' = NoRecord /\ UNCHANGED ent
  /\ pc' = "idle"
  /\ UNCHANGED <<thread, canceled, cloud, others, events>>

-----------------------------------------------------------------------------
(* The delete task of the same backup: the dispatcher executes it itself,  *)
(* one part after the other, and skips the parts that fail.                *)

restoreOnly == <<request, rec, ent, pc, thread, canceled, cloud, closing, rollbackCut>>

\* BackupServiceImpl.deleteBackup
deleteBackup ==
  /\ deletion = "none"
  /\ backup.listed
  /\ deletion' = "queued"
  /\ Happens("deletion")
  /\ UNCHANGED <<restoreOnly, backup>>

\* Deviation: the entry goes first, so a crash leaves a file nobody lists.
deleteTaskEntryFirst ==
  /\ deletion = "queued"
  /\ ~closing
  /\ deletion' = IF backup.listed THEN "file" ELSE "complete"
  /\ backup' = [backup EXCEPT !.listed = FALSE]
  /\ UNCHANGED <<restoreOnly, events>>

\* backupEntry is null if an earlier execution removed it: then all is skipped.
deleteTask ==
  /\ deletion = "queued"
  /\ ~closing
  /\ deletion' = IF backup.listed THEN "file" ELSE "complete"
  /\ UNCHANGED <<restoreOnly, backup, events>>

DeletePart(part, here, there) ==
  /\ deletion = here
  /\ deletion' = there
  /\ \/ backup' = [backup EXCEPT ![part] = FALSE] /\ UNCHANGED events
     \/ Happens("failure") /\ UNCHANGED backup
  /\ UNCHANGED restoreOnly

deleteFile == DeletePart("file", "file", IF backup.snapshotEntry THEN "snapshot" ELSE "entry")

\* snapshotService.deleteSnapshot: an error of the deletion itself is caught
\* and the entry goes all the same, one of the check before it skips both.
deleteKeptSnapshot ==
  /\ deletion = "snapshot"
  /\ \/ /\ backup' = [backup EXCEPT !.snapshot = FALSE]
        /\ deletion' = "snapshotEntry"
        /\ UNCHANGED events
     \/ /\ Happens("failure")
        /\ deletion' \in {"snapshotEntry", "entry"}
        /\ UNCHANGED backup
  /\ UNCHANGED restoreOnly

deleteSnapshotEntry == DeletePart("snapshotEntry", "snapshotEntry", "entry")

deleteEntry == DeletePart("listed", "entry", "complete")

-----------------------------------------------------------------------------
(* Failures, users, shutdowns and crashes                                  *)

CallsToAws == {"lookup", "snapshotExists", "createFromSnapshot", "nameFromSnapshot",
               "createVolume", "saveVolumeId", "waitForVolume", "attachVolume", "startCopy",
               "copy", "detachVolume", "nameTempVolume", "createSnapshot", "checkMoving",
               "moveToTargetZone", "nameRestored", "deleteVolume"}

callFails ==
  /\ pc \in CallsToAws
  /\ Happens("failure")
  /\ Throws("failed")
  /\ UNCHANGED canceled

\* EC2 has created a volume; until then it can be neither attached nor deleted.
volumeIsCreated(v) ==
  /\ volumes[v].state = "creating"
  /\ SetState(v, "available")
  /\ UNCHANGED <<rec, ent, pc, thread, canceled, snapshots, restored, others, events>>

\* TaskServiceImpl.removeTask of a running task.
cancel ==
  /\ rec.status = "running"
  /\ Happens("cancel")
  /\ rec' = WithStatus(rec, "canceled")
  /\ canceled' = TRUE
  /\ UNCHANGED <<ent, pc, thread, cloud, others>>

\* The set is rebuilt from the table, where a save may have undone the cancel.
updateCanceledTasks ==
  /\ canceled' = (rec.status = "canceled")
  /\ UNCHANGED <<rec, ent, pc, thread, cloud, others, events>>

\* WorkersDispatcher.destroy interrupts the threads.
destroy ==
  /\ ~closing
  /\ Happens("shutdown")
  /\ closing' = TRUE
  /\ UNCHANGED <<request, rec, ent, pc, thread, canceled, cloud, backup, deletion,
                 rollbackCut>>

\* A resumed restore gets rid of its volume, or a cleaning does.
RollsBack ==
  \/ pc \in {"resumeDetach", "resumeDeleting", "resumeDelete", "cleanSnapshot", "cleaningVolume",
             "cleanVolume", "afterCleaning"}
  \/ pc = "started" /\ ent.progress = "DELETING_TEMP_VOLUME"

\* The process ends and starts again: TaskServiceImpl.init marks what ran.
restart ==
  /\ \/ closing /\ UNCHANGED events
     \/ Happens("crash")
  /\ rec' = IF rec.status = "running" THEN WithStatus(rec, "partially_finished") ELSE rec
  /\ ent' = rec'
  /\ pc' = "idle" /\ tempVolume' = NoId /\ volumeToRestore' = NoId /\ found' = FALSE
  /\ exit' = "none"
  /\ canceled' = FALSE
  /\ closing' = FALSE
  /\ deletion' = IF deletion \in {"none", "complete"} THEN deletion ELSE "queued"
  /\ rollbackCut' = (rollbackCut \/ RollsBack)
  /\ UNCHANGED <<request, cloud, backup>>

-----------------------------------------------------------------------------
Execute ==
  \/ resumeCleaning \/ begin \/ setProgress \/ notInterrupted \/ isCanceled \/ isInterrupted
  \/ snapshotExists \/ noSnapshot \/ createFromSnapshot \/ snapshotIsGone \/ nameFromSnapshot
  \/ deleteCanceled
  \/ lookup \/ lookupFails \/ useBackupEntry \/ noBackupEntry \/ createVolume \/ saveVolumeId
  \/ waitForVolume \/ attachVolume \/ startCopy \/ fileIsGone \/ copy
  \/ detachVolume \/ cannotDetach \/ compareZones \/ noTempVolume
  \/ nameTempVolume \/ cannotNameTempVolume
  \/ createSnapshot \/ saveSnapshotId \/ moveToTargetZone
  \/ nameRestored \/ cannotNameRestored \/ deleteVolume \/ cannotDeleteVolume \/ deleteSnapshot
  \/ completeTask
  \/ resumeDetach \/ resumeDelete \/ cleanSnapshot \/ cleanVolume \/ afterCleaning

Delete == deleteTask \/ deleteFile \/ deleteKeptSnapshot \/ deleteSnapshotEntry \/ deleteEntry

RestoreNext ==
  \/ submit \/ Execute \/ callFails
  \/ deleteBackup \/ Delete
  \/ cancel \/ updateCanceledTasks
  \/ destroy \/ restart

Next == RestoreNext \/ \E v \in VolumeIds : volumeIsCreated(v)

Spec == Init /\ [][Next]_vars

\* The dispatcher and the threads go on, and AWS answers; a shutdown that was
\* begun ends.  Nothing is owed by users, by failures or by crashes.
Fairness ==
  /\ WF_vars(submit) /\ WF_vars(Execute) /\ WF_vars(Delete)
  /\ \A v \in VolumeIds : WF_vars(volumeIsCreated(v))
  /\ WF_vars(closing /\ restart)

FairSpec == Spec /\ Fairness

-----------------------------------------------------------------------------
(* Properties                                                              *)

Ids == VolumeIds \union {NoId}

\* The type invariant.
TypeOK ==
  /\ request \in [fromFile : BOOLEAN, sameZone : BOOLEAN]
  /\ {rec, ent} \subseteq [status : Statuses, progress : Progresses,
                           volume : Ids, snapshot : SnapshotIds \union {NoId}]
  /\ pc \in Pcs
  /\ tempVolume \in Ids /\ volumeToRestore \in Ids
  /\ found \in BOOLEAN
  /\ exit \in {"none", "canceled", "closing", "failed"}
  /\ canceled \in BOOLEAN /\ closing \in BOOLEAN
  /\ volumes \in [VolumeIds -> [state : {"none", "creating", "available", "attached", "deleted"},
                                data : {"blank", "part", "whole"}]]
  /\ snapshots \in [SnapshotIds -> {"none", "blank", "part", "whole", "deleted"}]
  /\ restored \subseteq VolumeIds
  /\ backup \in [file : BOOLEAN, listed : BOOLEAN, snapshotEntry : BOOLEAN, snapshot : BOOLEAN]
  /\ deletion \in {"none", "queued", "file", "snapshot", "snapshotEntry", "entry", "complete"}
  /\ events \in [Kinds -> Nat]
  /\ rollbackCut \in BOOLEAN

Whole(v) == Exists(v) /\ volumes[v].data = "whole"

\* Crash recovery: a restore that reads complete has left a volume with its name
\* and the whole backup, although the backup may be deleted meanwhile, calls
\* fail and the process end at any step but one of a rollback.  The exception is
\* a canceled restore from a snapshot (AWSRestoreVolumeStrategyTaskExecutor:126-131).
CompleteIsRestored ==
  pc = "idle" /\ rec.status = "complete" /\ ~rollbackCut
    => \/ \E v \in restored : Whole(v)
       \/ events["cancel"] > 0 /\ ~request.fromFile

\* No volume is handed over under the name of a restored one with only a part
\* of the backup on it, unless a rollback was cut short.
RestoredIsWhole == ~rollbackCut => \A v \in restored : volumes[v].data = "whole"

\* Crash recovery: what a resumed restore takes from its record was saved before
\* the progress that leads there, and the volume it makes a snapshot of, or the
\* snapshot it makes a volume of in the other zone, is still in EC2
\* (AWSRestoreVolumeStrategyTaskExecutor:302-326).
UsesWhatExists ==
  /\ rec.progress \in {"WAITING_TEMP_VOLUME", "ATTACHING_VOLUME", "CREATING_SNAPSHOT",
                       "WAITING_SNAPSHOT"} => rec.volume # NoId
  /\ rec.progress = "WAITING_SNAPSHOT" => rec.snapshot # NoId
  /\ pc = "createSnapshot" => Exists(ent.volume)
  /\ pc = "moveToTargetZone" => HasSnapshot

\* Partial failure: a delete task that has finished, after whatever crashes, has
\* left nothing of the backup behind unless one of its calls failed
\* (AWSDeleteTaskExecutor:52-69 skips errors).
DeletedIsGone ==
  deletion = "complete" /\ events["failure"] = 0
    => backup = [file |-> FALSE, listed |-> FALSE, snapshotEntry |-> FALSE, snapshot |-> FALSE]

\* Every restore that starts ends, however often it is stopped and resumed, and
\* its record then says how, complete or error, or is removed; only one that
\* the node stopped before its first save, or that was canceled and not noticed
\* yet, stays as it is (TaskServiceImpl:59).  Every deletion ends too.
RestoreEnds ==
  /\ pc # "idle" ~> /\ pc = "idle"
                    /\ \/ rec.status \in {"complete", "error", "absent"}
                       \/ /\ events["crash"] + events["shutdown"] # 0
                          /\ rec.status \in {"waiting", "canceled"}
  /\ deletion = "queued" ~> deletion = "complete"
=============================================================================
