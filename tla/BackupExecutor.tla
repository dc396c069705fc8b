--------------------------- MODULE BackupExecutor ---------------------------
(***************************************************************************)
(* The steps of AWSBackupVolumeStrategyTaskExecutor for backups of ONE     *)
(* volume: every save of the task record and every call that changes EC2,  *)
(* the SDFS mount or the backup tables is a step of its own, so a crash, a *)
(* cancel or a second backup can fall between any two of them.             *)
(*                                                                         *)
(* A thread works on its own copy of the record (ent) and saves the whole  *)
(* copy; after a crash it starts again from what was saved (rec).          *)
(***************************************************************************)
EXTENDS Integers, FiniteSets

CONSTANTS
  Backups,         \* backup tasks of the volume
  VolumeIds,       \* identifiers of temporary volumes
  SnapshotIds,     \* identifiers of EC2 snapshots
  NoId,            \* null
  StoreSnapshot,   \* configurationMediator.isStoreSnapshot()
  MaxCrashes,      \* bound: crashes of the node
  MaxShutdowns,    \* bound: orderly shutdowns of the node
  MaxCancels,      \* bound: backups rejected while they run
  MaxFailures      \* bound: calls to AWS or to cp that fail of themselves

ASSUME NoIdAssumption  == NoId \notin VolumeIds \union SnapshotIds
ASSUME StoreAssumption == StoreSnapshot \in BOOLEAN
ASSUME BoundsAssumption ==
  MaxCrashes \in Nat /\ MaxShutdowns \in Nat /\ MaxCancels \in Nat /\ MaxFailures \in Nat

VARIABLES
  rec,        \* the Tasks table
  ent,        \* the TaskEntry in the hands of the thread that executes it
  pc,         \* where that thread is in execute
  tempVolume, \* the local variable tempVolume of execute
  previous,   \* the local variable previousSnapshot of cleaningTempResourcesStep
  exit,       \* why deleteTempResources runs, once it does
  canceled,   \* TaskServiceImpl.canceledTasks
  volumes,    \* EC2: the temporary volumes
  refused,    \* ... of which a cleaning asked EC2 to delete while it was creating them
  snapshots,  \* EC2: the snapshots
  file,       \* the backup file of each task on the SDFS mount
  backupList, \* tasks with a BackupEntry; the code saves none that is not COMPLETED
  snapshotTable, \* SnapshotEntry records of the volume
  closing,    \* the context is closing: threads are interrupted
  crashes, shutdowns, cancels, failures

thread   == <<pc, tempVolume, previous, exit>>
cloud    == <<volumes, refused, snapshots>>
catalog  == <<file, backupList, snapshotTable>>
counters == <<closing, crashes, shutdowns, cancels, failures>>
vars     == <<rec, ent, thread, canceled, cloud, catalog, counters>>

Entry(status, progress, volume, snapshot) ==
  [status |-> status, progress |-> progress, volume |-> volume, snapshot |-> snapshot]

WithStatus(e, s)   == Entry(s, e.progress, e.volume, e.snapshot)
WithProgress(e, p) == Entry(e.status, p, e.volume, e.snapshot)
WithVolume(e, v)   == Entry(e.status, e.progress, v, e.snapshot)
WithSnapshot(e, s) == Entry(e.status, e.progress, e.volume, s)

Exists(v)   == v # NoId /\ volumes[v] \in {"creating", "available", "attached"}
Creating(v) == v # NoId /\ volumes[v] = "creating"

-----------------------------------------------------------------------------
(* execute as a table: the steps fall through from one case to the next    *)

\* Steps that begin with setProgress: what they save, and what comes next.
ProgressSteps ==
  [ started            |-> <<"STARTED", "checkStarted">>,
    creatingSnapshot   |-> <<"CREATING_SNAPSHOT", "createSnapshot">>,
    waitingSnapshot    |-> <<"WAITING_SNAPSHOT", "checkCreating">>,
    creatingTempVolume |-> <<"CREATING_TEMP_VOLUME", "createVolume">>,
    waitingTempVolume  |-> <<"WAITING_TEMP_VOLUME", "waitForVolume">>,
    attachingVolume    |-> <<"ATTACHING_VOLUME", "attachVolume">>,
    copying            |-> <<"COPYING", "checkCopying">>,
    detachingTempVolume |-> <<"DETACHING_TEMP_VOLUME", "checkDetaching">>,
    deletingTempVolume |-> <<"DELETING_TEMP_VOLUME", "deleteVolume">>,
    cleaningTempResources |-> <<"CLEANING_TEMP_RESOURCES", "readPrevious">>,
    resumeDetaching    |-> <<"DETACHING_TEMP_VOLUME", "resumeDetach">>,
    resumeDeleting     |-> <<"DELETING_TEMP_VOLUME", "resumeDelete">>,
    resumeCreating     |-> <<"CREATING_TEMP_VOLUME", "checkCreating">>,
    interruptedCleaning |-> <<"INTERRUPTED_CLEANING", "detachForCleaning">>,
    failCleaning       |-> <<"FAIL_CLEANING", "saveError">>,
    done               |-> <<"DONE", "idle">> ]

\* Calls of checkThreadInterruption, and what comes next if it returns.  Two
\* calls with nothing but reads between them are one.
CheckSteps ==
  [ checkStarted     |-> "creatingSnapshot",
    checkCreating    |-> "creatingTempVolume",
    checkWaiting     |-> "waitingTempVolume",
    checkAttaching   |-> "attachingVolume",
    checkInitialized |-> "copying",
    checkCopying     |-> "startCopy",
    checkCopied      |-> "saveBackup",
    checkDetaching   |-> "detachVolume",
    checkPrevious    |-> "deletePrevious",
    checkCompleted   |-> "applyRetention" ]

\* The other steps, each an action below.
OtherSteps ==
  {"idle", "begin", "volumeExists", "createSnapshot", "saveSnapshotId", "createVolume",
   "saveVolumeId", "tagVolume", "waitForVolume", "attachVolume", "startCopy", "copy", "saveBackup",
   "detachVolume", "deleteVolume", "readPrevious", "deletePrevious", "deletePreviousEntry",
   "storeSnapshot", "complete", "applyRetention", "resumeDetach", "resumeDelete",
   "resumeDeleteFile", "detachForCleaning", "deleteSnapshotForCleaning",
   "deleteVolumeForCleaning", "deleteFile", "afterCleaning", "saveError"}

Pcs == DOMAIN ProgressSteps \union DOMAIN CheckSteps \union OtherSteps

Statuses   == {"absent", "queued", "waiting", "running", "complete", "canceled",
               "partially_finished", "error"}
Progresses == {"NONE"} \union {ProgressSteps[s][1] : s \in DOMAIN ProgressSteps}

\* Progress from which a resumed backup throws its temporary volume away.
RedoneProgresses == {"CREATING_TEMP_VOLUME", "WAITING_TEMP_VOLUME", "ATTACHING_VOLUME", "COPYING"}

\* Deviation: a resumed backup waits for a snapshot without asking for its id.
firstStepWithoutId(e) ==
  CASE e.progress = "NONE"                     -> "volumeExists"
    [] e.progress = "STARTED"                  -> "started"
    [] e.progress \in {"CREATING_SNAPSHOT", "WAITING_SNAPSHOT"} -> "waitingSnapshot"
    [] e.progress \in RedoneProgresses         -> "resumeDetaching"
    [] OTHER                                   -> "deletingTempVolume"

\* Deviation: a resumed backup takes an interrupted copy for a finished one.
firstStepAfterCopy(e) ==
  CASE e.progress = "NONE"                     -> "volumeExists"
    [] e.progress = "STARTED"                  -> "started"
    [] e.progress = "CREATING_SNAPSHOT"        -> "creatingSnapshot"
    [] e.progress = "WAITING_SNAPSHOT"         -> "waitingSnapshot"
    [] e.progress = "COPYING"                  -> "detachingTempVolume"
    [] e.progress \in RedoneProgresses         -> "resumeDetaching"
    [] OTHER                                   -> "cleaningTempResources"

\* Where execute goes after its first save, by the progress it resumes from.
\* A second save of the same progress by the step itself is not repeated.
firstStep(e) ==
  CASE e.progress = "NONE"                     -> "volumeExists"
    [] e.progress = "STARTED"                  -> "started"
    [] e.progress = "CREATING_SNAPSHOT"        ->
         IF e.snapshot = NoId THEN "creatingSnapshot" ELSE "waitingSnapshot"
    [] e.progress = "WAITING_SNAPSHOT"         -> "waitingSnapshot"
    [] e.progress \in RedoneProgresses         -> "resumeDetaching"
    [] e.progress \in {"DETACHING_TEMP_VOLUME", "DELETING_TEMP_VOLUME"} -> "deletingTempVolume"
    [] e.progress = "CLEANING_TEMP_RESOURCES"  -> "cleaningTempResources"
    [] e.progress = "INTERRUPTED_CLEANING"     -> "interruptedCleaning"
    [] e.progress = "FAIL_CLEANING"            -> "failCleaning"
    [] OTHER                                   -> "done"

-----------------------------------------------------------------------------
Init ==
  /\ rec = [t \in Backups |-> Entry("queued", "NONE", NoId, NoId)]
  /\ ent = rec
  /\ pc         = [t \in Backups |-> "idle"]
  /\ tempVolume = [t \in Backups |-> NoId]
  /\ previous   = [t \in Backups |-> NoId]
  /\ exit       = [t \in Backups |-> "none"]
  /\ canceled = {}
  /\ volumes   = [v \in VolumeIds |-> "none"]
  /\ refused   = {}
  /\ snapshots = [s \in SnapshotIds |-> "none"]
  /\ file = [t \in Backups |-> "absent"]
  /\ backupList = {}
  /\ snapshotTable = {}
  /\ closing = FALSE
  /\ crashes = 0 /\ shutdowns = 0 /\ cancels = 0 /\ failures = 0

-----------------------------------------------------------------------------
(* Building blocks                                                         *)

At(t, here)    == pc[t] = here
Goto(t, there) == pc' = [pc EXCEPT ![t] = there]
Set(f, t, x)   == [f EXCEPT ![t] = x]

\* taskRepository.save(taskEntry)
Save(t, e) == ent' = Set(ent, t, e) /\ rec' = Set(rec, t, e)

\* A step of the thread that leaves its record and its locals alone.
Moves(t, here, there) ==
  /\ At(t, here)
  /\ Goto(t, there)
  /\ UNCHANGED <<rec, ent, tempVolume, previous, exit, canceled, counters>>

\* An exception leaves the step; its handler starts to clean up.
Throws(t, why) ==
  /\ exit' = Set(exit, t, why)
  /\ Goto(t, IF why = "failed" THEN "failCleaning" ELSE "interruptedCleaning")
  /\ UNCHANGED <<rec, ent, tempVolume, previous>>

-----------------------------------------------------------------------------
(* The dispatcher, and the first save of execute                           *)

submit(t) ==
  /\ At(t, "idle")
  /\ ~closing
  /\ rec[t].status \in {"queued", "partially_finished"}
  /\ Save(t, WithStatus(rec[t], "waiting"))
  /\ Goto(t, "begin")
  /\ UNCHANGED <<tempVolume, previous, exit, canceled, cloud, catalog, counters>>

begin(t) ==
  /\ At(t, "begin")
  /\ tempVolume' = Set(tempVolume, t, IF Exists(ent[t].volume) THEN ent[t].volume ELSE NoId)
  /\ exit' = Set(exit, t, CASE ent[t].progress = "INTERRUPTED_CLEANING" -> "closing"
                            [] ent[t].progress = "FAIL_CLEANING"        -> "failed"
                            [] OTHER                                    -> "none")
  /\ Save(t, WithStatus(ent[t], "running"))
  /\ Goto(t, firstStep(ent[t]))
  /\ UNCHANGED <<previous, canceled, cloud, catalog, counters>>

\* A failure of its own is counted; EC2 may also answer with an error, instead
\* of with nothing, when it is asked for a volume that is gone.
LookupError(v) ==
  /\ v # NoId
  /\ IF Exists(v) THEN failures < MaxFailures /\ failures' = failures + 1
                  ELSE UNCHANGED failures

\* The lookup of the recorded volume is outside of execute's try block.
lookupFails(t) ==
  /\ At(t, "begin")
  /\ LookupError(ent[t].volume)
  /\ Goto(t, "idle")
  /\ UNCHANGED <<rec, ent, tempVolume, previous, exit, canceled, cloud, catalog, closing,
                 crashes, shutdowns, cancels>>

\* setProgress, with which most steps begin.
setProgress(t) ==
  \E step \in DOMAIN ProgressSteps :
    /\ At(t, step)
    /\ Save(t, WithProgress(ent[t], ProgressSteps[step][1]))
    /\ Goto(t, ProgressSteps[step][2])
    /\ UNCHANGED <<tempVolume, previous, exit, canceled, cloud, catalog, counters>>

-----------------------------------------------------------------------------
(* checkThreadInterruption                                                 *)

Checks == DOMAIN CheckSteps

notInterrupted(t) ==
  /\ t \notin canceled
  /\ \E check \in Checks : Moves(t, check, CheckSteps[check])
  /\ UNCHANGED <<cloud, catalog>>

\* isCanceled takes the task out of the set; a cp that runs is destroyed.
isCanceled(t) ==
  /\ pc[t] \in Checks \union {"copy"}
  /\ t \in canceled
  /\ canceled' = canceled \ {t}
  /\ Throws(t, "canceled")
  /\ UNCHANGED <<cloud, catalog, counters>>

\* The context is closing.  A thread that was interrupted in a sleep between
\* two polls of AWS has lost its flag, so notInterrupted may happen as well.
isInterrupted(t) ==
  /\ pc[t] \in Checks \union {"copy"}
  /\ closing
  /\ Throws(t, "closing")
  /\ UNCHANGED <<canceled, cloud, catalog, counters>>

-----------------------------------------------------------------------------
(* From the snapshot to the copy                                           *)

volumeExists(t) ==
  /\ Moves(t, "volumeExists", "started")
  /\ UNCHANGED <<cloud, catalog>>

NoRecord == Entry("absent", "NONE", NoId, NoId)

volumeIsGone(t) ==
  /\ At(t, "volumeExists")
  /\ rec' = Set(rec, t, NoRecord)
  /\ Goto(t, "idle")
  /\ UNCHANGED <<ent, tempVolume, previous, exit, canceled, cloud, catalog, counters>>

createSnapshot(t) ==
  /\ At(t, "createSnapshot")
  /\ \E s \in SnapshotIds :
       /\ snapshots[s] = "none"
       /\ snapshots' = Set(snapshots, s, "present")
       /\ ent' = Set(ent, t, WithSnapshot(ent[t], s))
  /\ Goto(t, "saveSnapshotId")
  /\ UNCHANGED <<rec, tempVolume, previous, exit, canceled, volumes, refused, catalog, counters>>

saveSnapshotId(t) ==
  /\ At(t, "saveSnapshotId")
  /\ Save(t, ent[t])
  /\ Goto(t, "waitingSnapshot")
  /\ UNCHANGED <<tempVolume, previous, exit, canceled, cloud, catalog, counters>>

\* EC2 answers with a volume that it has only begun to create.
createVolume(t) ==
  /\ At(t, "createVolume")
  /\ \E v \in VolumeIds :
       /\ volumes[v] = "none"
       /\ volumes' = Set(volumes, v, "creating")
       /\ ent' = Set(ent, t, WithVolume(ent[t], v))
  /\ Goto(t, "saveVolumeId")
  /\ UNCHANGED <<rec, tempVolume, previous, exit, canceled, refused, snapshots, catalog, counters>>

saveVolumeId(t) ==
  /\ At(t, "saveVolumeId")
  /\ Save(t, ent[t])
  /\ Goto(t, "tagVolume")
  /\ UNCHANGED <<tempVolume, previous, exit, canceled, cloud, catalog, counters>>

\* execute knows the volume only once creatingTempVolumeStep has returned it.
tagVolume(t) ==
  /\ At(t, "tagVolume")
  /\ tempVolume' = Set(tempVolume, t, ent[t].volume)
  /\ Goto(t, "checkWaiting")
  /\ UNCHANGED <<rec, ent, previous, exit, canceled, cloud, catalog, counters>>

\* waitForVolumeState(tempVolume, VolumeState.Available)
waitForVolume(t) ==
  /\ Moves(t, "waitForVolume", "checkAttaching")
  /\ ~Creating(tempVolume[t])
  /\ UNCHANGED <<cloud, catalog>>

attachVolume(t) ==
  /\ Moves(t, "attachVolume", "checkInitialized")
  /\ volumes' = Set(volumes, tempVolume[t], "attached")
  /\ UNCHANGED <<refused, snapshots, catalog>>

startCopy(t) ==
  /\ Moves(t, "startCopy", "copy")
  /\ file' = Set(file, t, "partial")
  /\ UNCHANGED <<cloud, backupList, snapshotTable>>

copy(t) ==
  /\ Moves(t, "copy", "checkCopied")
  /\ file' = Set(file, t, "whole")
  /\ UNCHANGED <<cloud, backupList, snapshotTable>>

saveBackup(t) ==
  /\ Moves(t, "saveBackup", "detachingTempVolume")
  /\ backupList' = backupList \union {t}
  /\ UNCHANGED <<cloud, file, snapshotTable>>

-----------------------------------------------------------------------------
(* From the copy to the end                                                *)

detachVolume(t) ==
  /\ Moves(t, "detachVolume", "deletingTempVolume")
  /\ volumes' = Set(volumes, tempVolume[t], "available")
  /\ UNCHANGED <<refused, snapshots, catalog>>

Deletable(v) == v # NoId /\ volumes[v] = "available"

deleteVolume(t) ==
  /\ Moves(t, "deleteVolume", "cleaningTempResources")
  /\ Deletable(tempVolume[t])
  /\ volumes' = Set(volumes, tempVolume[t], "deleted")
  /\ UNCHANGED <<refused, snapshots, catalog>>

\* There is no volume, a null or one that is gone, or EC2 still creates it or
\* has it attached.
cannotDeleteVolume(t) ==
  /\ At(t, "deleteVolume")
  /\ ~Deletable(tempVolume[t])
  /\ Throws(t, "failed")
  /\ UNCHANGED <<canceled, cloud, catalog, counters>>

\* snapshotService.getSnapshotIdByVolumeId: one of the volume's entries.
readPrevious(t) ==
  /\ At(t, "readPrevious")
  /\ \/ /\ snapshotTable = {}
        /\ Goto(t, "storeSnapshot")
        /\ UNCHANGED previous
     \/ /\ \E s \in snapshotTable : previous' = Set(previous, t, s)
        /\ Goto(t, "checkPrevious")
  /\ UNCHANGED <<rec, ent, tempVolume, exit, canceled, cloud, catalog, counters>>

\* snapshotService.deleteSnapshot: nothing if the entry is gone by now.
deletePrevious(t) ==
  /\ \/ /\ Moves(t, "deletePrevious", "storeSnapshot")
        /\ previous[t] \notin snapshotTable
        /\ UNCHANGED snapshots
     \/ /\ Moves(t, "deletePrevious", "deletePreviousEntry")
        /\ previous[t] \in snapshotTable
        /\ snapshots' = Set(snapshots, previous[t], "deleted")
  /\ UNCHANGED <<volumes, refused, catalog>>

\* Deviation: the entry of the previous snapshot is left in the table.
deletePreviousEntryForgotten(t) ==
  /\ Moves(t, "deletePreviousEntry", "storeSnapshot")
  /\ UNCHANGED <<cloud, catalog>>

deletePreviousEntry(t) ==
  /\ Moves(t, "deletePreviousEntry", "storeSnapshot")
  /\ snapshotTable' = snapshotTable \ {previous[t]}
  /\ UNCHANGED <<cloud, file, backupList>>

\* Deviation: the entry is written for the snapshot that was just deleted.
storeSnapshotOfPrevious(t) ==
  /\ Moves(t, "storeSnapshot", "complete")
  /\ snapshotTable' = snapshotTable \union {previous[t]}
  /\ UNCHANGED <<cloud, file, backupList>>

storeSnapshot(t) ==
  /\ Moves(t, "storeSnapshot", "complete")
  /\ snapshotTable' = IF StoreSnapshot THEN snapshotTable \union {ent[t].snapshot}
                                       ELSE snapshotTable
  /\ snapshots' = IF StoreSnapshot THEN snapshots ELSE Set(snapshots, ent[t].snapshot, "deleted")
  /\ UNCHANGED <<volumes, refused, file, backupList>>

complete(t) ==
  /\ At(t, "complete")
  /\ Save(t, WithStatus(ent[t], "complete"))
  /\ Goto(t, "checkCompleted")
  /\ UNCHANGED <<tempVolume, previous, exit, canceled, cloud, catalog, counters>>

\* retentionService.apply may delete old backups; none of these is old.
applyRetention(t) ==
  /\ Moves(t, "applyRetention", "done")
  /\ UNCHANGED <<cloud, catalog>>

-----------------------------------------------------------------------------
(* A resumed backup throws its volume and its file away; whatever goes     *)
(* wrong there is skipped, and so is a cancel that is noticed there.       *)

Resumes(t, here, there) ==
  /\ At(t, here)
  /\ Goto(t, there)
  /\ UNCHANGED <<rec, ent, tempVolume, previous, exit, closing, crashes, shutdowns, cancels>>

Detachable(v) == v # NoId /\ volumes[v] = "attached"

resumeDetach(t) ==
  /\ Resumes(t, "resumeDetach", "resumeDeleting")
  /\ t \notin canceled
  /\ Detachable(tempVolume[t])
  /\ volumes' = Set(volumes, tempVolume[t], "available")
  /\ UNCHANGED <<canceled, failures, refused, snapshots, catalog>>

resumeDetachSkipped(t) ==
  /\ Resumes(t, "resumeDetach", "resumeDeleting")
  /\ \/ t \in canceled /\ canceled' = canceled \ {t} /\ UNCHANGED failures
     \/ closing /\ UNCHANGED <<canceled, failures>>
     \/ /\ t \notin canceled
        /\ ~Detachable(tempVolume[t])
        /\ UNCHANGED <<canceled, failures>>
     \/ /\ t \notin canceled
        /\ failures < MaxFailures
        /\ failures' = failures + 1
        /\ UNCHANGED canceled
  /\ UNCHANGED <<cloud, catalog>>

\* Deviation: the volume is thrown away by deleteTempVolume, as in a cleaning.
resumeDeleteWithSnapshot(t) ==
  /\ Resumes(t, "resumeDelete", "resumeDeleteFile")
  /\ volumes' = IF Deletable(tempVolume[t]) THEN Set(volumes, tempVolume[t], "deleted") ELSE volumes
  /\ snapshots' = IF Deletable(tempVolume[t]) THEN Set(snapshots, ent[t].snapshot, "deleted")
                                             ELSE snapshots
  /\ UNCHANGED <<canceled, failures, refused, catalog>>

resumeDelete(t) ==
  /\ Resumes(t, "resumeDelete", "resumeDeleteFile")
  /\ \/ /\ Deletable(tempVolume[t])
        /\ volumes' = Set(volumes, tempVolume[t], "deleted")
        /\ UNCHANGED failures
     \/ ~Deletable(tempVolume[t]) /\ UNCHANGED <<volumes, failures>>
     \/ failures < MaxFailures /\ failures' = failures + 1 /\ UNCHANGED volumes
  /\ UNCHANGED <<canceled, refused, snapshots, catalog>>

resumeDeleteFile(t) ==
  /\ Resumes(t, "resumeDeleteFile", "resumeCreating")
  /\ file' = Set(file, t, "absent")
  /\ UNCHANGED <<canceled, failures, cloud, backupList, snapshotTable>>

-----------------------------------------------------------------------------
(* interruptedCleaningStep and failCleaningStep                            *)

\* Deviation: a backup that failed keeps the status it had.
saveErrorForgotten(t) ==
  /\ At(t, "saveError")
  /\ Save(t, ent[t])
  /\ Goto(t, "detachForCleaning")
  /\ UNCHANGED <<tempVolume, previous, exit, canceled, cloud, catalog, counters>>

saveError(t) ==
  /\ At(t, "saveError")
  /\ Save(t, WithStatus(ent[t], "error"))
  /\ Goto(t, "detachForCleaning")
  /\ UNCHANGED <<tempVolume, previous, exit, canceled, cloud, catalog, counters>>

\* Deviation: the cleaning is over once the volume is detached.
detachForCleaningOnly(t) ==
  /\ Moves(t, "detachForCleaning", "deleteFile")
  /\ volumes' = IF Detachable(tempVolume[t]) THEN Set(volumes, tempVolume[t], "available")
                                             ELSE volumes
  /\ UNCHANGED <<refused, snapshots, catalog>>

\* deleteTempVolume does nothing if execute knows of no volume that exists, and
\* detaches only a volume that is attached.
detachForCleaning(t) ==
  /\ \/ /\ ~Exists(tempVolume[t])
        /\ Moves(t, "detachForCleaning", "deleteFile")
        /\ UNCHANGED volumes
     \/ /\ Exists(tempVolume[t])
        /\ Moves(t, "detachForCleaning", "deleteSnapshotForCleaning")
        /\ volumes' = IF Detachable(tempVolume[t]) THEN Set(volumes, tempVolume[t], "available")
                                                 ELSE volumes
  /\ UNCHANGED <<refused, snapshots, catalog>>

\* The snapshot a volume was created from is the one of its task.
deleteSnapshotForCleaning(t) ==
  /\ Moves(t, "deleteSnapshotForCleaning", "deleteVolumeForCleaning")
  /\ snapshots' = Set(snapshots, ent[t].snapshot, "deleted")
  /\ UNCHANGED <<volumes, refused, catalog>>

deleteVolumeForCleaning(t) ==
  /\ Moves(t, "deleteVolumeForCleaning", "deleteFile")
  /\ Deletable(tempVolume[t])
  /\ volumes' = Set(volumes, tempVolume[t], "deleted")
  /\ UNCHANGED <<refused, snapshots, catalog>>

\* EC2 does not delete a volume that it still creates.  The exception skips the
\* rest of deleteTempResources, and is skipped itself.
deletionIsRefused(t) ==
  /\ Moves(t, "deleteVolumeForCleaning", "afterCleaning")
  /\ Creating(tempVolume[t])
  /\ refused' = refused \union {tempVolume[t]}
  /\ UNCHANGED <<volumes, snapshots, catalog>>

deleteFile(t) ==
  /\ Moves(t, "deleteFile", "afterCleaning")
  /\ file' = Set(file, t, "absent")
  /\ UNCHANGED <<cloud, backupList, snapshotTable>>

\* A failed task keeps its record; an interrupted one loses it, and gets it
\* back by the save of DONE unless the user canceled it.
afterCleaning(t) ==
  /\ At(t, "afterCleaning")
  /\ rec' = IF exit[t] = "failed" THEN rec ELSE Set(rec, t, NoRecord)
  /\ Goto(t, IF exit[t] = "canceled" THEN "idle" ELSE "done")
  /\ UNCHANGED <<ent, tempVolume, previous, exit, canceled, cloud, catalog, counters>>

-----------------------------------------------------------------------------
(* Failures, users, shutdowns and crashes                                  *)

Fails == failures < MaxFailures /\ failures' = failures + 1
         /\ UNCHANGED <<canceled, cloud, catalog, closing, crashes, shutdowns, cancels>>

\* Steps, or the waits before them, that call AWS and may get an exception.
CallsToAws == {"volumeExists", "createSnapshot", "checkCreating", "createVolume", "tagVolume",
               "waitForVolume", "attachVolume", "checkInitialized", "startCopy", "detachVolume",
               "deleteVolume", "deletePrevious", "applyRetention"}

awsFails(t) ==
  /\ pc[t] \in CallsToAws
  /\ Throws(t, "failed")
  /\ Fails

\* A failed cp looks like a context that is closing.
copyFails(t) ==
  /\ At(t, "copy")
  /\ Throws(t, "closing")
  /\ Fails

\* An exception while cleaning up skips the rest, the file included.
cleaningFails(t) ==
  /\ pc[t] \in {"detachForCleaning", "deleteVolumeForCleaning"}
  /\ LookupError(tempVolume[t])
  /\ Goto(t, "afterCleaning")
  /\ UNCHANGED <<rec, ent, tempVolume, previous, exit, canceled, cloud, catalog, closing,
                 crashes, shutdowns, cancels>>

\* EC2 has created a volume.  One that ends in error can be deleted like one
\* that is available; the wait for it then throws (awsFails).
volumeIsCreated(v) ==
  /\ volumes[v] = "creating"
  /\ volumes' = Set(volumes, v, "available")
  /\ UNCHANGED <<rec, ent, thread, canceled, refused, snapshots, catalog, counters>>

\* TaskServiceImpl.removeTask of a running task, which ends with a refresh of
\* the set.  Tasks that do not run, and the pause between the request's read
\* and its write, are in TaskDispatch.
cancel(t) ==
  /\ cancels < MaxCancels
  /\ rec[t].status = "running"
  /\ cancels' = cancels + 1
  /\ rec' = Set(rec, t, WithStatus(rec[t], "canceled"))
  /\ canceled' = {u \in Backups : u = t \/ rec[u].status = "canceled"}
  /\ UNCHANGED <<ent, thread, cloud, catalog, closing, crashes, shutdowns, failures>>

\* The set is rebuilt from the table, where a save may have undone the cancel.
updateCanceledTasks ==
  /\ canceled' = {t \in Backups : rec[t].status = "canceled"}
  /\ UNCHANGED <<rec, ent, thread, cloud, catalog, counters>>

\* WorkersDispatcher.destroy interrupts the threads.
destroy ==
  /\ ~closing
  /\ shutdowns < MaxShutdowns
  /\ closing' = TRUE
  /\ shutdowns' = shutdowns + 1
  /\ UNCHANGED <<rec, ent, thread, canceled, cloud, catalog, crashes, cancels, failures>>

\* The process ends and starts again: TaskServiceImpl.init marks what ran.
restart ==
  /\ \/ closing /\ UNCHANGED crashes
     \/ crashes < MaxCrashes /\ crashes' = crashes + 1
  /\ rec' = [t \in Backups |-> IF rec[t].status = "running"
                                 THEN WithStatus(rec[t], "partially_finished") ELSE rec[t]]
  /\ ent' = rec'
  /\ pc'         = [t \in Backups |-> "idle"]
  /\ tempVolume' = [t \in Backups |-> NoId]
  /\ previous'   = [t \in Backups |-> NoId]
  /\ exit'       = [t \in Backups |-> "none"]
  /\ canceled' = {}
  /\ closing' = FALSE
  /\ UNCHANGED <<cloud, catalog, shutdowns, cancels, failures>>

-----------------------------------------------------------------------------
Execute(t) ==
  \/ begin(t) \/ setProgress(t) \/ notInterrupted(t) \/ isCanceled(t) \/ isInterrupted(t)
  \/ volumeExists(t) \/ volumeIsGone(t)
  \/ createSnapshot(t) \/ saveSnapshotId(t) \/ createVolume(t) \/ saveVolumeId(t) \/ tagVolume(t)
  \/ waitForVolume(t) \/ attachVolume(t) \/ startCopy(t) \/ copy(t) \/ saveBackup(t)
  \/ detachVolume(t) \/ deleteVolume(t) \/ cannotDeleteVolume(t)
  \/ readPrevious(t) \/ deletePrevious(t) \/ deletePreviousEntry(t) \/ storeSnapshot(t)
  \/ complete(t) \/ applyRetention(t)
  \/ resumeDetach(t) \/ resumeDetachSkipped(t) \/ resumeDelete(t) \/ resumeDeleteFile(t)
  \/ saveError(t) \/ detachForCleaning(t) \/ deleteSnapshotForCleaning(t)
  \/ deleteVolumeForCleaning(t) \/ deletionIsRefused(t) \/ deleteFile(t) \/ afterCleaning(t)

Failure(t) == lookupFails(t) \/ awsFails(t) \/ copyFails(t) \/ cleaningFails(t)

Next ==
  \/ \E t \in Backups : submit(t) \/ Execute(t) \/ Failure(t) \/ cancel(t)
  \/ \E v \in VolumeIds : volumeIsCreated(v)
  \/ updateCanceledTasks
  \/ destroy
  \/ restart

Spec == Init /\ [][Next]_vars

\* The dispatcher and the threads go on, and AWS answers; a shutdown that was
\* begun ends.  Nothing is owed by users, by failures or by crashes.
Fairness ==
  /\ \A t \in Backups : WF_vars(submit(t)) /\ WF_vars(Execute(t))
  /\ \A v \in VolumeIds : WF_vars(volumeIsCreated(v))
  /\ WF_vars(closing /\ restart)

FairSpec == Spec /\ Fairness

-----------------------------------------------------------------------------
(* Properties                                                              *)

\* The type invariant: identifiers are known ones wherever a step uses them
\* without asking (execute passes them to EC2 as they are).
TypeOK ==
  /\ rec \in [Backups -> [status : Statuses, progress : Progresses,
                          volume : VolumeIds \union {NoId}, snapshot : SnapshotIds \union {NoId}]]
  /\ ent \in [Backups -> [status : Statuses, progress : Progresses,
                          volume : VolumeIds \union {NoId}, snapshot : SnapshotIds \union {NoId}]]
  /\ pc \in [Backups -> Pcs]
  /\ tempVolume \in [Backups -> VolumeIds \union {NoId}]
  /\ previous \in [Backups -> SnapshotIds \union {NoId}]
  /\ exit \in [Backups -> {"none", "canceled", "closing", "failed"}]
  /\ canceled \subseteq Backups
  /\ volumes \in [VolumeIds -> {"none", "creating", "available", "attached", "deleted"}]
  /\ refused \subseteq VolumeIds
  /\ snapshots \in [SnapshotIds -> {"none", "present", "deleted"}]
  /\ file \in [Backups -> {"absent", "partial", "whole"}]
  /\ backupList \subseteq Backups
  /\ snapshotTable \subseteq SnapshotIds
  /\ closing \in BOOLEAN
  /\ {crashes, shutdowns, cancels, failures} \subseteq Nat

\* Crash recovery: a task that reads complete after its thread has finished has
\* left a backup that can be restored: an entry in the list and its whole file.
CompleteIsRestorable ==
  \A t \in Backups :
    At(t, "idle") /\ rec[t].status = "complete" => t \in backupList /\ file[t] = "whole"

\* A backup that is listed once its thread has finished has its file.
ListedHasFile ==
  \A t \in Backups :
    At(t, "idle") /\ t \in backupList /\ rec[t].status # "partially_finished"
      => file[t] = "whole"

\* When the backup process is finished its temporary volume is removed
\* (ConfurationManagement.md:28), unless EC2 was still creating it when the
\* cleaning, begun by a cancel, asked for its deletion and went on without it.
FinishedLeavesNoVolume ==
  (\A t \in Backups : At(t, "idle") /\ rec[t].status \in {"absent", "complete", "error"})
    => \A v \in VolumeIds : Exists(v) => v \in refused

\* Progress from which a resumed backup goes on with its snapshot, and with its
\* temporary volume.
SnapshotProgresses ==
  {"WAITING_SNAPSHOT", "CREATING_TEMP_VOLUME", "WAITING_TEMP_VOLUME", "ATTACHING_VOLUME",
   "COPYING", "DETACHING_TEMP_VOLUME", "DELETING_TEMP_VOLUME", "CLEANING_TEMP_RESOURCES"}

VolumeProgresses == SnapshotProgresses \ {"WAITING_SNAPSHOT", "CREATING_TEMP_VOLUME"}

\* The record names what a resumed backup will ask EC2 for, whenever the node
\* stops: each identifier is saved before the progress that needs it.  The one
\* exception is in the code: a backup that was stopped before it had a volume
\* saves that it detaches (366) and deletes (375) one, and stopped again there
\* it will fail on the null (376).  It has not been copied yet: a backup that
\* is in the list never comes to that.
ResumeHasIds ==
  \A t \in Backups :
    /\ rec[t].progress \in SnapshotProgresses => rec[t].snapshot # NoId
    /\ rec[t].progress \in VolumeProgresses =>
         \/ rec[t].volume # NoId
         \/ /\ rec[t].progress \in {"DETACHING_TEMP_VOLUME", "DELETING_TEMP_VOLUME"}
            /\ t \notin backupList

\* A temporary volume is created from a snapshot that exists: nothing deletes
\* the snapshot of a backup, resumed or not, that still has to copy it.
SourceSnapshotExists ==
  \A t \in Backups : At(t, "createVolume") => snapshots[ent[t].snapshot] = "present"

\* No entry in the snapshot table names a snapshot that EC2 does not have,
\* except while the thread that deletes both is between the two.
NoDanglingSnapshot ==
  \A s \in snapshotTable :
    snapshots[s] = "present" \/ \E t \in Backups : At(t, "deletePreviousEntry") /\ previous[t] = s

\* SnapshotServiceImpl.java:31: there is always only one snapshot for a volume.
OneSnapshotPerVolume == Cardinality(snapshotTable) <= 1

Finished(t) == rec[t].status \in {"complete", "error", "absent"}

\* What the code leaves behind without finishing it: the record of a task that
\* was interrupted, or whose cp failed, removed and then saved again as running
\* with progress DONE (189-191), from which it is only saved again after every
\* restart; and, if the node has stopped, a task that it stopped before the
\* first save of execute, or whose lookup failed there (76), or that was
\* canceled and not noticed yet.
LeftRunning(t) ==
  /\ rec[t].progress = "DONE"
  /\ exit[t] = "closing" \/ (exit[t] = "none" /\ crashes + shutdowns # 0)

LeftBehind(t) ==
  LeftRunning(t) \/ (crashes + shutdowns # 0 /\ rec[t].status \in {"waiting", "canceled"})

\* Every backup that starts ends, however often it is stopped and resumed, and
\* its record then says how, complete or error, or is removed, but for the two
\* exceptions above.
BackupEnds ==
  \A t \in Backups : ~At(t, "idle") ~> At(t, "idle") /\ (Finished(t) \/ LeftBehind(t))
=============================================================================
