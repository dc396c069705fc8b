------------------------ MODULE BackupOutcomesProofs ------------------------
(***************************************************************************)
(* Proofs about what the backups of BackupExecutor leave behind, for any   *)
(* number of backups and identifiers.                                      *)
(*                                                                         *)
(* What execute promises depends on what happens to it, so most theorems   *)
(* name the faults under which the promise still holds.  TLC finds a       *)
(* counterexample with one crash for NoDanglingSnapshot, with one failure, *)
(* crash or shutdown for FinishedLeavesNoVolume, and with a second crash,  *)
(* a shutdown, or a cancel beside a crash for CompleteIsRestorable.        *)
(***************************************************************************)
EXTENDS BackupExecutorProofs

-----------------------------------------------------------------------------
(* Steps of one task                                                       *)

\* A step of the thread of t, of the dispatcher for t, or of a user's cancel.
StepOf(t) == submit(t) \/ Execute(t) \/ Failure(t) \/ cancel(t)

\* What a step of another task leaves alone.
Stays(u) ==
  /\ rec'[u] = rec[u] /\ ent'[u] = ent[u] /\ pc'[u] = pc[u]
  /\ tempVolume'[u] = tempVolume[u] /\ previous'[u] = previous[u] /\ exit'[u] = exit[u]
  /\ file'[u] = file[u] /\ (u \in backupList' <=> u \in backupList)

\* EC2 has created some volume.
VolumeComes == \E v \in VolumeIds : volumeIsCreated(v)

-----------------------------------------------------------------------------
(* FinishedLeavesNoVolume                                                  *)

\* Where execute still has to delete the volume it knows of.
Holding ==
  {"checkWaiting", "waitingTempVolume", "waitForVolume", "checkAttaching", "attachingVolume",
   "attachVolume", "checkInitialized", "copying", "checkCopying", "startCopy", "copy",
   "checkCopied", "saveBackup", "detachingTempVolume", "checkDetaching", "detachVolume",
   "deletingTempVolume", "deleteVolume", "interruptedCleaning", "failCleaning", "saveError",
   "detachForCleaning", "deleteSnapshotForCleaning", "deleteVolumeForCleaning"}

Holds(t, v) ==
  \/ pc[t] \in {"saveVolumeId", "tagVolume"} /\ ent[t].volume = v
  \/ pc[t] \in Holding /\ tempVolume[t] = v

\* A volume that exists is in the hands of a thread that will delete it, or one
\* asked EC2 to delete it too early.
VolumesHeld == \A v \in VolumeIds : Exists(v) => v \in refused \/ \E t \in Backups : Holds(t, v)

\* A context that is closing was told to.
ClosingIsCounted == closing => shutdowns # 0

-----------------------------------------------------------------------------
(* What a record and an entry say at each place of execute                 *)

CleaningUp ==
  {"saveError", "detachForCleaning", "deleteSnapshotForCleaning", "deleteVolumeForCleaning",
   "deleteFile", "afterCleaning"}

Completing ==
  {"readPrevious", "checkPrevious", "deletePrevious", "deletePreviousEntry", "storeSnapshot",
   "complete", "checkCompleted", "applyRetention"}

\* The progress p that is saved, or held, by a thread at a place.
Booked(here, p) ==
  /\ here \in {"createSnapshot", "saveSnapshotId"} => p = "CREATING_SNAPSHOT"
  /\ here \in {"createVolume", "saveVolumeId"} => p = "CREATING_TEMP_VOLUME"
  /\ here \in {"checkCopying", "startCopy", "copy", "checkCopied", "saveBackup"} => p = "COPYING"
  /\ here \in Completing => p = "CLEANING_TEMP_RESOURCES"
  /\ here \in CleaningUp => p \in {"INTERRUPTED_CLEANING", "FAIL_CLEANING"}

BooksOK == \A t \in Backups : Booked(pc[t], rec[t].progress) /\ Booked(pc[t], ent[t].progress)

-----------------------------------------------------------------------------
(* ResumeHasIds                                                            *)

\* Once a backup is listed, neither its record nor the entry of its thread
\* loses the identifier of a volume, unless the record is removed.
VolumeNamed(t) ==
  /\ rec[t].status = "absent" => rec[t].progress = "NONE"
  /\ pc[t] # "idle" => ent[t].status # "absent"
  /\ t \in backupList => /\ rec[t].status = "absent" \/ rec[t].volume # NoId
                         /\ pc[t] = "idle" \/ ent[t].volume # NoId

-----------------------------------------------------------------------------
(* CompleteIsRestorable                                                    *)

Restorable(t) == t \in backupList /\ file[t] = "whole"

\* After saveBackup.
PastCopy ==
  {"detachingTempVolume", "checkDetaching", "detachVolume", "deletingTempVolume",
   "deleteVolume", "cleaningTempResources"} \union Completing

\* A resumed backup throws away what was begun, and its record reads as if it
\* had been copied.
ThrowingAway == {"resumeDetach", "resumeDeleting", "resumeDelete", "resumeDeleteFile", "resumeCreating"}

LateProgresses == {"DETACHING_TEMP_VOLUME", "DELETING_TEMP_VOLUME", "CLEANING_TEMP_RESOURCES"}

\* Where a record or an entry may read complete.
MayReadComplete == {"checkCompleted", "applyRetention", "done", "failCleaning", "saveError"}

\* The thread has what its place, its record and its entry say it has.
CopyKept(t) ==
  /\ pc[t] \in {"checkCopied", "saveBackup"} => file[t] = "whole"
  /\ pc[t] \in PastCopy => Restorable(t)
  /\ "complete" \in {rec[t].status, ent[t].status} /\ pc[t] # "idle"
       => pc[t] \in MayReadComplete /\ Restorable(t)
  /\ rec[t].status = "complete" => Restorable(t)
  /\ rec[t].progress \in LateProgresses \/ ent[t].progress \in LateProgresses
       => pc[t] \in ThrowingAway \/ Restorable(t)

\* Before the first restart no backup resumes.
FirstRun(t) ==
  /\ pc[t] # "idle" => /\ rec[t].status \notin {"queued", "partially_finished"}
                       /\ ent[t].status \notin {"queued", "partially_finished"}
  /\ crashes = 0 /\ shutdowns = 0 =>
       /\ rec[t].status # "partially_finished"
       /\ rec[t].status = "queued" => rec[t].progress = "NONE"
       /\ pc[t] = "begin" => ent[t].progress = "NONE"
       /\ pc[t] \notin ThrowingAway \union {"resumeDetaching"}

\* A task is canceled only by a user.
NoCancels ==
  canceled = {} /\ \A t \in Backups : "canceled" \notin {rec[t].status, ent[t].status}

-----------------------------------------------------------------------------
(* SourceSnapshotExists                                                    *)

\* A snapshot a volume may be created from, and nothing will delete.
Usable(s) == s # NoId /\ snapshots[s] = "present" /\ s \notin snapshotTable

EarlyProgresses == {"CREATING_SNAPSHOT", "WAITING_SNAPSHOT"} \union RedoneProgresses

\* A record from which a volume may be created again.
SourceKept(e) ==
  /\ e.progress \in {"NONE", "STARTED"} => e.snapshot = NoId
  /\ e.progress \in EarlyProgresses /\ e.snapshot # NoId => Usable(e.snapshot)

BeforeSnapshot == {"volumeExists", "started", "checkStarted", "creatingSnapshot", "createSnapshot"}

\* From the snapshot to the save of COPYING, in the first run or a later one.
ToCopy ==
  {"saveSnapshotId", "waitingSnapshot", "checkCreating", "creatingTempVolume", "createVolume",
   "saveVolumeId", "tagVolume", "checkWaiting", "waitingTempVolume", "waitForVolume",
   "checkAttaching", "attachingVolume", "attachVolume", "checkInitialized", "copying",
   "resumeDetaching"}
  \union ThrowingAway

Sourced(t) ==
  /\ SourceKept(rec[t])
  /\ pc[t] = "begin" => SourceKept(ent[t])
  /\ pc[t] \in BeforeSnapshot => ent[t].snapshot = NoId
  /\ pc[t] \in ToCopy => Usable(ent[t].snapshot)

\* The snapshots a task knows of.
Names(t) == {rec[t].snapshot, ent[t].snapshot} \ {NoId}

\* No two tasks know of one snapshot, and what is known was created.
SnapshotsOwned ==
  /\ \A t, u \in Backups : t # u => Names(t) \intersect Names(u) = {}
  /\ \A t \in Backups : \A s \in Names(t) : snapshots[s] # "none"
  /\ \A s \in snapshotTable : snapshots[s] # "none"

-----------------------------------------------------------------------------
(* NoDanglingSnapshot                                                      *)

\* From the copy to the entry in the snapshot table.
ToStore ==
  ToCopy \union {"checkCopying", "startCopy", "copy", "checkCopied", "saveBackup",
   "detachingTempVolume", "checkDetaching", "detachVolume", "deletingTempVolume", "deleteVolume",
   "cleaningTempResources", "readPrevious", "checkPrevious", "deletePrevious",
   "deletePreviousEntry", "storeSnapshot"}

\* After the volume was deleted.
WithoutVolume == {"cleaningTempResources"} \union Completing

\* Until it is stored a snapshot is there; once it is, the volume is gone, so
\* that no cleaning will delete the snapshot.
StoreKept(t) ==
  /\ pc[t] \in ToStore => Usable(ent[t].snapshot)
  /\ pc[t] \in WithoutVolume => ~Exists(tempVolume[t])
  /\ ent[t].snapshot \in snapshotTable => pc[t] \in {"idle", "done"} \/ ~Exists(tempVolume[t])
  /\ pc[t] = "deleteSnapshotForCleaning" => ent[t].snapshot \notin snapshotTable

\* The volumes a task knows of: none is known to two tasks, and each was created.
KnownVolumes(t) == {ent[t].volume, rec[t].volume, tempVolume[t]} \ {NoId}

VolumesOwned ==
  /\ \A t, u \in Backups : t # u => KnownVolumes(t) \intersect KnownVolumes(u) = {}
  /\ \A t \in Backups : \A v \in KnownVolumes(t) : volumes[v] # "none"

TableOK ==
  /\ ~StoreSnapshot => snapshotTable = {}
  /\ NoDanglingSnapshot

-----------------------------------------------------------------------------
(* Frames                                                                  *)

\* A step of one task leaves the others' records, threads and files alone.
LEMMA OthersStay ==
  ASSUME IInv, NEW t \in Backups, NEW u \in Backups, u # t, StepOf(t)
  PROVE  Stays(u)
<1> USE DEF IInv, ControlOK, RestOK, Stays, thread, cloud, catalog, counters, Goto, Set, Save
<1>1. CASE submit(t) \/ begin(t) \/ setProgress(t) \/ notInterrupted(t) \/ cancel(t)
  BY <1>1 DEF submit, begin, setProgress, notInterrupted, Moves, cancel
<1>2. CASE isCanceled(t) \/ isInterrupted(t) \/ cannotDeleteVolume(t) \/ awsFails(t) \/ copyFails(t)
  BY <1>2 DEF isCanceled, isInterrupted, cannotDeleteVolume, awsFails, copyFails, Throws, Fails
<1>3. CASE \/ volumeExists(t) \/ volumeIsGone(t) \/ createSnapshot(t) \/ saveSnapshotId(t)
           \/ createVolume(t) \/ saveVolumeId(t) \/ tagVolume(t)
  BY <1>3 DEF volumeExists, volumeIsGone, createSnapshot, saveSnapshotId, createVolume,
              saveVolumeId, tagVolume, Moves
<1>4. CASE \/ waitForVolume(t) \/ attachVolume(t) \/ startCopy(t) \/ copy(t) \/ saveBackup(t)
           \/ detachVolume(t) \/ deleteVolume(t)
  BY <1>4 DEF waitForVolume, attachVolume, startCopy, copy, saveBackup, detachVolume,
     deleteVolume, Moves
<1>5. CASE \/ readPrevious(t) \/ deletePrevious(t) \/ deletePreviousEntry(t) \/ storeSnapshot(t)
           \/ complete(t) \/ applyRetention(t)
  BY <1>5 DEF readPrevious, deletePrevious, deletePreviousEntry, storeSnapshot, complete,
              applyRetention, Moves
<1>6. CASE resumeDetach(t) \/ resumeDetachSkipped(t) \/ resumeDelete(t) \/ resumeDeleteFile(t)
  BY <1>6 DEF resumeDetach, resumeDetachSkipped, resumeDelete, resumeDeleteFile, Resumes
<1>7. CASE \/ saveError(t) \/ detachForCleaning(t) \/ deleteSnapshotForCleaning(t)
           \/ deleteVolumeForCleaning(t) \/ deletionIsRefused(t) \/ deleteFile(t)
           \/ afterCleaning(t)
  BY <1>7 DEF saveError, detachForCleaning, deleteSnapshotForCleaning, deleteVolumeForCleaning,
              deletionIsRefused, deleteFile, afterCleaning, Moves
<1>8. CASE lookupFails(t) \/ cleaningFails(t)
  BY <1>8 DEF lookupFails, cleaningFails
<1>9. QED
  BY <1>1, <1>2, <1>3, <1>4, <1>5, <1>6, <1>7, <1>8 DEF StepOf, Execute, Failure

\* The counters never go down; a restart that is no crash ends a shutdown.
LEMMA CountersGrow ==
  ASSUME IInv, [Next]_vars
  PROVE  /\ crashes <= crashes' /\ shutdowns <= shutdowns'
         /\ cancels <= cancels' /\ failures <= failures'
         /\ \/ \E t \in Backups : StepOf(t)
            \/ VolumeComes \/ updateCanceledTasks \/ destroy \/ restart \/ UNCHANGED vars
<1>0. crashes \in Nat /\ shutdowns \in Nat /\ cancels \in Nat /\ failures \in Nat
  BY DEF IInv, RestOK
<1>1. CASE \E t \in Backups : submit(t) \/ Execute(t)
  <2> PICK t \in Backups : submit(t) \/ Execute(t)
    BY <1>1
  <2>1. /\ UNCHANGED <<crashes, shutdowns, cancels>>
        /\ failures' = failures \/ failures' = failures + 1
    BY DEF submit, Execute, begin, setProgress, notInterrupted, isCanceled, isInterrupted,
      volumeExists, volumeIsGone, createSnapshot, saveSnapshotId, createVolume, saveVolumeId,
      tagVolume, waitForVolume, attachVolume, startCopy, copy, saveBackup, detachVolume,
      deleteVolume, cannotDeleteVolume, readPrevious, deletePrevious, deletePreviousEntry,
      storeSnapshot, complete, applyRetention, resumeDetach, resumeDetachSkipped, resumeDelete,
      resumeDeleteFile, saveError, detachForCleaning, deleteSnapshotForCleaning,
      deleteVolumeForCleaning, deletionIsRefused, deleteFile, afterCleaning, Moves, Resumes,
      counters
  <2>2. QED
    BY <1>0, <2>1 DEF StepOf
<1>2. CASE \E t \in Backups : Failure(t)
  <2> PICK t \in Backups : Failure(t)
    BY <1>2
  <2>1. /\ UNCHANGED <<crashes, shutdowns, cancels>>
        /\ failures' = failures \/ failures' = failures + 1
    BY DEF Failure, lookupFails, awsFails, copyFails, cleaningFails, LookupError, Fails
  <2>2. QED
    BY <1>0, <2>1 DEF StepOf
<1>3. CASE \E t \in Backups : cancel(t)
  BY <1>0, <1>3 DEF cancel, StepOf
<1>4. CASE updateCanceledTasks \/ destroy \/ restart \/ UNCHANGED vars
  BY <1>0, <1>4 DEF updateCanceledTasks, destroy, restart, vars, counters
<1>5. CASE VolumeComes
  <2>1. UNCHANGED counters
    BY <1>5 DEF VolumeComes, volumeIsCreated
  <2>2. QED
    BY <1>0, <1>5, <2>1 DEF counters
<1>6. QED
  BY <1>1, <1>2, <1>3, <1>4, <1>5 DEF Next, VolumeComes

\* An orderly shutdown is counted before it ends.
LEMMA NextKeepsClosing == IInv /\ ClosingIsCounted /\ [Next]_vars => ClosingIsCounted'
<1> SUFFICES ASSUME IInv, ClosingIsCounted, [Next]_vars
             PROVE  ClosingIsCounted'
  OBVIOUS
<1>0. shutdowns \in Nat
  BY DEF IInv, RestOK
<1>1. CASE \E t \in Backups : StepOf(t)
  <2> PICK t \in Backups : StepOf(t)
    BY <1>1
  <2>1. UNCHANGED closing
    BY DEF StepOf, submit, Execute, begin, setProgress, notInterrupted, isCanceled, isInterrupted,
      volumeExists, volumeIsGone, createSnapshot, saveSnapshotId, createVolume, saveVolumeId,
      tagVolume, waitForVolume, attachVolume, startCopy, copy, saveBackup, detachVolume,
      deleteVolume, cannotDeleteVolume, readPrevious, deletePrevious, deletePreviousEntry,
      storeSnapshot, complete, applyRetention, resumeDetach, resumeDetachSkipped, resumeDelete,
      resumeDeleteFile, saveError, detachForCleaning, deleteSnapshotForCleaning,
      deleteVolumeForCleaning, deletionIsRefused, deleteFile, afterCleaning, Moves, Resumes,
      counters, Failure, lookupFails, awsFails, copyFails, cleaningFails, Fails, cancel
  <2>2. shutdowns <= shutdowns' /\ shutdowns' \in Nat
    BY CountersGrow, NextKeepsRest DEF IInv, RestOK
  <2>3. QED
    BY <1>0, <2>1, <2>2 DEF ClosingIsCounted
<1>2. CASE VolumeComes \/ updateCanceledTasks \/ destroy \/ restart \/ UNCHANGED vars
  <2>1. CASE destroy
    BY <1>0, <2>1 DEF destroy, ClosingIsCounted
  <2>2. CASE restart
    BY <2>2 DEF restart, ClosingIsCounted
  <2>3. CASE VolumeComes \/ updateCanceledTasks \/ UNCHANGED vars
    BY <2>3 DEF VolumeComes, volumeIsCreated, updateCanceledTasks, vars, counters,
       ClosingIsCounted
  <2>4. QED
    BY <1>2, <2>1, <2>2, <2>3
<1>3. QED
  BY <1>1, <1>2, CountersGrow

\* With no crash and no shutdown behind it, the node has not restarted.
LEMMA NotRestarted ==
  ASSUME IInv, ClosingIsCounted, [Next]_vars, crashes' = 0, shutdowns' = 0
  PROVE  crashes = 0 /\ shutdowns = 0 /\ ~restart /\ ~closing
<1>1. crashes \in Nat /\ shutdowns \in Nat
  BY DEF IInv, RestOK
<1>2. crashes = 0 /\ shutdowns = 0
  BY <1>1, CountersGrow
<1>3. ~closing
  BY <1>2 DEF ClosingIsCounted
<1>4. ~restart
  BY <1>1, <1>3, crashes' = 0 DEF restart
<1>5. QED
  BY <1>2, <1>3, <1>4

-----------------------------------------------------------------------------
(* FinishedLeavesNoVolume                                                  *)

\* Where the tables lead: out of Holding there is only deleteVolume.
LEMMA TablesHold ==
  /\ \A s \in DOMAIN ProgressSteps : s \in Holding <=> ProgressSteps[s][2] \in Holding
  /\ \A s \in DOMAIN ProgressSteps : s \notin {"saveVolumeId", "tagVolume"}
  /\ \A c \in DOMAIN CheckSteps : c \in Holding <=> CheckSteps[c] \in Holding
  /\ \A c \in DOMAIN CheckSteps : c \notin {"saveVolumeId", "tagVolume"}
BY ProgressNames, CheckNames DEF ProgressSteps, CheckSteps, Holding

\* A volume that exists after a step of t is in its hands, or exists already
\* and was not in its hands.
LEMMA StepHolds ==
  ASSUME IInv, NEW t \in Backups, NEW v \in VolumeIds, StepOf(t), failures' = failures, Exists(v)'
  PROVE  Holds(t, v)' \/ (Exists(v) /\ ~Holds(t, v)) \/ v \in refused'
<1> USE DEF IInv, ControlOK, RestOK, thread, cloud, catalog, counters, Goto, Set, Save, Exists,
            Holds, At
<1>1. CASE submit(t) \/ begin(t) \/ cancel(t) \/ lookupFails(t)
  BY <1>1 DEF submit, begin, cancel, lookupFails, Holding
<1>2. CASE setProgress(t)
  BY <1>2, TablesHold DEF setProgress, Holding
<1>3. CASE notInterrupted(t)
  BY <1>3, TablesHold DEF notInterrupted, Checks, Moves
<1>4. CASE isCanceled(t) \/ isInterrupted(t) \/ cannotDeleteVolume(t)
  BY <1>4, TablesHold DEF isCanceled, isInterrupted, cannotDeleteVolume, Throws, Holding, Checks
<1>5. CASE \/ volumeExists(t) \/ volumeIsGone(t) \/ createSnapshot(t) \/ saveSnapshotId(t)
  BY <1>5 DEF volumeExists, volumeIsGone, createSnapshot, saveSnapshotId, Moves, Holding
<1>6. CASE createVolume(t) \/ saveVolumeId(t) \/ tagVolume(t)
  BY <1>6 DEF createVolume, saveVolumeId, tagVolume, Holding, WithVolume, Entry
<1>7. CASE \/ waitForVolume(t) \/ attachVolume(t) \/ startCopy(t) \/ copy(t) \/ saveBackup(t)
           \/ detachVolume(t) \/ deleteVolume(t)
  BY <1>7 DEF waitForVolume, attachVolume, startCopy, copy, saveBackup, detachVolume,
     deleteVolume, Moves, Holding
<1>8. CASE \/ readPrevious(t) \/ deletePrevious(t) \/ deletePreviousEntry(t) \/ storeSnapshot(t)
           \/ complete(t) \/ applyRetention(t)
  BY <1>8 DEF readPrevious, deletePrevious, deletePreviousEntry, storeSnapshot, complete,
              applyRetention, Moves, Holding
<1>9. CASE resumeDetach(t) \/ resumeDetachSkipped(t) \/ resumeDelete(t) \/ resumeDeleteFile(t)
  BY <1>9 DEF resumeDetach, resumeDetachSkipped, resumeDelete, resumeDeleteFile, Resumes, Holding,
              Detachable
<1>10. CASE \/ saveError(t) \/ detachForCleaning(t) \/ deleteSnapshotForCleaning(t)
            \/ deleteVolumeForCleaning(t) \/ deletionIsRefused(t) \/ deleteFile(t)
            \/ afterCleaning(t)
  <2>1. CASE saveError(t) \/ deleteSnapshotForCleaning(t) \/ deleteFile(t) \/ afterCleaning(t)
    BY <2>1 DEF saveError, deleteSnapshotForCleaning, deleteFile, afterCleaning, Moves, Holding
  <2>2. CASE detachForCleaning(t)
    BY <2>2 DEF detachForCleaning, Detachable, Moves, Holding
  <2>3. CASE deleteVolumeForCleaning(t)
    BY <2>3 DEF deleteVolumeForCleaning, Deletable, Moves, Holding
  <2>4. CASE deletionIsRefused(t)
    BY <2>4 DEF deletionIsRefused, Moves
  <2>5. QED
    BY <1>10, <2>1, <2>2, <2>3, <2>4
<1>11. CASE awsFails(t) \/ copyFails(t)
  BY <1>11 DEF awsFails, copyFails, Fails
<1>12. CASE cleaningFails(t)
  BY <1>12 DEF cleaningFails, LookupError, Holding
<1>13. QED
  BY <1>1, <1>2, <1>3, <1>4, <1>5, <1>6, <1>7, <1>8, <1>9, <1>10, <1>11, <1>12
     DEF StepOf, Execute, Failure

\* A volume that comes to be available existed, and no other changes.
LEMMA ArrivalKeepsExisting ==
  ASSUME IInv, VolumeComes, NEW v
  PROVE  Exists(v)' <=> Exists(v)
<1> PICK w \in VolumeIds : volumeIsCreated(w)
  BY DEF VolumeComes
<1>1. volumes[w] = "creating" /\ volumes' = Set(volumes, w, "available")
  BY DEF volumeIsCreated
<1>2. volumes \in [VolumeIds -> {"none", "creating", "available", "attached", "deleted"}]
  BY DEF IInv, RestOK
<1>3. CASE v = w
  BY <1>1, <1>2, <1>3 DEF Exists, Set
<1>4. CASE v # w
  BY <1>1, <1>2, <1>4 DEF Exists, Set
<1>5. QED
  BY <1>3, <1>4

\* A refusal is not forgotten.
LEMMA RefusalsStay ==
  ASSUME [Next]_vars
  PROVE  refused \subseteq refused'
<1> USE DEF thread, cloud, catalog, counters
<1>1. CASE \E t \in Backups : submit(t) \/ Execute(t)
  <2> PICK t \in Backups : submit(t) \/ Execute(t)
    BY <1>1
  <2>1. CASE deletionIsRefused(t)
    BY <2>1 DEF deletionIsRefused
  <2>2. CASE ~deletionIsRefused(t)
    BY <2>2 DEF submit, Execute, begin, setProgress, notInterrupted, isCanceled, isInterrupted,
      volumeExists, volumeIsGone, createSnapshot, saveSnapshotId, createVolume, saveVolumeId,
      tagVolume, waitForVolume, attachVolume, startCopy, copy, saveBackup, detachVolume,
      deleteVolume, cannotDeleteVolume, readPrevious, deletePrevious, deletePreviousEntry,
      storeSnapshot, complete, applyRetention, resumeDetach, resumeDetachSkipped, resumeDelete,
      resumeDeleteFile, saveError, detachForCleaning, deleteSnapshotForCleaning,
      deleteVolumeForCleaning, deleteFile, afterCleaning
  <2>3. QED
    BY <2>1, <2>2
<1>2. CASE \E t \in Backups : Failure(t) \/ cancel(t)
  BY <1>2 DEF Failure, lookupFails, awsFails, copyFails, cleaningFails, Fails, cancel
<1>3. CASE VolumeComes \/ updateCanceledTasks \/ destroy \/ restart \/ UNCHANGED vars
  BY <1>3 DEF VolumeComes, volumeIsCreated, updateCanceledTasks, destroy, restart, vars
<1>4. QED
  BY <1>1, <1>2, <1>3 DEF Next, VolumeComes

\* With no fault behind them, threads hold every volume that exists.
UnlessFailed == crashes = 0 /\ shutdowns = 0 /\ failures = 0 => VolumesHeld

LEMMA NextHolds == IInv /\ ClosingIsCounted /\ UnlessFailed /\ [Next]_vars => UnlessFailed'
<1> SUFFICES ASSUME IInv, ClosingIsCounted, UnlessFailed, [Next]_vars,
                    crashes' = 0, shutdowns' = 0, failures' = 0,
                    NEW v \in VolumeIds, Exists(v)', v \notin refused'
             PROVE  \E t \in Backups : Holds(t, v)'
  BY DEF UnlessFailed, VolumesHeld
<1>1. failures = 0
  BY CountersGrow DEF IInv, RestOK
<1>2. crashes = 0 /\ shutdowns = 0 /\ ~restart
  BY NotRestarted
<1>3. Exists(v) => v \in refused \/ \E t \in Backups : Holds(t, v)
  BY <1>1, <1>2 DEF UnlessFailed, VolumesHeld
<1>0. v \notin refused
  BY RefusalsStay
<1>4. CASE \E t \in Backups : StepOf(t)
  <2> PICK t \in Backups : StepOf(t)
    BY <1>4
  <2>1. Holds(t, v)' \/ (Exists(v) /\ ~Holds(t, v))
    BY <1>1, StepHolds
  <2>2. CASE Exists(v) /\ ~Holds(t, v)
    <3>1. PICK u \in Backups : Holds(u, v)
      BY <1>0, <1>3, <2>2
    <3>2. Stays(u)
      BY <2>2, <3>1, OthersStay
    <3>3. Holds(u, v)'
      BY <3>1, <3>2 DEF Stays, Holds
    <3>4. QED
      BY <3>3
  <2>3. QED
    BY <2>1, <2>2
<1>5. CASE VolumeComes \/ updateCanceledTasks \/ destroy \/ UNCHANGED vars
  <2>1. UNCHANGED <<pc, ent, tempVolume>>
    BY <1>5 DEF VolumeComes, volumeIsCreated, updateCanceledTasks, destroy, vars, thread
  <2>2. Exists(v)
    BY <1>5, ArrivalKeepsExisting DEF updateCanceledTasks, destroy, vars, cloud, Exists
  <2>3. PICK u \in Backups : Holds(u, v)
    BY <1>0, <1>3, <2>2
  <2>4. Holds(u, v)'
    BY <2>1, <2>3 DEF Holds
  <2>5. QED
    BY <2>4
<1>6. QED
  BY <1>2, <1>4, <1>5, CountersGrow

\* ConfurationManagement.md:28, for any number of backups and of cancels at any
\* step: without a failure, a crash or a shutdown a finished backup leaves no
\* temporary volume but one whose deletion EC2 refused while creating it.
THEOREM NoVolumeIsLeft ==
  Spec => [](crashes = 0 /\ shutdowns = 0 /\ failures = 0 => FinishedLeavesNoVolume)
<1>1. Init => ClosingIsCounted /\ UnlessFailed
  BY DEF Init, ClosingIsCounted, UnlessFailed, VolumesHeld, Exists
<1>2. ClosingIsCounted /\ UnlessFailed /\ IInv /\ [Next]_vars => ClosingIsCounted' /\ UnlessFailed'
  BY NextKeepsClosing, NextHolds
<1>3. VolumesHeld => FinishedLeavesNoVolume
  BY DEF VolumesHeld, FinishedLeavesNoVolume, Holds, Holding, At
<1>4. UnlessFailed => (crashes = 0 /\ shutdowns = 0 /\ failures = 0 => FinishedLeavesNoVolume)
  BY <1>3 DEF UnlessFailed
<1>5. QED
  BY IInvHolds, <1>1, <1>2, <1>4, PTL DEF Spec

-----------------------------------------------------------------------------
(* The books: what is saved at each place                                  *)

\* What setProgress saves is what the next place has saved.
LEMMA ProgressBooked ==
  ASSUME NEW s \in DOMAIN ProgressSteps
  PROVE  Booked(ProgressSteps[s][2], ProgressSteps[s][1])
BY ProgressNames DEF ProgressSteps, Booked, Completing, CleaningUp

\* A check asks no other progress than its step did.
LEMMA CheckBooked ==
  ASSUME NEW c \in DOMAIN CheckSteps, NEW p, Booked(c, p)
  PROVE  Booked(CheckSteps[c], p)
BY CheckNames DEF CheckSteps, Booked, Completing, CleaningUp

\* A thread that starts has nothing to keep.
LEMMA FirstStepBooked ==
  ASSUME NEW e, NEW p
  PROVE  Booked(firstStep(e), p)
BY DEF firstStep, Booked, Completing, CleaningUp

\* A step of t keeps its books.
LEMMA StepBooked ==
  ASSUME IInv, BooksOK, NEW t \in Backups, StepOf(t)
  PROVE  Booked(pc'[t], rec'[t].progress) /\ Booked(pc'[t], ent'[t].progress)
<1>0. Booked(pc[t], rec[t].progress) /\ Booked(pc[t], ent[t].progress)
  BY DEF BooksOK
<1> USE DEF IInv, ControlOK, RestOK, thread, cloud, catalog, counters, Goto, Set, Save, At,
            WithStatus, WithProgress, WithVolume, WithSnapshot, Entry
<1>1. CASE submit(t) \/ cancel(t) \/ lookupFails(t)
  BY <1>1, <1>0 DEF submit, cancel, lookupFails, Booked, Completing, CleaningUp
<1>2. CASE begin(t)
  BY <1>2, <1>0, FirstStepBooked DEF begin
<1>3. CASE setProgress(t)
  BY <1>3, <1>0, ProgressBooked DEF setProgress
<1>4. CASE notInterrupted(t)
  BY <1>4, <1>0, CheckBooked, CheckNames DEF notInterrupted, Checks, Moves
<1>5. CASE isCanceled(t) \/ isInterrupted(t) \/ cannotDeleteVolume(t)
  BY <1>5, <1>0, CheckBooked, CheckNames DEF isCanceled, isInterrupted, cannotDeleteVolume,
     Throws, Checks, Booked, Completing, CleaningUp
<1>6. CASE volumeExists(t) \/ volumeIsGone(t) \/ createSnapshot(t) \/ saveSnapshotId(t)
  BY <1>6, <1>0 DEF volumeExists, volumeIsGone, createSnapshot, saveSnapshotId, Moves, Booked,
     Completing, CleaningUp
<1>7. CASE createVolume(t) \/ saveVolumeId(t) \/ tagVolume(t)
  BY <1>7, <1>0 DEF createVolume, saveVolumeId, tagVolume, Booked, Completing, CleaningUp
<1>8. CASE \/ waitForVolume(t) \/ attachVolume(t) \/ startCopy(t) \/ copy(t) \/ saveBackup(t)
           \/ detachVolume(t)
           \/ deleteVolume(t)
  BY <1>8, <1>0 DEF waitForVolume, attachVolume, startCopy, copy, saveBackup, detachVolume,
     deleteVolume, Moves, Booked, Completing, CleaningUp
<1>9. CASE \/ readPrevious(t) \/ deletePrevious(t) \/ deletePreviousEntry(t)
           \/ storeSnapshot(t) \/ complete(t) \/ applyRetention(t)
  BY <1>9, <1>0 DEF readPrevious, deletePrevious, deletePreviousEntry, storeSnapshot, complete,
     applyRetention, Moves, Booked, Completing, CleaningUp
<1>10. CASE \/ resumeDetach(t) \/ resumeDetachSkipped(t) \/ resumeDelete(t)
            \/ resumeDeleteFile(t)
  BY <1>10, <1>0 DEF resumeDetach, resumeDetachSkipped, resumeDelete, resumeDeleteFile, Resumes,
     Booked, Completing, CleaningUp
<1>11. CASE \/ saveError(t) \/ detachForCleaning(t) \/ deleteSnapshotForCleaning(t)
            \/ deleteVolumeForCleaning(t) \/ deletionIsRefused(t) \/ deleteFile(t)
            \/ afterCleaning(t)
  BY <1>11, <1>0 DEF saveError, detachForCleaning, deleteSnapshotForCleaning,
     deleteVolumeForCleaning, deletionIsRefused, deleteFile, afterCleaning, Moves, Booked,
     Completing, CleaningUp
<1>12. CASE awsFails(t) \/ copyFails(t)
  BY <1>12, <1>0 DEF awsFails, copyFails, Fails, Throws, CallsToAws, Booked, Completing,
     CleaningUp
<1>13. CASE cleaningFails(t)
  BY <1>13, <1>0 DEF cleaningFails, LookupError, Booked, Completing, CleaningUp
<1>14. QED
  BY <1>1, <1>2, <1>3, <1>4, <1>5, <1>6, <1>7, <1>8, <1>9, <1>10, <1>11, <1>12, <1>13
     DEF StepOf, Execute, Failure

\* Every step keeps the books.
LEMMA NextKeepsBooks == IInv /\ BooksOK /\ [Next]_vars => BooksOK'
<1> SUFFICES ASSUME IInv, BooksOK, [Next]_vars, NEW u \in Backups
             PROVE  Booked(pc[u], rec[u].progress)' /\ Booked(pc[u], ent[u].progress)'
  BY DEF BooksOK
<1>0. Booked(pc[u], rec[u].progress) /\ Booked(pc[u], ent[u].progress)
  BY DEF BooksOK
<1>1. CASE \E t \in Backups : StepOf(t)
  <2> PICK t \in Backups : StepOf(t)
    BY <1>1
  <2>1. CASE u = t
    BY <2>1, StepBooked
  <2>2. CASE u # t
    BY <1>0, <2>2, OthersStay DEF Stays
  <2>3. QED
    BY <2>1, <2>2
<1>2. CASE restart
  BY <1>2 DEF restart, Booked, Completing, CleaningUp
<1>3. CASE VolumeComes \/ updateCanceledTasks \/ destroy \/ UNCHANGED vars
  BY <1>0, <1>3 DEF VolumeComes, volumeIsCreated, updateCanceledTasks, destroy, vars, thread
<1>4. QED
  BY <1>1, <1>2, <1>3, CountersGrow

\* A step of t keeps it in its first run before the first restart.
LEMMA StepFirstRun ==
  ASSUME IInv, NEW t \in Backups, FirstRun(t), StepOf(t)
  PROVE  FirstRun(t)'
<1> USE DEF IInv, ControlOK, RestOK, thread, cloud, catalog, counters, Goto, Set, Save, At,
            WithStatus, WithProgress, WithVolume, WithSnapshot, Entry
<1>1. CASE submit(t) \/ cancel(t) \/ lookupFails(t)
  BY <1>1 DEF submit, cancel, lookupFails, FirstRun, ThrowingAway
<1>2. CASE begin(t)
  <2>1. /\ pc[t] = "begin" /\ pc'[t] = firstStep(ent[t])
        /\ rec'[t].status = "running" /\ ent'[t].status = "running" /\ UNCHANGED <<crashes, shutdowns>>
    BY <1>2 DEF begin
  <2>2. ent[t].progress = "NONE" => firstStep(ent[t]) = "volumeExists"
    BY DEF firstStep, RedoneProgresses
  <2>3. firstStep(ent[t]) # "begin"
    BY DEF firstStep
  <2>4. QED
    BY <2>1, <2>2, <2>3 DEF FirstRun, ThrowingAway
<1>3. CASE setProgress(t)
  BY <1>3, ProgressNames DEF setProgress, FirstRun, ThrowingAway, ProgressSteps
<1>4. CASE notInterrupted(t)
  BY <1>4, CheckNames DEF notInterrupted, Checks, Moves, FirstRun, ThrowingAway, CheckSteps
<1>5. CASE isCanceled(t) \/ isInterrupted(t) \/ cannotDeleteVolume(t)
  BY <1>5, CheckNames DEF isCanceled, isInterrupted, cannotDeleteVolume, Throws, Checks, FirstRun,
     ThrowingAway
<1>6. CASE volumeExists(t) \/ volumeIsGone(t) \/ createSnapshot(t) \/ saveSnapshotId(t)
  BY <1>6 DEF volumeExists, volumeIsGone, createSnapshot, saveSnapshotId, Moves, FirstRun,
     ThrowingAway, NoRecord
<1>7. CASE createVolume(t) \/ saveVolumeId(t) \/ tagVolume(t)
  BY <1>7 DEF createVolume, saveVolumeId, tagVolume, FirstRun, ThrowingAway
<1>8. CASE \/ waitForVolume(t) \/ attachVolume(t) \/ startCopy(t) \/ copy(t) \/ saveBackup(t)
           \/ detachVolume(t)
           \/ deleteVolume(t)
  BY <1>8 DEF waitForVolume, attachVolume, startCopy, copy, saveBackup, detachVolume,
     deleteVolume, Moves, FirstRun, ThrowingAway
<1>9. CASE \/ readPrevious(t) \/ deletePrevious(t) \/ deletePreviousEntry(t)
           \/ storeSnapshot(t) \/ complete(t) \/ applyRetention(t)
  BY <1>9 DEF readPrevious, deletePrevious, deletePreviousEntry, storeSnapshot, complete,
     applyRetention, Moves, FirstRun, ThrowingAway
<1>10. CASE \/ resumeDetach(t) \/ resumeDetachSkipped(t) \/ resumeDelete(t)
            \/ resumeDeleteFile(t)
  BY <1>10 DEF resumeDetach, resumeDetachSkipped, resumeDelete, resumeDeleteFile, Resumes,
     FirstRun, ThrowingAway
<1>11. CASE \/ saveError(t) \/ detachForCleaning(t) \/ deleteSnapshotForCleaning(t)
            \/ deleteVolumeForCleaning(t) \/ deletionIsRefused(t) \/ deleteFile(t)
            \/ afterCleaning(t)
  BY <1>11 DEF saveError, detachForCleaning, deleteSnapshotForCleaning, deleteVolumeForCleaning,
     deletionIsRefused, deleteFile, afterCleaning, Moves, FirstRun, ThrowingAway, NoRecord
<1>12. CASE awsFails(t) \/ copyFails(t)
  BY <1>12 DEF awsFails, copyFails, Fails, Throws, CallsToAws, FirstRun, ThrowingAway
<1>13. CASE cleaningFails(t)
  BY <1>13 DEF cleaningFails, LookupError, FirstRun, ThrowingAway
<1>14. QED
  BY <1>1, <1>2, <1>3, <1>4, <1>5, <1>6, <1>7, <1>8, <1>9, <1>10, <1>11, <1>12, <1>13
     DEF StepOf, Execute, Failure

\* Before the first restart every backup is in its first run.
LEMMA NextKeepsFirstRun ==
  IInv /\ ClosingIsCounted /\ (\A t \in Backups : FirstRun(t)) /\ [Next]_vars
    => (\A t \in Backups : FirstRun(t))'
<1> SUFFICES ASSUME IInv, ClosingIsCounted, \A t \in Backups : FirstRun(t), [Next]_vars,
                    NEW u \in Backups
             PROVE  FirstRun(u)'
  OBVIOUS
<1>1. CASE \E t \in Backups : StepOf(t)
  <2> PICK t \in Backups : StepOf(t)
    BY <1>1
  <2>1. CASE u = t
    BY <2>1, StepFirstRun
  <2>2. CASE u # t
    <3>1. Stays(u)
      BY <2>2, OthersStay
    <3>2. crashes' = 0 /\ shutdowns' = 0 => crashes = 0 /\ shutdowns = 0
      BY NotRestarted
    <3>3. QED
      BY <3>1, <3>2 DEF FirstRun, Stays
  <2>3. QED
    BY <2>1, <2>2
<1>2. CASE restart
  <2>1. pc'[u] = "idle"
    BY <1>2 DEF restart
  <2>2. ~(crashes' = 0 /\ shutdowns' = 0)
    BY <1>2, NotRestarted
  <2>3. QED
    BY <2>1, <2>2 DEF FirstRun
<1>3. CASE VolumeComes \/ updateCanceledTasks \/ destroy \/ UNCHANGED vars
  <2>1. UNCHANGED <<pc, rec, ent>>
    BY <1>3 DEF VolumeComes, volumeIsCreated, updateCanceledTasks, destroy, vars, thread
  <2>2. crashes' = 0 /\ shutdowns' = 0 => crashes = 0 /\ shutdowns = 0
    BY NotRestarted
  <2>3. QED
    BY <2>1, <2>2 DEF FirstRun
<1>4. QED
  BY <1>1, <1>2, <1>3, CountersGrow

-----------------------------------------------------------------------------
(* ResumeHasIds                                                            *)

\* A step of t keeps the volume of a backup that is listed in its copies.
LEMMA StepNamed ==
  ASSUME IInv, BooksOK, NEW t \in Backups, VolumeNamed(t), StepOf(t)
  PROVE  VolumeNamed(t)'
<1>0. /\ Booked(pc[t], rec[t].progress) /\ HasIds(rec[t])
      /\ Booked(pc[t], ent[t].progress) /\ HasIds(ent[t])
  BY DEF BooksOK, IInv, ControlOK
<1> USE DEF IInv, ControlOK, RestOK, thread, cloud, catalog, counters, Goto, Set, Save, At,
            WithStatus, WithProgress, WithVolume, WithSnapshot, Entry, VolumeNamed
<1>1. CASE submit(t) \/ cancel(t) \/ lookupFails(t) \/ begin(t)
  BY <1>1 DEF submit, cancel, lookupFails, begin
<1>2. CASE setProgress(t)
  BY <1>2, ProgressNames DEF setProgress
<1>3. CASE notInterrupted(t)
  BY <1>3, CheckNames DEF notInterrupted, Checks, Moves
<1>4. CASE isCanceled(t) \/ isInterrupted(t) \/ cannotDeleteVolume(t)
  BY <1>4, CheckNames DEF isCanceled, isInterrupted, cannotDeleteVolume, Throws, Checks
<1>5. CASE volumeExists(t) \/ volumeIsGone(t) \/ createSnapshot(t) \/ saveSnapshotId(t)
  BY <1>5 DEF volumeExists, volumeIsGone, createSnapshot, saveSnapshotId, Moves, NoRecord
<1>6. CASE createVolume(t) \/ saveVolumeId(t) \/ tagVolume(t)
  BY <1>6, NoIdAssumption DEF createVolume, saveVolumeId, tagVolume
<1>7. CASE saveBackup(t)
  BY <1>0, <1>7 DEF saveBackup, Moves, Booked, HasIds
<1>8. CASE \/ waitForVolume(t) \/ attachVolume(t) \/ startCopy(t) \/ copy(t) \/ detachVolume(t)
           \/ deleteVolume(t)
  BY <1>8 DEF waitForVolume, attachVolume, startCopy, copy, detachVolume, deleteVolume, Moves
<1>9. CASE \/ readPrevious(t) \/ deletePrevious(t) \/ deletePreviousEntry(t)
           \/ storeSnapshot(t) \/ complete(t) \/ applyRetention(t)
  BY <1>9 DEF readPrevious, deletePrevious, deletePreviousEntry, storeSnapshot, complete,
     applyRetention, Moves
<1>10. CASE \/ resumeDetach(t) \/ resumeDetachSkipped(t) \/ resumeDelete(t)
            \/ resumeDeleteFile(t)
  BY <1>10 DEF resumeDetach, resumeDetachSkipped, resumeDelete, resumeDeleteFile, Resumes
<1>11. CASE \/ saveError(t) \/ detachForCleaning(t) \/ deleteSnapshotForCleaning(t)
            \/ deleteVolumeForCleaning(t) \/ deletionIsRefused(t) \/ deleteFile(t)
            \/ afterCleaning(t)
  BY <1>11 DEF saveError, detachForCleaning, deleteSnapshotForCleaning, deleteVolumeForCleaning,
     deletionIsRefused, deleteFile, afterCleaning, Moves, NoRecord
<1>12. CASE awsFails(t) \/ copyFails(t)
  BY <1>12 DEF awsFails, copyFails, Fails, Throws, CallsToAws
<1>13. CASE cleaningFails(t)
  BY <1>13 DEF cleaningFails, LookupError
<1>14. QED
  BY <1>1, <1>2, <1>3, <1>4, <1>5, <1>6, <1>7, <1>8, <1>9, <1>10, <1>11, <1>12, <1>13
     DEF StepOf, Execute, Failure

\* Every step does, for every task.
LEMMA NextKeepsNames ==
  IInv /\ BooksOK /\ (\A t \in Backups : VolumeNamed(t)) /\ [Next]_vars
    => (\A t \in Backups : VolumeNamed(t))'
<1> SUFFICES ASSUME IInv, BooksOK, \A t \in Backups : VolumeNamed(t), [Next]_vars,
                    NEW u \in Backups
             PROVE  VolumeNamed(u)'
  OBVIOUS
<1>1. CASE \E t \in Backups : StepOf(t)
  <2> PICK t \in Backups : StepOf(t)
    BY <1>1
  <2>1. CASE u = t
    BY <2>1, StepNamed
  <2>2. CASE u # t
    BY <2>2, OthersStay DEF Stays, VolumeNamed
  <2>3. QED
    BY <2>1, <2>2
<1>2. CASE restart
  BY <1>2 DEF restart, VolumeNamed, WithStatus, Entry, catalog
<1>3. CASE VolumeComes \/ updateCanceledTasks \/ destroy \/ UNCHANGED vars
  BY <1>3 DEF VolumeComes, volumeIsCreated, updateCanceledTasks, destroy, vars, thread, catalog,
     VolumeNamed
<1>4. QED
  BY <1>1, <1>2, <1>3, CountersGrow

\* Crash recovery, for any number of crashes and shutdowns at any step: the
\* record names the snapshot and the volume that its progress needs, but for
\* the volume of a backup that is not listed yet and reads DETACHING_ or
\* DELETING_TEMP_VOLUME, which a resumed backup saves though it may have none.
THEOREM ResumeFindsIds == Spec => []ResumeHasIds
<1> DEFINE Inv == BooksOK /\ \A t \in Backups : VolumeNamed(t)
<1>1. Init => Inv
  BY DEF Init, BooksOK, Booked, Completing, CleaningUp, VolumeNamed, Entry
<1>2. Inv /\ IInv /\ [Next]_vars => Inv'
  BY NextKeepsBooks, NextKeepsNames
<1>3. Inv /\ IInv => ResumeHasIds
  <2> SUFFICES ASSUME Inv, IInv, NEW t \in Backups
               PROVE  /\ rec[t].progress \in SnapshotProgresses => rec[t].snapshot # NoId
                      /\ rec[t].progress \in VolumeProgresses =>
                           \/ rec[t].volume # NoId
                           \/ /\ rec[t].progress \in {"DETACHING_TEMP_VOLUME",
                                                       "DELETING_TEMP_VOLUME"}
                              /\ t \notin backupList
    BY DEF ResumeHasIds
  <2>1. HasIds(rec[t]) /\ VolumeNamed(t)
    BY DEF IInv, ControlOK
  <2>2. QED
    BY <2>1 DEF HasIds, SnapshotProgresses, VolumeProgresses, VolumeNamed
<1>4. QED
  BY IInvHolds, <1>1, <1>2, <1>3, PTL DEF Spec

-----------------------------------------------------------------------------
(* CompleteIsRestorable                                                    *)

\* What setProgress saves is late only past the copy.
LEMMA ProgressLate ==
  ASSUME NEW s \in DOMAIN ProgressSteps
  PROVE  /\ ProgressSteps[s][1] \in LateProgresses
              => s \in PastCopy \/ ProgressSteps[s][2] \in ThrowingAway
         /\ ProgressSteps[s][2] \in PastCopy => s \in PastCopy
         /\ s \in ThrowingAway => ProgressSteps[s][2] \in ThrowingAway \/ ProgressSteps[s][1] \notin LateProgresses
         /\ ProgressSteps[s][2] \notin {"checkCopied", "saveBackup"} /\ s # "idle"
         /\ s \in MayReadComplete => ProgressSteps[s][2] \in MayReadComplete \union {"idle"}
BY ProgressNames DEF ProgressSteps, LateProgresses, PastCopy, Completing, ThrowingAway,
                     MayReadComplete

\* A check leads past the copy only from there.
LEMMA CheckLate ==
  ASSUME NEW c \in DOMAIN CheckSteps
  PROVE  /\ CheckSteps[c] \in PastCopy => c \in PastCopy
         /\ CheckSteps[c] \in {"checkCopied", "saveBackup"} => c = "checkCopied"
         /\ c \notin ThrowingAway \union {"idle"}
         /\ c \in MayReadComplete => CheckSteps[c] \in MayReadComplete
BY CheckNames DEF CheckSteps, PastCopy, Completing, ThrowingAway, MayReadComplete

\* A resumed backup goes past the copy only from what was saved there.
LEMMA FirstStepLate ==
  ASSUME NEW e
  PROVE  /\ firstStep(e) \in PastCopy => e.progress \in LateProgresses
         /\ firstStep(e) \notin {"checkCopied", "saveBackup", "idle"}
BY DEF firstStep, PastCopy, Completing, LateProgresses

Undisturbed == closing = FALSE /\ canceled = {}

\* A step of t that is not canceled keeps what it has.
LEMMA StepCopyKept ==
  ASSUME IInv, NEW t \in Backups, BooksOK, CopyKept(t), Undisturbed,
         submit(t) \/ Execute(t) \/ Failure(t)
  PROVE  CopyKept(t)'
<1>0. Booked(pc[t], rec[t].progress) /\ Booked(pc[t], ent[t].progress)
  BY DEF BooksOK
<1> USE DEF IInv, ControlOK, RestOK, thread, cloud, catalog, counters, Goto, Set, Save, At,
            WithStatus, WithProgress, WithVolume, WithSnapshot, Entry, Undisturbed, Restorable
<1>1. CASE submit(t) \/ lookupFails(t)
  BY <1>1 DEF submit, lookupFails, CopyKept, PastCopy, Completing, LateProgresses,
     MayReadComplete, ThrowingAway
<1>2. CASE begin(t)
  BY <1>2, FirstStepLate DEF begin, CopyKept, MayReadComplete, ThrowingAway
<1>3. CASE setProgress(t)
  BY <1>3, ProgressLate DEF setProgress, CopyKept
<1>4. CASE notInterrupted(t)
  BY <1>4, CheckLate DEF notInterrupted, Checks, Moves, CopyKept
<1>5. CASE isCanceled(t) \/ isInterrupted(t) \/ cannotDeleteVolume(t)
  BY <1>5, CheckLate DEF isCanceled, isInterrupted, cannotDeleteVolume, Throws, Checks, CopyKept,
     PastCopy, Completing, LateProgresses, MayReadComplete, ThrowingAway
<1>6. CASE volumeExists(t) \/ volumeIsGone(t) \/ createSnapshot(t) \/ saveSnapshotId(t)
  BY <1>6 DEF volumeExists, volumeIsGone, createSnapshot, saveSnapshotId, Moves, CopyKept,
     PastCopy, Completing, LateProgresses, MayReadComplete, ThrowingAway, NoRecord
<1>7. CASE createVolume(t) \/ saveVolumeId(t) \/ tagVolume(t)
  BY <1>7 DEF createVolume, saveVolumeId, tagVolume, CopyKept, PastCopy, Completing,
     LateProgresses, MayReadComplete, ThrowingAway
<1>8. CASE \/ waitForVolume(t) \/ attachVolume(t) \/ startCopy(t) \/ copy(t) \/ saveBackup(t)
           \/ detachVolume(t)
           \/ deleteVolume(t)
  BY <1>8, <1>0 DEF waitForVolume, attachVolume, startCopy, copy, saveBackup, detachVolume,
     deleteVolume, Moves, CopyKept, PastCopy, Completing, LateProgresses, MayReadComplete,
     ThrowingAway, Booked
<1>9. CASE \/ readPrevious(t) \/ deletePrevious(t) \/ deletePreviousEntry(t)
           \/ storeSnapshot(t) \/ complete(t) \/ applyRetention(t)
  BY <1>9 DEF readPrevious, deletePrevious, deletePreviousEntry, storeSnapshot, complete,
     applyRetention, Moves, CopyKept, PastCopy, Completing, LateProgresses, MayReadComplete,
     ThrowingAway
<1>10. CASE \/ resumeDetach(t) \/ resumeDetachSkipped(t) \/ resumeDelete(t)
            \/ resumeDeleteFile(t)
  BY <1>10 DEF resumeDetach, resumeDetachSkipped, resumeDelete, resumeDeleteFile, Resumes,
     CopyKept, PastCopy, Completing, LateProgresses, MayReadComplete, ThrowingAway
<1>11. CASE \/ saveError(t) \/ detachForCleaning(t) \/ deleteSnapshotForCleaning(t)
            \/ deleteVolumeForCleaning(t) \/ deletionIsRefused(t) \/ deleteFile(t)
            \/ afterCleaning(t)
  BY <1>11, <1>0 DEF saveError, detachForCleaning, deleteSnapshotForCleaning,
     deleteVolumeForCleaning, deletionIsRefused, deleteFile, afterCleaning, Moves, CopyKept,
     PastCopy, Completing, LateProgresses, MayReadComplete, ThrowingAway, NoRecord, Booked,
     CleaningUp
<1>12. CASE awsFails(t) \/ copyFails(t)
  BY <1>12 DEF awsFails, copyFails, Fails, Throws, CallsToAws, CopyKept, PastCopy, Completing,
     LateProgresses, MayReadComplete, ThrowingAway, Checks
<1>13. CASE cleaningFails(t)
  BY <1>13 DEF cleaningFails, LookupError, CopyKept, PastCopy, Completing, LateProgresses,
     MayReadComplete, ThrowingAway
<1>14. QED
  BY <1>1, <1>2, <1>3, <1>4, <1>5, <1>6, <1>7, <1>8, <1>9, <1>10, <1>11, <1>12, <1>13
     DEF Execute, Failure

\* No step of a thread cancels a task.
LEMMA StepCancelsNone ==
  ASSUME IInv, NEW t \in Backups, NoCancels, submit(t) \/ Execute(t) \/ Failure(t)
  PROVE  canceled' = {} /\ rec'[t].status # "canceled" /\ ent'[t].status # "canceled"
<1> USE DEF IInv, ControlOK, RestOK, thread, cloud, catalog, counters, Goto, Set, Save, At,
            WithStatus, WithProgress, WithVolume, WithSnapshot, Entry, NoCancels
<1>1. CASE submit(t) \/ lookupFails(t)
  BY <1>1 DEF submit, lookupFails
<1>2. CASE begin(t)
  BY <1>2 DEF begin
<1>3. CASE setProgress(t)
  BY <1>3 DEF setProgress
<1>4. CASE notInterrupted(t)
  BY <1>4 DEF notInterrupted, Checks, Moves
<1>5. CASE isCanceled(t) \/ isInterrupted(t) \/ cannotDeleteVolume(t)
  BY <1>5 DEF isCanceled, isInterrupted, cannotDeleteVolume, Throws, Checks
<1>6. CASE volumeExists(t) \/ volumeIsGone(t) \/ createSnapshot(t) \/ saveSnapshotId(t)
  BY <1>6 DEF volumeExists, volumeIsGone, createSnapshot, saveSnapshotId, Moves, NoRecord
<1>7. CASE createVolume(t) \/ saveVolumeId(t) \/ tagVolume(t)
  BY <1>7 DEF createVolume, saveVolumeId, tagVolume
<1>8. CASE \/ waitForVolume(t) \/ attachVolume(t) \/ startCopy(t) \/ copy(t) \/ saveBackup(t)
           \/ detachVolume(t)
           \/ deleteVolume(t)
  BY <1>8 DEF waitForVolume, attachVolume, startCopy, copy, saveBackup, detachVolume,
     deleteVolume, Moves
<1>9. CASE \/ readPrevious(t) \/ deletePrevious(t) \/ deletePreviousEntry(t)
           \/ storeSnapshot(t) \/ complete(t) \/ applyRetention(t)
  BY <1>9 DEF readPrevious, deletePrevious, deletePreviousEntry, storeSnapshot, complete,
     applyRetention, Moves
<1>10. CASE \/ resumeDetach(t) \/ resumeDetachSkipped(t) \/ resumeDelete(t)
            \/ resumeDeleteFile(t)
  BY <1>10 DEF resumeDetach, resumeDetachSkipped, resumeDelete, resumeDeleteFile, Resumes
<1>11. CASE \/ saveError(t) \/ detachForCleaning(t) \/ deleteSnapshotForCleaning(t)
            \/ deleteVolumeForCleaning(t) \/ deletionIsRefused(t) \/ deleteFile(t)
            \/ afterCleaning(t)
  BY <1>11 DEF saveError, detachForCleaning, deleteSnapshotForCleaning, deleteVolumeForCleaning,
     deletionIsRefused, deleteFile, afterCleaning, Moves, NoRecord
<1>12. CASE awsFails(t) \/ copyFails(t)
  BY <1>12 DEF awsFails, copyFails, Fails, Throws, CallsToAws
<1>13. CASE cleaningFails(t)
  BY <1>13 DEF cleaningFails, LookupError
<1>14. QED
  BY <1>1, <1>2, <1>3, <1>4, <1>5, <1>6, <1>7, <1>8, <1>9, <1>10, <1>11, <1>12, <1>13
     DEF Execute, Failure

\* With at most one crash behind it, and nothing else, a backup has what its
\* place, its record and its entry say.
UnlessCrashedTwice ==
  crashes <= 1 /\ shutdowns = 0 /\ cancels = 0 => NoCancels /\ \A t \in Backups : CopyKept(t)

\* A restart after the first run: nothing that is resumed was thrown away.
LEMMA RestartKeepsCopies ==
  ASSUME IInv, ClosingIsCounted, \A t \in Backups : FirstRun(t), UnlessCrashedTwice, restart,
         crashes' <= 1, shutdowns' = 0, cancels' = 0
  PROVE  NoCancels' /\ (\A t \in Backups : CopyKept(t))'
<1>1. crashes = 0 /\ shutdowns = 0 /\ cancels = 0 /\ cancels \in Nat
  <2>1. crashes \in Nat /\ UNCHANGED <<shutdowns, cancels>> /\ cancels \in Nat
    BY DEF IInv, RestOK, restart
  <2>2. ~closing
    BY <2>1 DEF ClosingIsCounted
  <2>3. crashes' = crashes + 1
    BY <2>2 DEF restart
  <2>4. QED
    BY <2>1, <2>3
<1>2. NoCancels /\ \A t \in Backups : CopyKept(t)
  BY <1>1 DEF UnlessCrashedTwice
<1>3. ASSUME NEW t \in Backups
      PROVE  /\ pc'[t] = "idle" /\ ent'[t] = rec'[t] /\ rec'[t].progress = rec[t].progress
             /\ rec'[t].status \in {rec[t].status, "partially_finished"}
             /\ file'[t] = file[t] /\ backupList' = backupList
  BY DEF restart, IInv, ControlOK, WithStatus, Entry, catalog
<1>4. NoCancels'
  BY <1>2, <1>3 DEF NoCancels, restart
<1>5. ASSUME NEW t \in Backups
      PROVE  CopyKept(t)'
  <2>1. CopyKept(t) /\ pc[t] \notin ThrowingAway
    BY <1>1, <1>2 DEF FirstRun
  <2>2. Restorable(t)' <=> Restorable(t)
    BY <1>3 DEF Restorable
  <2>3. pc'[t] \notin PastCopy \union {"checkCopied", "saveBackup"}
    BY <1>3 DEF PastCopy, Completing
  <2>4. QED
    BY <1>3, <2>1, <2>2, <2>3 DEF CopyKept
<1>6. QED
  BY <1>4, <1>5

LEMMA NextKeepsCopies ==
  IInv /\ ClosingIsCounted /\ BooksOK /\ (\A t \in Backups : FirstRun(t)) /\ UnlessCrashedTwice
    /\ [Next]_vars => UnlessCrashedTwice'
<1> SUFFICES ASSUME IInv, ClosingIsCounted, BooksOK, \A t \in Backups : FirstRun(t),
                    UnlessCrashedTwice, [Next]_vars,
                    crashes' <= 1, shutdowns' = 0, cancels' = 0
             PROVE  NoCancels' /\ (\A t \in Backups : CopyKept(t))'
  BY DEF UnlessCrashedTwice
<1>1. crashes \in Nat /\ shutdowns \in Nat /\ cancels \in Nat /\ crashes' \in Nat
  BY NextKeepsRest DEF IInv, RestOK
<1>2. crashes <= 1 /\ shutdowns = 0 /\ cancels = 0
  BY <1>1, CountersGrow
<1>3. NoCancels /\ \A t \in Backups : CopyKept(t)
  BY <1>2 DEF UnlessCrashedTwice
<1>4. Undisturbed
  BY <1>2, <1>3 DEF ClosingIsCounted, NoCancels, Undisturbed, IInv, RestOK
<1>5. CASE \E t \in Backups : StepOf(t)
  <2> PICK t \in Backups : StepOf(t)
    BY <1>5
  <2>1. ~cancel(t)
    BY <1>2 DEF cancel
  <2>2. submit(t) \/ Execute(t) \/ Failure(t)
    BY <2>1 DEF StepOf
  <2>3. CopyKept(t)' /\ canceled' = {} /\ rec'[t].status # "canceled" /\ ent'[t].status # "canceled"
    BY <1>3, <1>4, <2>2, StepCopyKept, StepCancelsNone
  <2>4. ASSUME NEW u \in Backups, u # t
        PROVE  CopyKept(u)' /\ rec'[u].status # "canceled" /\ ent'[u].status # "canceled"
    <3>1. Stays(u)
      BY <2>4, OthersStay
    <3>2. CopyKept(u) /\ rec[u].status # "canceled" /\ ent[u].status # "canceled"
      BY <1>3 DEF NoCancels
    <3>3. QED
      BY <3>1, <3>2 DEF Stays, CopyKept, Restorable
  <2>5. QED
    BY <2>3, <2>4 DEF NoCancels
<1>6. CASE restart
  BY <1>6, RestartKeepsCopies
<1>7. CASE VolumeComes \/ updateCanceledTasks \/ destroy \/ UNCHANGED vars
  <2>1. UNCHANGED <<pc, rec, ent, file, backupList>>
    BY <1>7 DEF VolumeComes, volumeIsCreated, updateCanceledTasks, destroy, vars, thread, catalog
  <2>2. canceled' = {}
    BY <1>3, <1>7 DEF VolumeComes, volumeIsCreated, updateCanceledTasks, destroy, vars, NoCancels
  <2>3. QED
    BY <1>3, <2>1, <2>2 DEF NoCancels, CopyKept, Restorable
<1>8. QED
  BY <1>5, <1>6, <1>7, CountersGrow

\* Crash recovery, for any number of backups, a crash at any step and any number
\* of failures: a task that reads complete has left a backup that can be
\* restored.  BackupRecovers checks one crash; a second crash in the run that
\* resumes takes a copy that was thrown away for a finished one.
THEOREM CompleteCanBeRestored ==
  Spec => [](crashes <= 1 /\ shutdowns = 0 /\ cancels = 0 => CompleteIsRestorable)
<1> DEFINE Inv == ClosingIsCounted /\ BooksOK /\ (\A t \in Backups : FirstRun(t))
                  /\ UnlessCrashedTwice
<1>1. Init => Inv
  BY DEF Init, ClosingIsCounted, BooksOK, Booked, Completing, CleaningUp, FirstRun, ThrowingAway,
         UnlessCrashedTwice, NoCancels, CopyKept, PastCopy, LateProgresses, Entry
<1>2. Inv /\ IInv /\ [Next]_vars => Inv'
  BY NextKeepsClosing, NextKeepsBooks, NextKeepsFirstRun, NextKeepsCopies
<1>3. Inv => (crashes <= 1 /\ shutdowns = 0 /\ cancels = 0 => CompleteIsRestorable)
  BY DEF UnlessCrashedTwice, CopyKept, CompleteIsRestorable, Restorable
<1>4. QED
  BY IInvHolds, <1>1, <1>2, <1>3, PTL DEF Spec

-----------------------------------------------------------------------------
(* SourceSnapshotExists                                                    *)

\* What a step of t does to the snapshots: those that are usable stay so, but
\* for its own where it stores or deletes it.
LEMMA UsableStays ==
  ASSUME IInv, NEW t \in Backups, StepOf(t), NEW s \in SnapshotIds, Usable(s),
         pc[t] \in {"storeSnapshot", "deleteSnapshotForCleaning"} => s # ent[t].snapshot
  PROVE  Usable(s)'
<1> USE DEF IInv, ControlOK, RestOK, thread, cloud, catalog, counters, Set, At
<1>1. CASE submit(t) \/ cancel(t) \/ lookupFails(t)
  BY <1>1 DEF submit, cancel, lookupFails, Usable
<1>2. CASE begin(t)
  BY <1>2 DEF begin, Usable
<1>3. CASE setProgress(t)
  BY <1>3 DEF setProgress, Usable
<1>4. CASE notInterrupted(t)
  BY <1>4 DEF notInterrupted, Checks, Moves, Usable
<1>5. CASE isCanceled(t) \/ isInterrupted(t) \/ cannotDeleteVolume(t)
  BY <1>5 DEF isCanceled, isInterrupted, cannotDeleteVolume, Throws, Checks, Usable
<1>6. CASE volumeExists(t) \/ volumeIsGone(t) \/ createSnapshot(t) \/ saveSnapshotId(t)
  BY <1>6 DEF volumeExists, volumeIsGone, createSnapshot, saveSnapshotId, Moves, Usable
<1>7. CASE createVolume(t) \/ saveVolumeId(t) \/ tagVolume(t)
  BY <1>7 DEF createVolume, saveVolumeId, tagVolume, Usable
<1>8. CASE \/ waitForVolume(t) \/ attachVolume(t) \/ startCopy(t) \/ copy(t) \/ saveBackup(t)
           \/ detachVolume(t)
           \/ deleteVolume(t)
  BY <1>8 DEF waitForVolume, attachVolume, startCopy, copy, saveBackup, detachVolume,
     deleteVolume, Moves, Usable
<1>9. CASE \/ readPrevious(t) \/ deletePrevious(t) \/ deletePreviousEntry(t)
           \/ storeSnapshot(t) \/ complete(t) \/ applyRetention(t)
  BY <1>9 DEF readPrevious, deletePrevious, deletePreviousEntry, storeSnapshot, complete,
     applyRetention, Moves, Usable
<1>10. CASE \/ resumeDetach(t) \/ resumeDetachSkipped(t) \/ resumeDelete(t)
            \/ resumeDeleteFile(t)
  BY <1>10 DEF resumeDetach, resumeDetachSkipped, resumeDelete, resumeDeleteFile, Resumes, Usable
<1>11. CASE \/ saveError(t) \/ detachForCleaning(t) \/ deleteSnapshotForCleaning(t)
            \/ deleteVolumeForCleaning(t) \/ deletionIsRefused(t) \/ deleteFile(t)
            \/ afterCleaning(t)
  BY <1>11 DEF saveError, detachForCleaning, deleteSnapshotForCleaning, deleteVolumeForCleaning,
     deletionIsRefused, deleteFile, afterCleaning, Moves, Usable
<1>12. CASE awsFails(t) \/ copyFails(t)
  BY <1>12 DEF awsFails, copyFails, Fails, Throws, CallsToAws, Usable
<1>13. CASE cleaningFails(t)
  BY <1>13 DEF cleaningFails, LookupError, Usable
<1>14. QED
  BY <1>1, <1>2, <1>3, <1>4, <1>5, <1>6, <1>7, <1>8, <1>9, <1>10, <1>11, <1>12, <1>13
     DEF StepOf, Execute, Failure

\* Snapshots are created once, and the table takes the one of the thread.
LEMMA SnapshotsGrow ==
  ASSUME IInv, NEW t \in Backups, StepOf(t)
  PROVE  /\ \A s \in SnapshotIds : snapshots[s] # "none" => snapshots'[s] # "none"
         /\ snapshotTable' \subseteq snapshotTable \union {ent[t].snapshot}
<1> USE DEF IInv, ControlOK, RestOK, thread, cloud, catalog, counters, Set, At
<1>1. CASE submit(t) \/ cancel(t) \/ lookupFails(t)
  BY <1>1 DEF submit, cancel, lookupFails
<1>2. CASE begin(t)
  BY <1>2 DEF begin
<1>3. CASE setProgress(t)
  BY <1>3 DEF setProgress
<1>4. CASE notInterrupted(t)
  BY <1>4 DEF notInterrupted, Checks, Moves
<1>5. CASE isCanceled(t) \/ isInterrupted(t) \/ cannotDeleteVolume(t)
  BY <1>5 DEF isCanceled, isInterrupted, cannotDeleteVolume, Throws, Checks
<1>6. CASE volumeExists(t) \/ volumeIsGone(t) \/ createSnapshot(t) \/ saveSnapshotId(t)
  BY <1>6 DEF volumeExists, volumeIsGone, createSnapshot, saveSnapshotId, Moves
<1>7. CASE createVolume(t) \/ saveVolumeId(t) \/ tagVolume(t)
  BY <1>7 DEF createVolume, saveVolumeId, tagVolume
<1>8. CASE \/ waitForVolume(t) \/ attachVolume(t) \/ startCopy(t) \/ copy(t) \/ saveBackup(t)
           \/ detachVolume(t)
           \/ deleteVolume(t)
  BY <1>8 DEF waitForVolume, attachVolume, startCopy, copy, saveBackup, detachVolume,
     deleteVolume, Moves
<1>9. CASE \/ readPrevious(t) \/ deletePrevious(t) \/ deletePreviousEntry(t)
           \/ storeSnapshot(t) \/ complete(t) \/ applyRetention(t)
  BY <1>9 DEF readPrevious, deletePrevious, deletePreviousEntry, storeSnapshot, complete,
     applyRetention, Moves
<1>10. CASE \/ resumeDetach(t) \/ resumeDetachSkipped(t) \/ resumeDelete(t)
            \/ resumeDeleteFile(t)
  BY <1>10 DEF resumeDetach, resumeDetachSkipped, resumeDelete, resumeDeleteFile, Resumes
<1>11. CASE \/ saveError(t) \/ detachForCleaning(t) \/ deleteSnapshotForCleaning(t)
            \/ deleteVolumeForCleaning(t) \/ deletionIsRefused(t) \/ deleteFile(t)
            \/ afterCleaning(t)
  BY <1>11 DEF saveError, detachForCleaning, deleteSnapshotForCleaning, deleteVolumeForCleaning,
     deletionIsRefused, deleteFile, afterCleaning, Moves
<1>12. CASE awsFails(t) \/ copyFails(t)
  BY <1>12 DEF awsFails, copyFails, Fails, Throws, CallsToAws
<1>13. CASE cleaningFails(t)
  BY <1>13 DEF cleaningFails, LookupError
<1>14. QED
  BY <1>1, <1>2, <1>3, <1>4, <1>5, <1>6, <1>7, <1>8, <1>9, <1>10, <1>11, <1>12, <1>13
     DEF StepOf, Execute, Failure

\* A task learns of no snapshot but one that it creates.
LEMMA NamesGrow ==
  ASSUME IInv, NEW t \in Backups, StepOf(t)
  PROVE  \/ Names(t)' \subseteq Names(t)
         \/ \E s \in SnapshotIds : /\ snapshots[s] = "none" /\ snapshots'[s] = "present"
                                   /\ Names(t)' \subseteq Names(t) \union {s}
<1> USE DEF IInv, ControlOK, RestOK, thread, cloud, catalog, counters, Goto, Set, Save, At,
            WithStatus, WithProgress, WithVolume, WithSnapshot, Entry
<1>1. CASE submit(t) \/ cancel(t) \/ lookupFails(t)
  BY <1>1 DEF submit, cancel, lookupFails, Names
<1>2. CASE begin(t)
  BY <1>2 DEF begin, Names
<1>3. CASE setProgress(t)
  BY <1>3 DEF setProgress, Names
<1>4. CASE notInterrupted(t)
  BY <1>4 DEF notInterrupted, Checks, Moves, Names
<1>5. CASE isCanceled(t) \/ isInterrupted(t) \/ cannotDeleteVolume(t)
  BY <1>5 DEF isCanceled, isInterrupted, cannotDeleteVolume, Throws, Checks, Names
<1>6. CASE volumeExists(t) \/ volumeIsGone(t) \/ createSnapshot(t) \/ saveSnapshotId(t)
  BY <1>6 DEF volumeExists, volumeIsGone, createSnapshot, saveSnapshotId, Moves, Names, NoRecord
<1>7. CASE createVolume(t) \/ saveVolumeId(t) \/ tagVolume(t)
  BY <1>7 DEF createVolume, saveVolumeId, tagVolume, Names
<1>8. CASE \/ waitForVolume(t) \/ attachVolume(t) \/ startCopy(t) \/ copy(t) \/ saveBackup(t)
           \/ detachVolume(t)
           \/ deleteVolume(t)
  BY <1>8 DEF waitForVolume, attachVolume, startCopy, copy, saveBackup, detachVolume,
     deleteVolume, Moves, Names
<1>9. CASE \/ readPrevious(t) \/ deletePrevious(t) \/ deletePreviousEntry(t)
           \/ storeSnapshot(t) \/ complete(t) \/ applyRetention(t)
  BY <1>9 DEF readPrevious, deletePrevious, deletePreviousEntry, storeSnapshot, complete,
     applyRetention, Moves, Names
<1>10. CASE \/ resumeDetach(t) \/ resumeDetachSkipped(t) \/ resumeDelete(t)
            \/ resumeDeleteFile(t)
  BY <1>10 DEF resumeDetach, resumeDetachSkipped, resumeDelete, resumeDeleteFile, Resumes, Names
<1>11. CASE \/ saveError(t) \/ detachForCleaning(t) \/ deleteSnapshotForCleaning(t)
            \/ deleteVolumeForCleaning(t) \/ deletionIsRefused(t) \/ deleteFile(t)
            \/ afterCleaning(t)
  BY <1>11 DEF saveError, detachForCleaning, deleteSnapshotForCleaning, deleteVolumeForCleaning,
     deletionIsRefused, deleteFile, afterCleaning, Moves, Names, NoRecord
<1>12. CASE awsFails(t) \/ copyFails(t)
  BY <1>12 DEF awsFails, copyFails, Fails, Throws, CallsToAws, Names
<1>13. CASE cleaningFails(t)
  BY <1>13 DEF cleaningFails, LookupError, Names
<1>14. QED
  BY <1>1, <1>2, <1>3, <1>4, <1>5, <1>6, <1>7, <1>8, <1>9, <1>10, <1>11, <1>12, <1>13
     DEF StepOf, Execute, Failure

\* No two tasks know of one snapshot, and none of what is known is yet to be
\* created.
LEMMA NextKeepsOwners == IInv /\ SnapshotsOwned /\ [Next]_vars => SnapshotsOwned'
<1> SUFFICES ASSUME IInv, SnapshotsOwned, [Next]_vars
             PROVE  SnapshotsOwned'
  OBVIOUS
<1>0. \A t \in Backups : Names(t) \subseteq SnapshotIds
  BY DEF IInv, ControlOK, Entries, Names
<1>1. CASE \E t \in Backups : StepOf(t)
  <2> PICK t \in Backups : StepOf(t)
    BY <1>1
  <2>1. ASSUME NEW u \in Backups, u # t
        PROVE  Names(u)' = Names(u)
    BY <2>1, OthersStay DEF Stays, Names
  <2>2. ASSUME NEW u \in Backups, u # t
        PROVE  Names(t)' \intersect Names(u)' = {}
    <3>1. Names(t) \intersect Names(u) = {} /\ Names(u)' = Names(u)
      BY <2>1, <2>2 DEF SnapshotsOwned
    <3>2. \A s \in Names(u) : snapshots[s] # "none"
      BY DEF SnapshotsOwned
    <3>3. QED
      BY <3>1, <3>2, NamesGrow
  <2>3. \A a, b \in Backups : a # b => Names(a)' \intersect Names(b)' = {}
    BY <2>1, <2>2 DEF SnapshotsOwned
  <2>4. ASSUME NEW u \in Backups, NEW s \in Names(u)'
        PROVE  snapshots'[s] # "none"
    <3>1. CASE s \in Names(u)
      BY <1>0, <3>1, SnapshotsGrow DEF SnapshotsOwned
    <3>2. CASE s \notin Names(u)
      BY <2>1, <3>2, NamesGrow
    <3>3. QED
      BY <3>1, <3>2
  <2>5. ASSUME NEW s \in snapshotTable'
        PROVE  snapshots'[s] # "none"
    <3>1. s \in SnapshotIds /\ s # NoId
      BY NextKeepsRest, NoIdAssumption DEF IInv, RestOK
    <3>2. s \in snapshotTable \/ s \in Names(t)
      BY <2>5, <3>1, SnapshotsGrow DEF Names
    <3>3. QED
      BY <3>1, <3>2, SnapshotsGrow DEF SnapshotsOwned
  <2>6. QED
    BY <2>3, <2>4, <2>5 DEF SnapshotsOwned
<1>2. CASE restart \/ VolumeComes \/ updateCanceledTasks \/ destroy \/ UNCHANGED vars
  <2>1. UNCHANGED <<snapshots, snapshotTable>>
    BY <1>2 DEF restart, VolumeComes, volumeIsCreated, updateCanceledTasks, destroy, vars, cloud,
       catalog
  <2>2. ASSUME NEW t \in Backups
        PROVE  Names(t)' \subseteq Names(t)
    BY <1>2 DEF restart, VolumeComes, volumeIsCreated, updateCanceledTasks, destroy, vars, Names,
       WithStatus, Entry, IInv, ControlOK
  <2>3. QED
    BY <2>1, <2>2 DEF SnapshotsOwned
<1>3. QED
  BY <1>1, <1>2, CountersGrow

\* A record or an entry of another task that could be resumed still can.
LEMMA OthersSourced ==
  ASSUME IInv, BooksOK, SnapshotsOwned, NEW t \in Backups, NEW u \in Backups, u # t, StepOf(t),
         Sourced(u)
  PROVE  Sourced(u)'
<1>1. Stays(u)
  BY OthersStay
<1>2. ASSUME NEW s \in Names(u), Usable(s)
      PROVE  Usable(s)'
  <2>1. s \in SnapshotIds
    BY DEF IInv, ControlOK, Entries, Names
  <2>2. s # ent[t].snapshot
    BY DEF SnapshotsOwned, Names
  <2>3. QED
    BY <1>2, <2>1, <2>2, UsableStays
<1>3. \A s : s # NoId /\ s \in {rec[u].snapshot, ent[u].snapshot} => s \in Names(u)
  BY DEF Names
<1>4. \A s \in Names(u) : Usable(s) => snapshots'[s] = "present" /\ s \notin snapshotTable'
  BY <1>2 DEF Usable
<1>5. SourceKept(rec[u]) => SourceKept(rec[u])'
  BY <1>1, <1>3, <1>4 DEF SourceKept, Stays, Usable
<1>6. SourceKept(ent[u]) => SourceKept(ent[u])'
  BY <1>1, <1>3, <1>4 DEF SourceKept, Stays, Usable
<1>7. Usable(ent[u].snapshot) => Usable(ent[u].snapshot)'
  BY <1>1, <1>3, <1>4 DEF Stays, Usable
<1>8. UNCHANGED <<pc[u], ent[u].snapshot>>
  BY <1>1 DEF Stays
<1>9. QED
  BY <1>5, <1>6, <1>7, <1>8 DEF Sourced

\* What setProgress needs and leaves: no snapshot yet, or a usable one.
LEMMA ProgressSourced ==
  ASSUME NEW s \in DOMAIN ProgressSteps
  PROVE  /\ ProgressSteps[s][1] = "NONE" \/ ProgressSteps[s][1] = "STARTED" => s \in BeforeSnapshot
         /\ ProgressSteps[s][1] \in EarlyProgresses => s \in BeforeSnapshot \/ s \in ToCopy
         /\ ProgressSteps[s][2] \in BeforeSnapshot => s \in BeforeSnapshot
         /\ ProgressSteps[s][2] \in ToCopy => s \in ToCopy
         /\ ProgressSteps[s][2] # "begin"
BY ProgressNames DEF ProgressSteps, EarlyProgresses, RedoneProgresses, BeforeSnapshot, ToCopy,
                     ThrowingAway

LEMMA CheckSourced ==
  ASSUME NEW c \in DOMAIN CheckSteps
  PROVE  /\ CheckSteps[c] \in BeforeSnapshot => c \in BeforeSnapshot
         /\ CheckSteps[c] \in ToCopy => c \in ToCopy
         /\ CheckSteps[c] # "begin"
BY CheckNames DEF CheckSteps, BeforeSnapshot, ToCopy, ThrowingAway

\* execute goes where the record it starts from allows.
LEMMA FirstStepSourced ==
  ASSUME NEW e, HasIds(e), SourceKept(e)
  PROVE  /\ firstStep(e) \in BeforeSnapshot => e.snapshot = NoId
         /\ firstStep(e) \in ToCopy => Usable(e.snapshot)
         /\ firstStep(e) # "begin"
BY DEF firstStep, HasIds, SnapshotProgresses, SourceKept, RedoneProgresses, EarlyProgresses,
       BeforeSnapshot, ToCopy, ThrowingAway

\* A step of t keeps the source of its own volume.
LEMMA StepSourced ==
  ASSUME IInv, BooksOK, SnapshotsOwned, NEW t \in Backups, Sourced(t), StepOf(t)
  PROVE  Sourced(t)'
<1>0. Booked(pc[t], rec[t].progress) /\ Booked(pc[t], ent[t].progress)
  BY DEF BooksOK
<1> USE DEF IInv, ControlOK, RestOK, thread, cloud, catalog, counters, Goto, Set, Save, At,
            WithStatus, WithProgress, WithVolume, WithSnapshot, Entry
<1>1. CASE submit(t) \/ cancel(t) \/ lookupFails(t)
  BY <1>1, <1>0 DEF submit, cancel, lookupFails, Sourced, SourceKept, Usable, EarlyProgresses,
     RedoneProgresses, BeforeSnapshot, ToCopy, ThrowingAway
<1>2. CASE begin(t)
  BY <1>2, <1>0, FirstStepSourced DEF begin, Sourced, SourceKept, Usable
<1>3. CASE setProgress(t)
  BY <1>3, <1>0, ProgressSourced DEF setProgress, Sourced, SourceKept, Usable
<1>4. CASE notInterrupted(t)
  BY <1>4, <1>0, CheckSourced DEF notInterrupted, Checks, Moves, Sourced, SourceKept, Usable
<1>5. CASE isCanceled(t) \/ isInterrupted(t) \/ cannotDeleteVolume(t)
  BY <1>5, <1>0, CheckSourced DEF isCanceled, isInterrupted, cannotDeleteVolume, Throws, Checks,
     Sourced, SourceKept, Usable, EarlyProgresses, RedoneProgresses, BeforeSnapshot, ToCopy,
     ThrowingAway
<1>6. CASE volumeExists(t) \/ volumeIsGone(t) \/ createSnapshot(t) \/ saveSnapshotId(t)
  <2>1. CASE volumeExists(t) \/ saveSnapshotId(t)
    BY <2>1, <1>0 DEF volumeExists, saveSnapshotId, Booked, Completing, CleaningUp, Moves,
       Sourced, SourceKept, Usable, EarlyProgresses, RedoneProgresses, BeforeSnapshot, ToCopy,
       ThrowingAway
  <2>2. CASE volumeIsGone(t)
    BY <2>2, <1>0 DEF volumeIsGone, Booked, Completing, CleaningUp, Moves, Sourced, SourceKept,
       Usable, EarlyProgresses, RedoneProgresses, BeforeSnapshot, ToCopy, ThrowingAway, NoRecord
  <2>3. CASE createSnapshot(t)
    <3> PICK s \in SnapshotIds : /\ snapshots[s] = "none" /\ snapshots' = Set(snapshots, s, "present")
                                 /\ ent' = Set(ent, t, WithSnapshot(ent[t], s))
      BY <2>3 DEF createSnapshot
    <3>1. pc[t] = "createSnapshot" /\ pc'[t] = "saveSnapshotId" /\ UNCHANGED <<rec, snapshotTable>>
      BY <2>3 DEF createSnapshot
    <3>2. s # NoId /\ s \notin snapshotTable
      BY NoIdAssumption DEF SnapshotsOwned
    <3>3. ent'[t].snapshot = s
      OBVIOUS
    <3>4. Usable(ent[t].snapshot)'
      BY <3>1, <3>2, <3>3 DEF Usable
    <3>5. SourceKept(rec[t])'
      BY <3>1 DEF Sourced, SourceKept, Usable
    <3>6. QED
      BY <3>1, <3>4, <3>5 DEF Sourced, BeforeSnapshot
  <2>4. QED
    BY <1>6, <2>1, <2>2, <2>3
<1>7. CASE createVolume(t) \/ saveVolumeId(t) \/ tagVolume(t)
  <2>1. CASE createVolume(t)
    BY <2>1, <1>0 DEF createVolume, Booked, Completing, CleaningUp, Moves, Sourced, SourceKept,
       Usable, EarlyProgresses, RedoneProgresses, BeforeSnapshot, ToCopy, ThrowingAway
  <2>2. CASE saveVolumeId(t)
    BY <2>2, <1>0 DEF saveVolumeId, Booked, Completing, CleaningUp, Moves, Sourced, SourceKept,
       Usable, EarlyProgresses, RedoneProgresses, BeforeSnapshot, ToCopy, ThrowingAway
  <2>3. CASE tagVolume(t)
    BY <2>3, <1>0 DEF tagVolume, Booked, Completing, CleaningUp, Moves, Sourced, SourceKept,
       Usable, EarlyProgresses, RedoneProgresses, BeforeSnapshot, ToCopy, ThrowingAway
  <2>4. QED
    BY <1>7, <2>1, <2>2, <2>3
<1>8. CASE \/ waitForVolume(t) \/ attachVolume(t) \/ startCopy(t) \/ copy(t) \/ saveBackup(t)
           \/ detachVolume(t)
           \/ deleteVolume(t)
  BY <1>8, <1>0 DEF waitForVolume, attachVolume, startCopy, copy, saveBackup, detachVolume,
     deleteVolume, Moves, Sourced, SourceKept, Usable, EarlyProgresses, RedoneProgresses,
     BeforeSnapshot, ToCopy, ThrowingAway
<1>9. CASE \/ readPrevious(t) \/ deletePrevious(t) \/ deletePreviousEntry(t)
           \/ storeSnapshot(t) \/ complete(t) \/ applyRetention(t)
  <2>1. CASE readPrevious(t) \/ complete(t) \/ applyRetention(t)
    BY <2>1, <1>0 DEF readPrevious, complete, applyRetention, Booked, Completing, CleaningUp,
       Moves, Sourced, SourceKept, Usable, EarlyProgresses, RedoneProgresses, BeforeSnapshot,
       ToCopy, ThrowingAway
  <2>2. CASE deletePrevious(t)
    BY <2>2, <1>0 DEF deletePrevious, Booked, Completing, CleaningUp, Moves, Sourced, SourceKept,
       Usable, EarlyProgresses, RedoneProgresses, BeforeSnapshot, ToCopy, ThrowingAway
  <2>3. CASE deletePreviousEntry(t)
    BY <2>3, <1>0 DEF deletePreviousEntry, Booked, Completing, CleaningUp, Moves, Sourced,
       SourceKept, Usable, EarlyProgresses, RedoneProgresses, BeforeSnapshot, ToCopy, ThrowingAway
  <2>4. CASE storeSnapshot(t)
    BY <2>4, <1>0 DEF storeSnapshot, Booked, Completing, CleaningUp, Moves, Sourced, SourceKept,
       Usable, EarlyProgresses, RedoneProgresses, BeforeSnapshot, ToCopy, ThrowingAway
  <2>5. QED
    BY <1>9, <2>1, <2>2, <2>3, <2>4
<1>10. CASE \/ resumeDetach(t) \/ resumeDetachSkipped(t) \/ resumeDelete(t)
            \/ resumeDeleteFile(t)
  BY <1>10, <1>0 DEF resumeDetach, resumeDetachSkipped, resumeDelete, resumeDeleteFile, Resumes,
     Sourced, SourceKept, Usable, EarlyProgresses, RedoneProgresses, BeforeSnapshot, ToCopy,
     ThrowingAway
<1>11. CASE \/ saveError(t) \/ detachForCleaning(t) \/ deleteSnapshotForCleaning(t)
            \/ deleteVolumeForCleaning(t) \/ deletionIsRefused(t) \/ deleteFile(t)
            \/ afterCleaning(t)
  <2>1. CASE saveError(t) \/ detachForCleaning(t)
    BY <2>1, <1>0 DEF saveError, detachForCleaning, Booked, Completing, CleaningUp, Moves,
       Sourced, SourceKept, Usable, EarlyProgresses, RedoneProgresses, BeforeSnapshot, ToCopy,
       ThrowingAway
  <2>2. CASE deleteSnapshotForCleaning(t)
    BY <2>2, <1>0 DEF deleteSnapshotForCleaning, Booked, Completing, CleaningUp, Moves, Sourced,
       SourceKept, Usable, EarlyProgresses, RedoneProgresses, BeforeSnapshot, ToCopy, ThrowingAway
  <2>3. CASE deleteVolumeForCleaning(t) \/ deletionIsRefused(t) \/ deleteFile(t)
    BY <2>3, <1>0 DEF deleteVolumeForCleaning, deletionIsRefused, deleteFile, Booked, Completing,
       CleaningUp, Moves, Sourced, SourceKept, Usable, EarlyProgresses, RedoneProgresses,
       BeforeSnapshot, ToCopy, ThrowingAway
  <2>4. CASE afterCleaning(t)
    BY <2>4, <1>0 DEF afterCleaning, Booked, Completing, CleaningUp, Moves, Sourced, SourceKept,
       Usable, EarlyProgresses, RedoneProgresses, BeforeSnapshot, ToCopy, ThrowingAway, NoRecord
  <2>5. QED
    BY <1>11, <2>1, <2>2, <2>3, <2>4
<1>12. CASE awsFails(t) \/ copyFails(t)
  BY <1>12, <1>0 DEF awsFails, copyFails, Fails, Throws, CallsToAws, Sourced, SourceKept, Usable,
     EarlyProgresses, RedoneProgresses, BeforeSnapshot, ToCopy, ThrowingAway
<1>13. CASE cleaningFails(t)
  BY <1>13, <1>0 DEF cleaningFails, LookupError, Sourced, SourceKept, Usable, EarlyProgresses,
     RedoneProgresses, BeforeSnapshot, ToCopy, ThrowingAway
<1>14. QED
  BY <1>1, <1>2, <1>3, <1>4, <1>5, <1>6, <1>7, <1>8, <1>9, <1>10, <1>11, <1>12, <1>13
     DEF StepOf, Execute, Failure

\* Every step keeps the sources of all volumes that are still to be created.
LEMMA NextKeepsSources ==
  IInv /\ BooksOK /\ SnapshotsOwned /\ (\A t \in Backups : Sourced(t)) /\ [Next]_vars
    => (\A t \in Backups : Sourced(t))'
<1> SUFFICES ASSUME IInv, BooksOK, SnapshotsOwned, \A t \in Backups : Sourced(t), [Next]_vars,
                    NEW u \in Backups
             PROVE  Sourced(u)'
  OBVIOUS
<1>1. CASE \E t \in Backups : StepOf(t)
  <2> PICK t \in Backups : StepOf(t)
    BY <1>1
  <2>1. CASE u = t
    BY <2>1, StepSourced
  <2>2. CASE u # t
    BY <2>2, OthersSourced
  <2>3. QED
    BY <2>1, <2>2
<1>2. CASE restart
  <2>1. /\ pc'[u] = "idle" /\ UNCHANGED <<snapshots, snapshotTable>>
        /\ rec'[u].progress = rec[u].progress /\ rec'[u].snapshot = rec[u].snapshot
    BY <1>2 DEF restart, WithStatus, Entry, cloud, catalog
  <2>2. QED
    BY <2>1 DEF Sourced, SourceKept, Usable, BeforeSnapshot, ToCopy, ThrowingAway
<1>3. CASE VolumeComes \/ updateCanceledTasks \/ destroy \/ UNCHANGED vars
  <2>1. UNCHANGED <<pc, rec, ent, snapshots, snapshotTable>>
    BY <1>3 DEF VolumeComes, volumeIsCreated, updateCanceledTasks, destroy, vars, thread, cloud,
       catalog
  <2>2. QED
    BY <2>1 DEF Sourced, SourceKept, Usable
<1>4. QED
  BY <1>1, <1>2, <1>3, CountersGrow

\* The books, the owners and the sources, together.
Records == BooksOK /\ SnapshotsOwned /\ \A t \in Backups : Sourced(t)

LEMMA RecordsHold == Spec => []Records
<1>1. Init => Records
  <2> SUFFICES ASSUME Init
               PROVE  Records
    OBVIOUS
  <2>1. \A t \in Backups : /\ rec[t] = Entry("queued", "NONE", NoId, NoId) /\ ent[t] = rec[t]
                           /\ pc[t] = "idle"
    BY DEF Init
  <2>2. BooksOK
    BY <2>1 DEF BooksOK, Booked, Completing, CleaningUp
  <2>3. SnapshotsOwned
    BY <2>1 DEF SnapshotsOwned, Names, Entry, Init
  <2>4. \A t \in Backups : Sourced(t)
    BY <2>1 DEF Sourced, SourceKept, BeforeSnapshot, ToCopy, ThrowingAway, Entry, EarlyProgresses,
                RedoneProgresses
  <2>5. QED
    BY <2>2, <2>3, <2>4 DEF Records
<1>2. Records /\ IInv /\ [Next]_vars => Records'
  BY NextKeepsBooks, NextKeepsOwners, NextKeepsSources DEF Records
<1>3. QED
  BY IInvHolds, <1>1, <1>2, PTL DEF Spec

\* Whatever crashes, shutdowns, cancels and failures, at any step, and for any
\* number of backups: a volume is created from a snapshot that exists.
THEOREM SourceAlwaysExists == Spec => []SourceSnapshotExists
<1>1. Records => SourceSnapshotExists
  BY DEF Records, Sourced, ToCopy, Usable, SourceSnapshotExists, At
<1>2. QED
  BY RecordsHold, <1>1, PTL

\* More than the run asks: no snapshot is known to two tasks, or is in the
\* table while its own task may still have to copy it.
THEOREM SnapshotsHaveOneOwner ==
  Spec => [](/\ \A t, u \in Backups : t # u => Names(t) \intersect Names(u) = {}
             /\ \A t \in Backups : rec[t].progress = "COPYING" => rec[t].snapshot \notin snapshotTable)
<1>1. Records /\ IInv => \A t \in Backups : rec[t].progress = "COPYING"
                                              => rec[t].snapshot \notin snapshotTable
  <2> SUFFICES ASSUME Records, IInv, NEW t \in Backups, rec[t].progress = "COPYING"
               PROVE  rec[t].snapshot \notin snapshotTable
    OBVIOUS
  <2>1. rec[t].snapshot # NoId
    BY DEF IInv, ControlOK, HasIds, SnapshotProgresses
  <2>2. SourceKept(rec[t])
    BY DEF Records, Sourced
  <2>3. QED
    BY <2>1, <2>2 DEF SourceKept, Usable, EarlyProgresses, RedoneProgresses
<1>2. Records => \A t, u \in Backups : t # u => Names(t) \intersect Names(u) = {}
  BY DEF Records, SnapshotsOwned
<1>3. QED
  BY RecordsHold, IInvHolds, <1>1, <1>2, PTL

-----------------------------------------------------------------------------
(* NoDanglingSnapshot                                                      *)

\* A task learns of no volume but one that it creates.
LEMMA KnownVolumesGrow ==
  ASSUME IInv, NEW t \in Backups, StepOf(t)
  PROVE  \/ KnownVolumes(t)' \subseteq KnownVolumes(t)
         \/ \E v \in VolumeIds : /\ volumes[v] = "none" /\ volumes'[v] = "creating"
                                 /\ KnownVolumes(t)' \subseteq KnownVolumes(t) \union {v}
<1> USE DEF IInv, ControlOK, RestOK, thread, cloud, catalog, counters, Goto, Set, Save, At,
            WithStatus, WithProgress, WithVolume, WithSnapshot, Entry
<1>1. CASE submit(t) \/ cancel(t) \/ lookupFails(t)
  BY <1>1 DEF submit, cancel, lookupFails, KnownVolumes
<1>2. CASE begin(t)
  BY <1>2 DEF begin, KnownVolumes
<1>3. CASE setProgress(t)
  BY <1>3 DEF setProgress, KnownVolumes
<1>4. CASE notInterrupted(t)
  BY <1>4 DEF notInterrupted, Checks, Moves, KnownVolumes
<1>5. CASE isCanceled(t) \/ isInterrupted(t) \/ cannotDeleteVolume(t)
  BY <1>5 DEF isCanceled, isInterrupted, cannotDeleteVolume, Throws, Checks, KnownVolumes
<1>6. CASE volumeExists(t) \/ volumeIsGone(t) \/ createSnapshot(t) \/ saveSnapshotId(t)
  BY <1>6 DEF volumeExists, volumeIsGone, createSnapshot, saveSnapshotId, Moves, KnownVolumes,
     NoRecord
<1>7. CASE createVolume(t) \/ saveVolumeId(t) \/ tagVolume(t)
  BY <1>7 DEF createVolume, saveVolumeId, tagVolume, KnownVolumes
<1>8. CASE \/ waitForVolume(t) \/ attachVolume(t) \/ startCopy(t) \/ copy(t) \/ saveBackup(t)
           \/ detachVolume(t)
           \/ deleteVolume(t)
  BY <1>8 DEF waitForVolume, attachVolume, startCopy, copy, saveBackup, detachVolume,
     deleteVolume, Moves, KnownVolumes
<1>9. CASE \/ readPrevious(t) \/ deletePrevious(t) \/ deletePreviousEntry(t)
           \/ storeSnapshot(t) \/ complete(t) \/ applyRetention(t)
  BY <1>9 DEF readPrevious, deletePrevious, deletePreviousEntry, storeSnapshot, complete,
     applyRetention, Moves, KnownVolumes
<1>10. CASE \/ resumeDetach(t) \/ resumeDetachSkipped(t) \/ resumeDelete(t)
            \/ resumeDeleteFile(t)
  BY <1>10 DEF resumeDetach, resumeDetachSkipped, resumeDelete, resumeDeleteFile, Resumes,
     KnownVolumes
<1>11. CASE \/ saveError(t) \/ detachForCleaning(t) \/ deleteSnapshotForCleaning(t)
            \/ deleteVolumeForCleaning(t) \/ deletionIsRefused(t) \/ deleteFile(t)
            \/ afterCleaning(t)
  BY <1>11 DEF saveError, detachForCleaning, deleteSnapshotForCleaning, deleteVolumeForCleaning,
     deletionIsRefused, deleteFile, afterCleaning, Moves, KnownVolumes, NoRecord
<1>12. CASE awsFails(t) \/ copyFails(t)
  BY <1>12 DEF awsFails, copyFails, Fails, Throws, CallsToAws, KnownVolumes
<1>13. CASE cleaningFails(t)
  BY <1>13 DEF cleaningFails, LookupError, KnownVolumes
<1>14. QED
  BY <1>1, <1>2, <1>3, <1>4, <1>5, <1>6, <1>7, <1>8, <1>9, <1>10, <1>11, <1>12, <1>13
     DEF StepOf, Execute, Failure

\* Volumes are created once.
LEMMA VolumesGrow ==
  ASSUME IInv, NEW t \in Backups, StepOf(t)
  PROVE  \A v \in VolumeIds : volumes[v] # "none" => volumes'[v] # "none"
<1> USE DEF IInv, ControlOK, RestOK, thread, cloud, catalog, counters, Set, At
<1>1. CASE submit(t) \/ cancel(t) \/ lookupFails(t)
  BY <1>1 DEF submit, cancel, lookupFails
<1>2. CASE begin(t)
  BY <1>2 DEF begin
<1>3. CASE setProgress(t)
  BY <1>3 DEF setProgress
<1>4. CASE notInterrupted(t)
  BY <1>4 DEF notInterrupted, Checks, Moves
<1>5. CASE isCanceled(t) \/ isInterrupted(t) \/ cannotDeleteVolume(t)
  BY <1>5 DEF isCanceled, isInterrupted, cannotDeleteVolume, Throws, Checks
<1>6. CASE volumeExists(t) \/ volumeIsGone(t) \/ createSnapshot(t) \/ saveSnapshotId(t)
  BY <1>6 DEF volumeExists, volumeIsGone, createSnapshot, saveSnapshotId, Moves
<1>7. CASE createVolume(t) \/ saveVolumeId(t) \/ tagVolume(t)
  BY <1>7 DEF createVolume, saveVolumeId, tagVolume
<1>8. CASE \/ waitForVolume(t) \/ attachVolume(t) \/ startCopy(t) \/ copy(t) \/ saveBackup(t)
           \/ detachVolume(t)
           \/ deleteVolume(t)
  BY <1>8 DEF waitForVolume, attachVolume, startCopy, copy, saveBackup, detachVolume,
     deleteVolume, Moves
<1>9. CASE \/ readPrevious(t) \/ deletePrevious(t) \/ deletePreviousEntry(t)
           \/ storeSnapshot(t) \/ complete(t) \/ applyRetention(t)
  BY <1>9 DEF readPrevious, deletePrevious, deletePreviousEntry, storeSnapshot, complete,
     applyRetention, Moves
<1>10. CASE \/ resumeDetach(t) \/ resumeDetachSkipped(t) \/ resumeDelete(t)
            \/ resumeDeleteFile(t)
  BY <1>10 DEF resumeDetach, resumeDetachSkipped, resumeDelete, resumeDeleteFile, Resumes
<1>11. CASE \/ saveError(t) \/ detachForCleaning(t) \/ deleteSnapshotForCleaning(t)
            \/ deleteVolumeForCleaning(t) \/ deletionIsRefused(t) \/ deleteFile(t)
            \/ afterCleaning(t)
  BY <1>11 DEF saveError, detachForCleaning, deleteSnapshotForCleaning, deleteVolumeForCleaning,
     deletionIsRefused, deleteFile, afterCleaning, Moves
<1>12. CASE awsFails(t) \/ copyFails(t)
  BY <1>12 DEF awsFails, copyFails, Fails, Throws, CallsToAws
<1>13. CASE cleaningFails(t)
  BY <1>13 DEF cleaningFails, LookupError
<1>14. QED
  BY <1>1, <1>2, <1>3, <1>4, <1>5, <1>6, <1>7, <1>8, <1>9, <1>10, <1>11, <1>12, <1>13
     DEF StepOf, Execute, Failure

\* A volume comes to be only if t creates it or has it in its hands.
LEMMA ExistsGrows ==
  ASSUME IInv, NEW t \in Backups, StepOf(t), NEW v \in VolumeIds, Exists(v)'
  PROVE  Exists(v) \/ v = tempVolume[t] \/ volumes[v] = "none"
<1> USE DEF IInv, ControlOK, RestOK, thread, cloud, catalog, counters, Set, At
<1>1. CASE submit(t) \/ cancel(t) \/ lookupFails(t)
  BY <1>1 DEF submit, cancel, lookupFails, Exists
<1>2. CASE begin(t)
  BY <1>2 DEF begin, Exists
<1>3. CASE setProgress(t)
  BY <1>3 DEF setProgress, Exists
<1>4. CASE notInterrupted(t)
  BY <1>4 DEF notInterrupted, Checks, Moves, Exists
<1>5. CASE isCanceled(t) \/ isInterrupted(t) \/ cannotDeleteVolume(t)
  BY <1>5 DEF isCanceled, isInterrupted, cannotDeleteVolume, Throws, Checks, Exists
<1>6. CASE volumeExists(t) \/ volumeIsGone(t) \/ createSnapshot(t) \/ saveSnapshotId(t)
  BY <1>6 DEF volumeExists, volumeIsGone, createSnapshot, saveSnapshotId, Moves, Exists
<1>7. CASE createVolume(t) \/ saveVolumeId(t) \/ tagVolume(t)
  BY <1>7 DEF createVolume, saveVolumeId, tagVolume, Exists
<1>8. CASE \/ waitForVolume(t) \/ attachVolume(t) \/ startCopy(t) \/ copy(t) \/ saveBackup(t)
           \/ detachVolume(t)
           \/ deleteVolume(t)
  BY <1>8 DEF waitForVolume, attachVolume, startCopy, copy, saveBackup, detachVolume,
     deleteVolume, Moves, Exists
<1>9. CASE \/ readPrevious(t) \/ deletePrevious(t) \/ deletePreviousEntry(t)
           \/ storeSnapshot(t) \/ complete(t) \/ applyRetention(t)
  BY <1>9 DEF readPrevious, deletePrevious, deletePreviousEntry, storeSnapshot, complete,
     applyRetention, Moves, Exists
<1>10. CASE \/ resumeDetach(t) \/ resumeDetachSkipped(t) \/ resumeDelete(t)
            \/ resumeDeleteFile(t)
  BY <1>10 DEF resumeDetach, resumeDetachSkipped, resumeDelete, resumeDeleteFile, Resumes, Exists
<1>11. CASE \/ saveError(t) \/ detachForCleaning(t) \/ deleteSnapshotForCleaning(t)
            \/ deleteVolumeForCleaning(t) \/ deletionIsRefused(t) \/ deleteFile(t)
            \/ afterCleaning(t)
  BY <1>11 DEF saveError, detachForCleaning, deleteSnapshotForCleaning, deleteVolumeForCleaning,
     deletionIsRefused, deleteFile, afterCleaning, Moves, Exists
<1>12. CASE awsFails(t) \/ copyFails(t)
  BY <1>12 DEF awsFails, copyFails, Fails, Throws, CallsToAws, Exists
<1>13. CASE cleaningFails(t)
  BY <1>13 DEF cleaningFails, LookupError, Exists
<1>14. QED
  BY <1>1, <1>2, <1>3, <1>4, <1>5, <1>6, <1>7, <1>8, <1>9, <1>10, <1>11, <1>12, <1>13
     DEF StepOf, Execute, Failure

\* No two tasks know of one volume, and each that is known was created.
LEMMA NextKeepsVolumes == IInv /\ VolumesOwned /\ [Next]_vars => VolumesOwned'
<1> SUFFICES ASSUME IInv, VolumesOwned, [Next]_vars
             PROVE  VolumesOwned'
  OBVIOUS
<1>0. \A t \in Backups : KnownVolumes(t) \subseteq VolumeIds
  BY DEF IInv, ControlOK, Entries, KnownVolumes
<1>1. CASE \E t \in Backups : StepOf(t)
  <2> PICK t \in Backups : StepOf(t)
    BY <1>1
  <2>1. ASSUME NEW u \in Backups, u # t
        PROVE  KnownVolumes(u)' = KnownVolumes(u)
    BY <2>1, OthersStay DEF Stays, KnownVolumes
  <2>2. ASSUME NEW u \in Backups, u # t
        PROVE  KnownVolumes(t)' \intersect KnownVolumes(u)' = {}
    <3>1. KnownVolumes(t) \intersect KnownVolumes(u) = {} /\ KnownVolumes(u)' = KnownVolumes(u)
      BY <2>1, <2>2 DEF VolumesOwned
    <3>2. \A v \in KnownVolumes(u) : volumes[v] # "none"
      BY DEF VolumesOwned
    <3>3. QED
      BY <3>1, <3>2, KnownVolumesGrow
  <2>3. \A a, b \in Backups : a # b => KnownVolumes(a)' \intersect KnownVolumes(b)' = {}
    BY <2>1, <2>2 DEF VolumesOwned
  <2>4. ASSUME NEW u \in Backups, NEW v \in KnownVolumes(u)'
        PROVE  volumes'[v] # "none"
    <3>1. CASE v \in KnownVolumes(u)
      BY <1>0, <3>1, VolumesGrow DEF VolumesOwned
    <3>2. CASE v \notin KnownVolumes(u)
      BY <2>1, <3>2, KnownVolumesGrow
    <3>3. QED
      BY <3>1, <3>2
  <2>5. QED
    BY <2>3, <2>4 DEF VolumesOwned
<1>2. CASE restart \/ VolumeComes \/ updateCanceledTasks \/ destroy \/ UNCHANGED vars
  <2>1. \A v \in VolumeIds : volumes[v] # "none" => volumes'[v] # "none"
    BY <1>2 DEF restart, VolumeComes, volumeIsCreated, updateCanceledTasks, destroy, vars, cloud,
                Set, IInv, RestOK
  <2>2. ASSUME NEW t \in Backups
        PROVE  KnownVolumes(t)' \subseteq KnownVolumes(t)
    BY <1>2 DEF restart, VolumeComes, volumeIsCreated, updateCanceledTasks, destroy, vars,
                thread, KnownVolumes, WithStatus, Entry, IInv, ControlOK
  <2>3. QED
    BY <1>0, <2>1, <2>2 DEF VolumesOwned
<1>3. QED
  BY <1>1, <1>2, CountersGrow

\* Where the tables lead.
LEMMA ProgressStored ==
  ASSUME NEW s \in DOMAIN ProgressSteps
  PROVE  /\ ProgressSteps[s][2] \in ToStore => s \in ToStore
         /\ ProgressSteps[s][2] \in WithoutVolume => s \in WithoutVolume
         /\ ProgressSteps[s][2] \notin {"begin", "deleteSnapshotForCleaning"}
         /\ s \notin {"idle", "deleteSnapshotForCleaning"}
         /\ s = "done" => ProgressSteps[s][2] = "idle"
BY ProgressNames DEF ProgressSteps, ToStore, ToCopy, ThrowingAway, WithoutVolume, Completing,
                     BeforeSnapshot

LEMMA CheckStored ==
  ASSUME NEW c \in DOMAIN CheckSteps
  PROVE  /\ CheckSteps[c] \in ToStore => c \in ToStore
         /\ CheckSteps[c] \in WithoutVolume => c \in WithoutVolume
         /\ CheckSteps[c] # "deleteSnapshotForCleaning"
         /\ c \notin {"idle", "done", "deleteSnapshotForCleaning"}
BY CheckNames DEF CheckSteps, ToStore, ToCopy, ThrowingAway, WithoutVolume, Completing

\* In its first run t has no snapshot until it creates one.
LEMMA StartsWithout ==
  ASSUME IInv, NEW t \in Backups, FirstRun(t), Sourced(t), crashes = 0, shutdowns = 0
  PROVE  /\ rec[t].status \in {"queued", "partially_finished"} => rec[t].snapshot = NoId
         /\ pc[t] = "begin" => ent[t].snapshot = NoId /\ firstStep(ent[t]) = "volumeExists"
         /\ NoId \notin snapshotTable
BY NoIdAssumption DEF FirstRun, Sourced, SourceKept, firstStep, RedoneProgresses, IInv, RestOK

\* A step of t in its first run keeps its snapshot until it is stored, and from
\* then on has no volume whose cleaning would delete it.
LEMMA StepStored ==
  ASSUME IInv, SnapshotsOwned, NEW t \in Backups, FirstRun(t), Sourced(t), StoreKept(t),
         crashes = 0, shutdowns = 0, StepOf(t)
  PROVE  StoreKept(t)'
<1>0. /\ rec[t].status \in {"queued", "partially_finished"} => rec[t].snapshot = NoId
      /\ pc[t] = "begin" => ent[t].snapshot = NoId /\ firstStep(ent[t]) = "volumeExists"
      /\ NoId \notin snapshotTable
  BY StartsWithout
<1> USE DEF IInv, ControlOK, RestOK, thread, cloud, catalog, counters, Goto, Set, Save, At,
            WithStatus, WithProgress, WithVolume, WithSnapshot, Entry, Exists
<1>1. CASE submit(t) \/ cancel(t) \/ lookupFails(t)
  BY <1>1, <1>0 DEF submit, cancel, lookupFails, StoreKept, Usable, ToStore, ToCopy, ThrowingAway,
     WithoutVolume, Completing
<1>2. CASE begin(t)
  BY <1>2, <1>0 DEF begin, StoreKept, Usable, ToStore, ToCopy, ThrowingAway, WithoutVolume,
     Completing
<1>3. CASE setProgress(t)
  BY <1>3, ProgressStored DEF setProgress, StoreKept, Usable
<1>4. CASE notInterrupted(t)
  BY <1>4, CheckStored DEF notInterrupted, Checks, Moves, StoreKept, Usable
<1>5. CASE isCanceled(t) \/ isInterrupted(t) \/ cannotDeleteVolume(t)
  BY <1>5, CheckStored DEF isCanceled, isInterrupted, cannotDeleteVolume, Throws, Checks,
     StoreKept, Usable, ToStore, ToCopy, ThrowingAway, WithoutVolume, Completing
<1>6. CASE volumeExists(t) \/ volumeIsGone(t) \/ createSnapshot(t) \/ saveSnapshotId(t)
  BY <1>6, NoIdAssumption DEF volumeExists, volumeIsGone, createSnapshot, saveSnapshotId, Moves,
     StoreKept, Usable, ToStore, ToCopy, ThrowingAway, WithoutVolume, Completing, SnapshotsOwned
<1>7. CASE createVolume(t) \/ saveVolumeId(t) \/ tagVolume(t)
  BY <1>7, <1>0 DEF createVolume, saveVolumeId, tagVolume, StoreKept, Usable, ToStore, ToCopy,
     ThrowingAway, WithoutVolume, Completing
<1>8. CASE \/ waitForVolume(t) \/ attachVolume(t) \/ startCopy(t) \/ copy(t) \/ saveBackup(t)
           \/ detachVolume(t)
           \/ deleteVolume(t)
  BY <1>8 DEF waitForVolume, attachVolume, startCopy, copy, saveBackup, detachVolume,
     deleteVolume, Moves, StoreKept, Usable, ToStore, ToCopy, ThrowingAway, WithoutVolume,
     Completing
<1>9. CASE \/ readPrevious(t) \/ deletePrevious(t) \/ deletePreviousEntry(t)
           \/ storeSnapshot(t) \/ complete(t) \/ applyRetention(t)
  <2>1. CASE readPrevious(t)
    BY <2>1 DEF readPrevious, Moves, Entries, StoreKept, Usable, ToStore, ToCopy, ThrowingAway,
       WithoutVolume, Completing
  <2>2. CASE deletePrevious(t)
    BY <2>2 DEF deletePrevious, Moves, Entries, StoreKept, Usable, ToStore, ToCopy, ThrowingAway,
       WithoutVolume, Completing
  <2>3. CASE deletePreviousEntry(t)
    BY <2>3 DEF deletePreviousEntry, Moves, Entries, StoreKept, Usable, ToStore, ToCopy,
       ThrowingAway, WithoutVolume, Completing
  <2>4. CASE storeSnapshot(t)
    BY <2>4 DEF storeSnapshot, Moves, Entries, StoreKept, Usable, ToStore, ToCopy, ThrowingAway,
       WithoutVolume, Completing
  <2>5. CASE complete(t) \/ applyRetention(t)
    BY <2>5 DEF complete, applyRetention, Moves, Entries, StoreKept, Usable, ToStore, ToCopy,
       ThrowingAway, WithoutVolume, Completing
  <2>6. QED
    BY <1>9, <2>1, <2>2, <2>3, <2>4, <2>5
<1>10. CASE \/ resumeDetach(t) \/ resumeDetachSkipped(t) \/ resumeDelete(t)
            \/ resumeDeleteFile(t)
  BY <1>10 DEF resumeDetach, resumeDetachSkipped, resumeDelete, resumeDeleteFile, Resumes,
     StoreKept, Usable, ToStore, ToCopy, ThrowingAway, WithoutVolume, Completing
<1>11. CASE \/ saveError(t) \/ detachForCleaning(t) \/ deleteSnapshotForCleaning(t)
            \/ deleteVolumeForCleaning(t) \/ deletionIsRefused(t) \/ deleteFile(t)
            \/ afterCleaning(t)
  BY <1>11 DEF saveError, detachForCleaning, deleteSnapshotForCleaning, deleteVolumeForCleaning,
     deletionIsRefused, deleteFile, afterCleaning, Moves, StoreKept, Usable, ToStore, ToCopy,
     ThrowingAway, WithoutVolume, Completing
<1>12. CASE awsFails(t) \/ copyFails(t)
  BY <1>12 DEF awsFails, copyFails, Fails, Throws, CallsToAws, StoreKept, Usable, ToStore, ToCopy,
     ThrowingAway, WithoutVolume, Completing, Checks
<1>13. CASE cleaningFails(t)
  BY <1>13 DEF cleaningFails, LookupError, StoreKept, Usable, ToStore, ToCopy, ThrowingAway,
     WithoutVolume, Completing
<1>14. QED
  BY <1>1, <1>2, <1>3, <1>4, <1>5, <1>6, <1>7, <1>8, <1>9, <1>10, <1>11, <1>12, <1>13
     DEF StepOf, Execute, Failure

\* Without the option nothing is stored.
LEMMA StepKeepsEmpty ==
  ASSUME IInv, NEW t \in Backups, ~StoreSnapshot, snapshotTable = {}, StepOf(t)
  PROVE  snapshotTable' = {}
<1> USE DEF thread, cloud, catalog, counters
<1>1. CASE submit(t) \/ cancel(t) \/ lookupFails(t)
  BY <1>1 DEF submit, cancel, lookupFails
<1>2. CASE begin(t)
  BY <1>2 DEF begin
<1>3. CASE setProgress(t)
  BY <1>3 DEF setProgress
<1>4. CASE notInterrupted(t)
  BY <1>4 DEF notInterrupted, Checks, Moves
<1>5. CASE isCanceled(t) \/ isInterrupted(t) \/ cannotDeleteVolume(t)
  BY <1>5 DEF isCanceled, isInterrupted, cannotDeleteVolume, Throws, Checks
<1>6. CASE volumeExists(t) \/ volumeIsGone(t) \/ createSnapshot(t) \/ saveSnapshotId(t)
  BY <1>6 DEF volumeExists, volumeIsGone, createSnapshot, saveSnapshotId, Moves
<1>7. CASE createVolume(t) \/ saveVolumeId(t) \/ tagVolume(t)
  BY <1>7 DEF createVolume, saveVolumeId, tagVolume
<1>8. CASE \/ waitForVolume(t) \/ attachVolume(t) \/ startCopy(t) \/ copy(t) \/ saveBackup(t)
           \/ detachVolume(t)
           \/ deleteVolume(t)
  BY <1>8 DEF waitForVolume, attachVolume, startCopy, copy, saveBackup, detachVolume,
     deleteVolume, Moves
<1>9. CASE \/ readPrevious(t) \/ deletePrevious(t) \/ deletePreviousEntry(t)
           \/ storeSnapshot(t) \/ complete(t) \/ applyRetention(t)
  BY <1>9 DEF readPrevious, deletePrevious, deletePreviousEntry, storeSnapshot, complete,
     applyRetention, Moves
<1>10. CASE \/ resumeDetach(t) \/ resumeDetachSkipped(t) \/ resumeDelete(t)
            \/ resumeDeleteFile(t)
  BY <1>10 DEF resumeDetach, resumeDetachSkipped, resumeDelete, resumeDeleteFile, Resumes
<1>11. CASE \/ saveError(t) \/ detachForCleaning(t) \/ deleteSnapshotForCleaning(t)
            \/ deleteVolumeForCleaning(t) \/ deletionIsRefused(t) \/ deleteFile(t)
            \/ afterCleaning(t)
  BY <1>11 DEF saveError, detachForCleaning, deleteSnapshotForCleaning, deleteVolumeForCleaning,
     deletionIsRefused, deleteFile, afterCleaning, Moves
<1>12. CASE awsFails(t) \/ copyFails(t)
  BY <1>12 DEF awsFails, copyFails, Fails, Throws, CallsToAws
<1>13. CASE cleaningFails(t)
  BY <1>13 DEF cleaningFails, LookupError
<1>14. QED
  BY <1>1, <1>2, <1>3, <1>4, <1>5, <1>6, <1>7, <1>8, <1>9, <1>10, <1>11, <1>12, <1>13
     DEF StepOf, Execute, Failure

\* What a step of t does to what is in the table.
LEMMA StepTable ==
  ASSUME IInv, NEW t \in Backups, StoreKept(t), ~StoreSnapshot => snapshotTable = {}, StepOf(t),
         NEW s \in snapshotTable'
  PROVE  /\ s \notin snapshotTable => snapshots'[s] = "present"
         /\ s \in snapshotTable /\ snapshots[s] = "present"
              => snapshots'[s] = "present" \/ (pc'[t] = "deletePreviousEntry" /\ previous'[t] = s)
         /\ s \in snapshotTable /\ pc[t] = "deletePreviousEntry" /\ previous[t] = s
              => pc'[t] = "deletePreviousEntry" /\ previous'[t] = s
<1>0. /\ pc[t] = "storeSnapshot" => Usable(ent[t].snapshot)
      /\ pc[t] = "deleteSnapshotForCleaning" => ent[t].snapshot \notin snapshotTable
  BY DEF StoreKept, ToStore
<1> USE DEF IInv, ControlOK, RestOK, thread, cloud, catalog, counters, Goto, Set, Save, At, Usable
<1>1. CASE submit(t) \/ cancel(t) \/ lookupFails(t)
  BY <1>1 DEF submit, cancel, lookupFails, At
<1>2. CASE begin(t)
  BY <1>2 DEF begin, At
<1>3. CASE setProgress(t)
  BY <1>3, ProgressNames DEF setProgress, At
<1>4. CASE notInterrupted(t)
  BY <1>4, CheckNames DEF notInterrupted, Checks, Moves, At
<1>5. CASE isCanceled(t) \/ isInterrupted(t) \/ cannotDeleteVolume(t)
  BY <1>5, CheckNames DEF isCanceled, isInterrupted, cannotDeleteVolume, Throws, Checks, At
<1>6. CASE volumeExists(t) \/ volumeIsGone(t) \/ createSnapshot(t) \/ saveSnapshotId(t)
  BY <1>6 DEF volumeExists, volumeIsGone, createSnapshot, saveSnapshotId, Moves, At
<1>7. CASE createVolume(t) \/ saveVolumeId(t) \/ tagVolume(t)
  BY <1>7 DEF createVolume, saveVolumeId, tagVolume, At
<1>8. CASE \/ waitForVolume(t) \/ attachVolume(t) \/ startCopy(t) \/ copy(t) \/ saveBackup(t)
           \/ detachVolume(t)
           \/ deleteVolume(t)
  BY <1>8 DEF waitForVolume, attachVolume, startCopy, copy, saveBackup, detachVolume,
     deleteVolume, Moves, At
<1>9. CASE \/ readPrevious(t) \/ deletePrevious(t) \/ deletePreviousEntry(t)
           \/ storeSnapshot(t) \/ complete(t) \/ applyRetention(t)
  BY <1>9, <1>0 DEF readPrevious, deletePrevious, deletePreviousEntry, storeSnapshot, complete,
     applyRetention, Moves, At
<1>10. CASE \/ resumeDetach(t) \/ resumeDetachSkipped(t) \/ resumeDelete(t)
            \/ resumeDeleteFile(t)
  BY <1>10 DEF resumeDetach, resumeDetachSkipped, resumeDelete, resumeDeleteFile, Resumes, At
<1>11. CASE \/ saveError(t) \/ detachForCleaning(t) \/ deleteSnapshotForCleaning(t)
            \/ deleteVolumeForCleaning(t) \/ deletionIsRefused(t) \/ deleteFile(t)
            \/ afterCleaning(t)
  BY <1>11, <1>0 DEF saveError, detachForCleaning, deleteSnapshotForCleaning,
     deleteVolumeForCleaning, deletionIsRefused, deleteFile, afterCleaning, Moves, At
<1>12. CASE awsFails(t) \/ copyFails(t)
  BY <1>12 DEF awsFails, copyFails, Fails, Throws, CallsToAws, At
<1>13. CASE cleaningFails(t)
  BY <1>13 DEF cleaningFails, LookupError, At
<1>14. QED
  BY <1>1, <1>2, <1>3, <1>4, <1>5, <1>6, <1>7, <1>8, <1>9, <1>10, <1>11, <1>12, <1>13
     DEF StepOf, Execute, Failure

\* A step of t leaves the snapshot and the volume of another task to it.
LEMMA OthersStored ==
  ASSUME IInv, SnapshotsOwned, VolumesOwned, NEW t \in Backups, NEW u \in Backups, u # t,
         StepOf(t), StoreKept(u)
  PROVE  StoreKept(u)'
<1>1. Stays(u)
  BY OthersStay
<1>2. ent[u].snapshot # NoId => ent[u].snapshot \in SnapshotIds /\ ent[u].snapshot # ent[t].snapshot
  BY DEF IInv, ControlOK, Entries, SnapshotsOwned, Names
<1>3. Usable(ent[u].snapshot) => Usable(ent[u].snapshot)'
  <2> SUFFICES ASSUME Usable(ent[u].snapshot)
               PROVE  Usable(ent[u].snapshot)'
    OBVIOUS
  <2> DEFINE s == ent[u].snapshot
  <2>1. s \in SnapshotIds /\ s # ent[t].snapshot /\ s' = s
    BY <1>1, <1>2 DEF Usable, Stays
  <2> HIDE DEF s
  <2>2. \A x \in SnapshotIds : Usable(x) /\ x # ent[t].snapshot => Usable(x)'
    BY UsableStays
  <2>3. Usable(s)
    BY DEF s
  <2>4. Usable(s)'
    BY <2>1, <2>2, <2>3 DEF Usable
  <2>5. QED
    BY <2>4 DEF s
<1>4. ~Exists(tempVolume[u]) => ~Exists(tempVolume[u])'
  <2>1. CASE tempVolume[u] = NoId
    BY <1>1, <2>1 DEF Exists, Stays
  <2>2. CASE tempVolume[u] # NoId
    <3>1. tempVolume[u] \in VolumeIds /\ tempVolume'[u] = tempVolume[u]
      BY <1>1, <2>2 DEF IInv, ControlOK, Stays
    <3>2. tempVolume[u] # tempVolume[t] /\ volumes[tempVolume[u]] # "none"
      BY <2>2 DEF VolumesOwned, KnownVolumes
    <3>3. \A v \in VolumeIds : Exists(v)' => Exists(v) \/ v = tempVolume[t] \/ volumes[v] = "none"
      BY ExistsGrows
    <3>4. QED
      BY <3>1, <3>2, <3>3 DEF Exists
  <2>3. QED
    BY <2>1, <2>2
<1>5. ent'[u].snapshot \in snapshotTable' => ent[u].snapshot \in snapshotTable
  <2>1. snapshotTable' \subseteq snapshotTable \union {ent[t].snapshot}
    BY SnapshotsGrow
  <2>2. NoId \notin snapshotTable'
    BY NextKeepsRest, NoIdAssumption DEF IInv, RestOK, Next, StepOf
  <2>3. QED
    BY <1>1, <1>2, <2>1, <2>2 DEF Stays
<1>6. pc'[u] = pc[u]
  BY <1>1 DEF Stays
<1>7. QED
  BY <1>3, <1>4, <1>5, <1>6 DEF StoreKept

\* Before the first restart the table is in order, and so is each task.
UnlessRestarted == crashes = 0 /\ shutdowns = 0 => TableOK /\ \A t \in Backups : StoreKept(t)

LEMMA NextKeepsTable ==
  IInv /\ ClosingIsCounted /\ Records /\ (\A t \in Backups : FirstRun(t)) /\ VolumesOwned
    /\ UnlessRestarted /\ [Next]_vars => UnlessRestarted'
<1> SUFFICES ASSUME IInv, ClosingIsCounted, Records, \A t \in Backups : FirstRun(t), VolumesOwned,
                    UnlessRestarted, [Next]_vars, crashes' = 0, shutdowns' = 0
             PROVE  TableOK' /\ (\A t \in Backups : StoreKept(t))'
  BY DEF UnlessRestarted
<1>1. crashes = 0 /\ shutdowns = 0 /\ ~restart
  BY NotRestarted
<1>2. TableOK /\ \A t \in Backups : StoreKept(t)
  BY <1>1 DEF UnlessRestarted
<1>3. SnapshotsOwned /\ \A t \in Backups : Sourced(t)
  BY DEF Records
<1>4. CASE \E t \in Backups : StepOf(t)
  <2> PICK t \in Backups : StepOf(t)
    BY <1>4
  <2>1. ASSUME NEW u \in Backups
        PROVE  StoreKept(u)'
    <3>1. CASE u = t
      BY <1>1, <1>2, <1>3, <3>1, StepStored
    <3>2. CASE u # t
      BY <1>2, <1>3, <3>2, OthersStored
    <3>3. QED
      BY <3>1, <3>2
  <2>2. ~StoreSnapshot => snapshotTable' = {}
    BY <1>2, StepKeepsEmpty DEF TableOK
  <2>3. ASSUME NEW s \in snapshotTable'
        PROVE  snapshots'[s] = "present"
                 \/ \E u \in Backups : pc'[u] = "deletePreviousEntry" /\ previous'[u] = s
    <3>1. /\ s \notin snapshotTable => snapshots'[s] = "present"
          /\ s \in snapshotTable /\ snapshots[s] = "present"
              => snapshots'[s] = "present" \/ (pc'[t] = "deletePreviousEntry" /\ previous'[t] = s)
          /\ s \in snapshotTable /\ pc[t] = "deletePreviousEntry" /\ previous[t] = s
              => pc'[t] = "deletePreviousEntry" /\ previous'[t] = s
      BY <1>2, StepTable DEF TableOK
    <3>2. CASE s \in snapshotTable /\ snapshots[s] # "present"
      <4>1. PICK u \in Backups : pc[u] = "deletePreviousEntry" /\ previous[u] = s
        BY <1>2, <3>2 DEF TableOK, NoDanglingSnapshot, At
      <4>2. CASE u = t
        BY <3>1, <3>2, <4>1, <4>2
      <4>3. CASE u # t
        BY <4>1, <4>3, OthersStay DEF Stays
      <4>4. QED
        BY <4>2, <4>3
    <3>3. QED
      BY <3>1, <3>2
  <2>4. TableOK'
    BY <2>2, <2>3 DEF TableOK, NoDanglingSnapshot, At
  <2>5. QED
    BY <2>1, <2>4
<1>5. CASE VolumeComes \/ updateCanceledTasks \/ destroy \/ UNCHANGED vars
  <2>1. UNCHANGED <<pc, ent, tempVolume, previous, snapshots, snapshotTable>>
    BY <1>5 DEF VolumeComes, volumeIsCreated, updateCanceledTasks, destroy, vars, thread, cloud,
       catalog
  <2>2. \A t \in Backups : Exists(tempVolume[t])' <=> Exists(tempVolume[t])
    <3> TAKE t \in Backups
    <3>1. CASE VolumeComes
      <4>1. PICK v : v = tempVolume[t]
        OBVIOUS
      <4>2. Exists(v)' <=> Exists(v)
        BY <3>1, ArrivalKeepsExisting
      <4>3. QED
        BY <2>1, <4>1, <4>2 DEF Exists
    <3>2. CASE updateCanceledTasks \/ destroy \/ UNCHANGED vars
      BY <2>1, <3>2 DEF updateCanceledTasks, destroy, vars, cloud, Exists
    <3>3. QED
      BY <1>5, <3>1, <3>2
  <2>3. QED
    BY <1>2, <2>1, <2>2 DEF TableOK, NoDanglingSnapshot, At, StoreKept, Usable
<1>6. QED
  BY <1>1, <1>4, <1>5, CountersGrow

\* For any number of concurrent backups of the volume, and any number of cancels
\* and failures at any step: an entry names a snapshot that EC2 has, except
\* while the thread that deletes both is between the two.  A restart there
\* leaves such an entry for good, so the node must not have restarted.
THEOREM NoEntryDangles == Spec => [](crashes = 0 /\ shutdowns = 0 => NoDanglingSnapshot)
<1> DEFINE Inv == ClosingIsCounted /\ (\A t \in Backups : FirstRun(t)) /\ VolumesOwned
                  /\ UnlessRestarted
<1>1. Init => Inv
  <2> SUFFICES ASSUME Init
               PROVE  Inv
    OBVIOUS
  <2>1. \A t \in Backups : /\ rec[t] = Entry("queued", "NONE", NoId, NoId) /\ ent[t] = rec[t]
                           /\ pc[t] = "idle" /\ tempVolume[t] = NoId
    BY DEF Init
  <2>2. NoId \notin snapshotTable /\ snapshotTable = {} /\ ~closing
    BY DEF Init
  <2>3. ClosingIsCounted
    BY <2>2 DEF ClosingIsCounted
  <2>4. \A t \in Backups : FirstRun(t)
    BY <2>1 DEF FirstRun, ThrowingAway, Entry
  <2>5. VolumesOwned
    BY <2>1 DEF VolumesOwned, KnownVolumes, Entry
  <2>6. UnlessRestarted
    BY <2>1, <2>2 DEF UnlessRestarted, TableOK, NoDanglingSnapshot, StoreKept, ToStore, ToCopy,
                      ThrowingAway, WithoutVolume, Completing
  <2>7. QED
    BY <2>3, <2>4, <2>5, <2>6
<1>2. Inv /\ IInv /\ Records /\ [Next]_vars => Inv'
  BY NextKeepsClosing, NextKeepsFirstRun, NextKeepsVolumes, NextKeepsTable
<1>3. Inv => (crashes = 0 /\ shutdowns = 0 => NoDanglingSnapshot)
  BY DEF UnlessRestarted, TableOK
<1>4. QED
  BY IInvHolds, RecordsHold, <1>1, <1>2, <1>3, PTL DEF Spec
=============================================================================
