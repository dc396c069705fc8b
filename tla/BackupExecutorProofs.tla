------------------------ MODULE BackupExecutorProofs ------------------------
(***************************************************************************)
(* Proofs about BackupExecutor, for any number of backups, identifiers,    *)
(* crashes, shutdowns, cancels and failures: its type invariant.           *)
(*                                                                         *)
(* It needs what records name: the snapshot table holds identifiers only   *)
(* because the step that fills it is not reached without one, whether a    *)
(* thread came there by itself or a crash sent it there from what was      *)
(* saved.  ResumeHasIds is proved on top of it in BackupOutcomesProofs.    *)
(***************************************************************************)
EXTENDS BackupExecutor, TLAPS

-----------------------------------------------------------------------------
(* The inductive invariant                                                 *)

\* What a value of TaskEntry may be.
Entries == [status : Statuses, progress : Progresses,
            volume : VolumeIds \union {NoId}, snapshot : SnapshotIds \union {NoId}]

\* What one copy of an entry names.  Of an entry that reads DETACHING_ or
\* DELETING_TEMP_VOLUME it does not say that it names a volume.
HasIds(e) ==
  /\ e.progress \in SnapshotProgresses => e.snapshot # NoId
  /\ e.progress \in {"WAITING_TEMP_VOLUME", "ATTACHING_VOLUME", "COPYING",
                     "CLEANING_TEMP_RESOURCES"} => e.volume # NoId

\* Where a thread has the identifier of its snapshot.
AfterSnapshot ==
  {"saveSnapshotId", "waitingSnapshot", "checkCreating", "creatingTempVolume", "createVolume",
   "saveVolumeId", "tagVolume", "checkWaiting", "waitingTempVolume", "waitForVolume",
   "checkAttaching", "attachingVolume", "attachVolume", "checkInitialized", "copying",
   "checkCopying", "startCopy", "copy", "checkCopied", "saveBackup", "detachingTempVolume",
   "checkDetaching", "detachVolume", "deletingTempVolume", "deleteVolume",
   "cleaningTempResources", "readPrevious", "checkPrevious", "deletePrevious",
   "deletePreviousEntry", "storeSnapshot", "resumeDetaching", "resumeDetach", "resumeDeleting",
   "resumeDelete", "resumeDeleteFile", "resumeCreating"}

\* Where it has the one of its temporary volume, and a save is still to come
\* whose progress needs it.
AfterVolume ==
  {"saveVolumeId", "tagVolume", "checkWaiting", "waitingTempVolume", "waitForVolume",
   "checkAttaching", "attachingVolume", "attachVolume", "checkInitialized", "copying",
   "cleaningTempResources"}

\* A thread at p, with entry e and local variable v.
InPlace(p, e, v) ==
  /\ p \in AfterSnapshot => e.snapshot # NoId
  /\ p \in AfterVolume => e.volume # NoId
  /\ p \notin {"idle", "begin"} /\ v # NoId => e.volume # NoId

\* The part of the type invariant that identifiers depend on ...
ControlOK ==
  /\ rec \in [Backups -> Entries]
  /\ ent \in [Backups -> Entries]
  /\ pc \in [Backups -> Pcs]
  /\ tempVolume \in [Backups -> VolumeIds \union {NoId}]
  /\ \A t \in Backups : HasIds(rec[t]) /\ HasIds(ent[t]) /\ InPlace(pc[t], ent[t], tempVolume[t])

\* ... and the rest of it.
RestOK ==
  /\ previous \in [Backups -> SnapshotIds \union {NoId}]
  /\ exit \in [Backups -> {"none", "canceled", "closing", "failed"}]
  /\ canceled \subseteq Backups
  /\ volumes \in [VolumeIds -> {"none", "creating", "available", "attached", "deleted"}]
  /\ refused \subseteq VolumeIds
  /\ snapshots \in [SnapshotIds -> {"none", "present", "deleted"}]
  /\ file \in [Backups -> {"absent", "partial", "whole"}]
  /\ backupList \subseteq Backups
  /\ snapshotTable \subseteq SnapshotIds
  /\ closing \in BOOLEAN
  /\ crashes \in Nat /\ shutdowns \in Nat /\ cancels \in Nat /\ failures \in Nat

IInv == ControlOK /\ RestOK

-----------------------------------------------------------------------------
(* The tables of execute                                                   *)

\* The steps that begin with setProgress, by name.
LEMMA ProgressNames ==
  DOMAIN ProgressSteps =
    {"started", "creatingSnapshot", "waitingSnapshot", "creatingTempVolume", "waitingTempVolume",
     "attachingVolume", "copying", "detachingTempVolume", "deletingTempVolume",
     "cleaningTempResources", "resumeDetaching", "resumeDeleting", "resumeCreating",
     "interruptedCleaning", "failCleaning", "done"}
BY DEF ProgressSteps

\* The calls of checkThreadInterruption, by name.
LEMMA CheckNames ==
  DOMAIN CheckSteps =
    {"checkStarted", "checkCreating", "checkWaiting", "checkAttaching", "checkInitialized",
     "checkCopying", "checkCopied", "checkDetaching", "checkPrevious", "checkCompleted"}
BY DEF CheckSteps

\* A check leads to no place that needs more than the one before it.
LEMMA CheckLeads ==
  ASSUME NEW c \in DOMAIN CheckSteps
  PROVE  /\ CheckSteps[c] \in Pcs
         /\ CheckSteps[c] \in AfterSnapshot => c \in AfterSnapshot
         /\ CheckSteps[c] \in AfterVolume => c \in AfterVolume
         /\ c \notin {"idle", "begin"}
<1>1. CheckSteps[c] \in Pcs
  BY CheckNames, ProgressNames DEF CheckSteps, Pcs, OtherSteps
<1>2. /\ CheckSteps[c] \in AfterSnapshot => c \in AfterSnapshot
      /\ CheckSteps[c] \in AfterVolume => c \in AfterVolume
      /\ c \notin {"idle", "begin"}
  BY CheckNames DEF CheckSteps, AfterSnapshot, AfterVolume
<1>3. QED
  BY <1>1, <1>2

\* setProgress saves an entry with the identifiers its progress needs.
LEMMA ProgressLeads ==
  ASSUME NEW s \in DOMAIN ProgressSteps, NEW e \in Entries, NEW v, HasIds(e), InPlace(s, e, v)
  PROVE  LET f == WithProgress(e, ProgressSteps[s][1]) IN
         /\ f \in Entries
         /\ HasIds(f)
         /\ ProgressSteps[s][2] \in Pcs
         /\ InPlace(ProgressSteps[s][2], f, v)
<1> DEFINE f == WithProgress(e, ProgressSteps[s][1])
<1>1. ProgressSteps[s][1] \in Progresses
  BY DEF Progresses
<1>2. /\ f \in Entries
      /\ f.progress = ProgressSteps[s][1] /\ f.volume = e.volume /\ f.snapshot = e.snapshot
  BY <1>1 DEF WithProgress, Entry, Entries
<1>3. ProgressSteps[s][2] \in Pcs
  BY ProgressNames, CheckNames DEF ProgressSteps, Pcs, OtherSteps
<1>4. HasIds(f)
  BY <1>2, ProgressNames
     DEF HasIds, SnapshotProgresses, InPlace, ProgressSteps, AfterSnapshot, AfterVolume
<1>5. /\ ProgressSteps[s][2] \in AfterSnapshot => s \in AfterSnapshot
      /\ ProgressSteps[s][2] \in AfterVolume => s \in AfterVolume
      /\ s \notin {"idle", "begin"}
  BY ProgressNames DEF ProgressSteps, AfterSnapshot, AfterVolume
<1>6. InPlace(ProgressSteps[s][2], f, v)
  BY <1>2, <1>5 DEF InPlace
<1>7. QED
  BY <1>2, <1>3, <1>4, <1>6

\* A resumed backup goes where the identifiers it saved allow.
LEMMA FirstStepLeads ==
  ASSUME NEW e \in Entries, HasIds(e)
  PROVE  /\ firstStep(e) \in Pcs
         /\ firstStep(e) \in AfterSnapshot => e.snapshot # NoId
         /\ firstStep(e) \in AfterVolume => e.volume # NoId
         /\ firstStep(e) \notin {"idle", "begin"}
<1>1. firstStep(e) \in Pcs
  BY ProgressNames, CheckNames DEF firstStep, Pcs, OtherSteps
<1>2. /\ firstStep(e) \in AfterSnapshot => e.snapshot # NoId
      /\ firstStep(e) \in AfterVolume => e.volume # NoId
      /\ firstStep(e) \notin {"idle", "begin"}
  BY DEF firstStep, HasIds, SnapshotProgresses, AfterSnapshot, AfterVolume, RedoneProgresses
<1>3. QED
  BY <1>1, <1>2

-----------------------------------------------------------------------------
(* Steps of one thread                                                     *)

\* A step that gives one task a new record, entry, place and local variable,
\* each as it should be, leaves the others as they are.
LEMMA OneThread ==
  ASSUME ControlOK, NEW t \in Backups,
         NEW r \in Entries, NEW e \in Entries, NEW p \in Pcs, NEW v \in VolumeIds \union {NoId},
         rec' = Set(rec, t, r), ent' = Set(ent, t, e),
         pc' = Set(pc, t, p), tempVolume' = Set(tempVolume, t, v),
         HasIds(r), HasIds(e), InPlace(p, e, v)
  PROVE  ControlOK'
<1> USE DEF ControlOK, Set
<1>1. /\ rec' \in [Backups -> Entries]
      /\ ent' \in [Backups -> Entries]
      /\ pc' \in [Backups -> Pcs]
      /\ tempVolume' \in [Backups -> VolumeIds \union {NoId}]
  OBVIOUS
<1>2. ASSUME NEW u \in Backups
      PROVE  HasIds(rec'[u]) /\ HasIds(ent'[u]) /\ InPlace(pc'[u], ent'[u], tempVolume'[u])
  <2>1. CASE u = t
    BY <2>1
  <2>2. CASE u # t
    BY <2>2
  <2>3. QED
    BY <2>1, <2>2
<1>3. QED
  BY <1>1, <1>2

\* A thread that goes on with its record and locals as they are.
LEMMA ThreadMoves ==
  ASSUME ControlOK, NEW t \in Backups, NEW p \in Pcs, pc' = Set(pc, t, p),
         UNCHANGED <<rec, ent, tempVolume>>,
         InPlace(p, ent[t], tempVolume[t])
  PROVE  ControlOK'
<1>1. /\ rec' = Set(rec, t, rec[t])
      /\ ent' = Set(ent, t, ent[t])
      /\ tempVolume' = Set(tempVolume, t, tempVolume[t])
  BY DEF ControlOK, Set
<1>2. rec[t] \in Entries /\ ent[t] \in Entries /\ tempVolume[t] \in VolumeIds \union {NoId}
  BY DEF ControlOK
<1>3. HasIds(rec[t]) /\ HasIds(ent[t])
  BY DEF ControlOK
<1>4. QED
  BY <1>1, <1>2, <1>3, OneThread

\* The same, from a place that needs no less.
LEMMA ThreadMovesOn ==
  ASSUME ControlOK, NEW t \in Backups, NEW here, NEW p \in Pcs, pc[t] = here, pc' = Set(pc, t, p),
         UNCHANGED <<rec, ent, tempVolume>>,
         here \notin {"idle", "begin"},
         p \in AfterSnapshot => here \in AfterSnapshot,
         p \in AfterVolume => here \in AfterVolume
  PROVE  ControlOK'
<1>1. InPlace(here, ent[t], tempVolume[t])
  BY DEF ControlOK
<1>2. InPlace(p, ent[t], tempVolume[t])
  BY <1>1 DEF InPlace
<1>3. QED
  BY <1>2, ThreadMoves

\* A thread that saves its entry with the same identifiers and a progress it
\* had before, or one that needs none.
LEMMA ThreadSaves ==
  ASSUME ControlOK, NEW t \in Backups, NEW p \in Pcs, pc' = Set(pc, t, p),
         NEW e \in Entries, Save(t, e), HasIds(e), InPlace(p, e, tempVolume[t]),
         UNCHANGED tempVolume
  PROVE  ControlOK'
<1>1. rec' = Set(rec, t, e) /\ ent' = Set(ent, t, e)
  BY DEF Save
<1>2. tempVolume' = Set(tempVolume, t, tempVolume[t]) /\ tempVolume[t] \in VolumeIds \union {NoId}
  BY DEF ControlOK, Set
<1>3. QED
  BY <1>1, <1>2, OneThread

\* An exception sends a thread where it needs no identifier.
LEMMA ThreadThrows ==
  ASSUME ControlOK, NEW t \in Backups, NEW why, Throws(t, why), pc[t] \notin {"idle", "begin"}
  PROVE  ControlOK'
<1> DEFINE p == IF why = "failed" THEN "failCleaning" ELSE "interruptedCleaning"
<1>1. p \in Pcs
  BY ProgressNames DEF Pcs
<1>2. p \notin AfterSnapshot /\ p \notin AfterVolume
  BY DEF AfterSnapshot, AfterVolume
<1>3. pc' = Set(pc, t, p) /\ UNCHANGED <<rec, ent, tempVolume>>
  BY DEF Throws, Goto, Set
<1>4. QED
  BY <1>1, <1>2, <1>3, ThreadMovesOn

\* Other statuses do not change the identifiers of an entry.
LEMMA StatusKeepsIds ==
  ASSUME NEW e \in Entries, HasIds(e), NEW s \in Statuses
  PROVE  LET f == WithStatus(e, s) IN
         /\ f \in Entries
         /\ HasIds(f)
         /\ \A p, v : InPlace(p, e, v) => InPlace(p, f, v)
BY DEF WithStatus, Entry, Entries, HasIds, InPlace

\* A record that was removed names nothing, and its progress needs nothing.
LEMMA NoRecordOK == NoRecord \in Entries /\ HasIds(NoRecord)
BY DEF NoRecord, Entry, Entries, HasIds, SnapshotProgresses, Statuses, Progresses

\* A step of the table of simple moves.
LEMMA PlainMove ==
  ASSUME ControlOK, NEW t \in Backups, NEW here, NEW there \in Pcs, Moves(t, here, there),
         here \notin {"idle", "begin"},
         there \in AfterSnapshot => here \in AfterSnapshot,
         there \in AfterVolume => here \in AfterVolume
  PROVE  ControlOK'
BY ThreadMovesOn DEF Moves, At, Goto, Set

-----------------------------------------------------------------------------
(* Every step keeps the identifiers of records, entries and places         *)

\* The dispatcher takes the record as it is; execute starts from it.
LEMMA StartKeepsControl ==
  ASSUME ControlOK, NEW t \in Backups, submit(t) \/ begin(t) \/ lookupFails(t)
  PROVE  ControlOK'
<1>1. /\ rec[t] \in Entries /\ HasIds(rec[t])
      /\ ent[t] \in Entries /\ HasIds(ent[t])
  BY DEF ControlOK
<1>2. CASE submit(t)
  <2> DEFINE e == WithStatus(rec[t], "waiting")
  <2>1. e \in Entries /\ HasIds(e)
    BY <1>1, StatusKeepsIds DEF Statuses
  <2>2. "begin" \in Pcs /\ InPlace("begin", e, tempVolume[t])
    BY DEF Pcs, OtherSteps, InPlace, AfterSnapshot, AfterVolume
  <2>3. pc' = Set(pc, t, "begin") /\ Save(t, e) /\ UNCHANGED tempVolume
    BY <1>2 DEF submit, Goto, Set
  <2>4. QED
    BY <2>1, <2>2, <2>3, ThreadSaves
<1>3. CASE begin(t)
  <2> DEFINE e == WithStatus(ent[t], "running")
             p == firstStep(ent[t])
             v == IF Exists(ent[t].volume) THEN ent[t].volume ELSE NoId
  <2>1. e \in Entries /\ HasIds(e) /\ e.snapshot = ent[t].snapshot /\ e.volume = ent[t].volume
    BY <1>1, StatusKeepsIds DEF Statuses, WithStatus, Entry
  <2>2. /\ p \in Pcs
        /\ p \in AfterSnapshot => ent[t].snapshot # NoId
        /\ p \in AfterVolume => ent[t].volume # NoId
    BY <1>1, FirstStepLeads
  <2>3. v \in VolumeIds \union {NoId} /\ (v # NoId => v = ent[t].volume)
    BY <1>1 DEF Entries
  <2>4. InPlace(p, e, v)
    BY <2>1, <2>2, <2>3 DEF InPlace
  <2>5. /\ rec' = Set(rec, t, e) /\ ent' = Set(ent, t, e)
        /\ pc' = Set(pc, t, p) /\ tempVolume' = Set(tempVolume, t, v)
    BY <1>3 DEF begin, Save, Goto, Set
  <2> HIDE DEF e, p, v
  <2>6. QED
    BY <2>1, <2>2, <2>3, <2>4, <2>5, OneThread
<1>4. CASE lookupFails(t)
  <2>1. "idle" \in Pcs /\ InPlace("idle", ent[t], tempVolume[t])
    BY DEF Pcs, OtherSteps, InPlace, AfterSnapshot, AfterVolume
  <2>2. pc' = Set(pc, t, "idle") /\ UNCHANGED <<rec, ent, tempVolume>>
    BY <1>4 DEF lookupFails, Goto, Set
  <2>3. QED
    BY <2>1, <2>2, ThreadMoves
<1>5. QED
  BY <1>2, <1>3, <1>4

\* The steps that execute has in common.
LEMMA CommonKeepsControl ==
  ASSUME ControlOK, NEW t \in Backups,
         setProgress(t) \/ notInterrupted(t) \/ isCanceled(t) \/ isInterrupted(t)
  PROVE  ControlOK'
<1>1. CASE setProgress(t)
  <2> PICK s \in DOMAIN ProgressSteps :
        /\ pc[t] = s
        /\ Save(t, WithProgress(ent[t], ProgressSteps[s][1]))
        /\ pc' = Set(pc, t, ProgressSteps[s][2])
        /\ UNCHANGED tempVolume
    BY <1>1 DEF setProgress, At, Goto, Set
  <2> DEFINE e == WithProgress(ent[t], ProgressSteps[s][1])
  <2>1. ent[t] \in Entries /\ HasIds(ent[t]) /\ InPlace(s, ent[t], tempVolume[t])
    BY DEF ControlOK
  <2>2. /\ e \in Entries /\ HasIds(e) /\ ProgressSteps[s][2] \in Pcs
        /\ InPlace(ProgressSteps[s][2], e, tempVolume[t])
    BY <2>1, ProgressLeads
  <2> HIDE DEF e
  <2>3. QED
    BY <2>2, ThreadSaves DEF e
<1>2. CASE notInterrupted(t)
  <2> PICK c \in DOMAIN CheckSteps : Moves(t, c, CheckSteps[c])
    BY <1>2 DEF notInterrupted, Checks
  <2> QED
    BY CheckLeads, PlainMove
<1>3. CASE isCanceled(t) \/ isInterrupted(t)
  <2>1. pc[t] \notin {"idle", "begin"}
    BY <1>3, CheckNames DEF isCanceled, isInterrupted, Checks
  <2>2. \E why : Throws(t, why)
    BY <1>3 DEF isCanceled, isInterrupted
  <2>3. QED
    BY <2>1, <2>2, ThreadThrows
<1>4. QED
  BY <1>1, <1>2, <1>3

\* The steps that write neither record nor entry nor volume identifier.
LEMMA PlainKeepsControl ==
  ASSUME ControlOK, NEW t \in Backups,
         \/ volumeExists(t) \/ waitForVolume(t) \/ attachVolume(t) \/ startCopy(t) \/ copy(t)
         \/ saveBackup(t)
         \/ detachVolume(t) \/ deletePrevious(t) \/ deletePreviousEntry(t) \/ storeSnapshot(t)
         \/ applyRetention(t) \/ detachForCleaning(t) \/ deleteSnapshotForCleaning(t)
         \/ deleteVolumeForCleaning(t) \/ deletionIsRefused(t) \/ deleteFile(t)
  PROVE  ControlOK'
<1> USE PlainMove, ProgressNames, CheckNames DEF Pcs, OtherSteps, AfterSnapshot, AfterVolume
<1>1. CASE \/ volumeExists(t) \/ waitForVolume(t) \/ attachVolume(t) \/ startCopy(t) \/ copy(t)
           \/ saveBackup(t)
  BY <1>1 DEF volumeExists, waitForVolume, attachVolume, startCopy, copy, saveBackup
<1>2. CASE detachVolume(t) \/ deletePrevious(t) \/ deletePreviousEntry(t) \/ storeSnapshot(t)
  BY <1>2 DEF detachVolume, deletePrevious, deletePreviousEntry, storeSnapshot
<1>3. CASE \/ applyRetention(t) \/ detachForCleaning(t) \/ deleteSnapshotForCleaning(t)
           \/ deleteVolumeForCleaning(t) \/ deletionIsRefused(t) \/ deleteFile(t)
  BY <1>3 DEF applyRetention, detachForCleaning, deleteSnapshotForCleaning,
              deleteVolumeForCleaning, deletionIsRefused, deleteFile
<1>4. QED
  BY <1>1, <1>2, <1>3

\* The steps that create the snapshot and the volume, and save what they are.
LEMMA CreatingKeepsControl ==
  ASSUME ControlOK, NEW t \in Backups,
         \/ volumeIsGone(t) \/ createSnapshot(t) \/ saveSnapshotId(t) \/ createVolume(t)
         \/ saveVolumeId(t) \/ tagVolume(t)
  PROVE  ControlOK'
<1>1. /\ rec[t] \in Entries /\ HasIds(rec[t])
      /\ ent[t] \in Entries /\ HasIds(ent[t])
      /\ InPlace(pc[t], ent[t], tempVolume[t])
      /\ tempVolume[t] \in VolumeIds \union {NoId}
      /\ rec = Set(rec, t, rec[t])
      /\ ent = Set(ent, t, ent[t]) /\ tempVolume = Set(tempVolume, t, tempVolume[t])
  BY DEF ControlOK, Set
<1>2. {"idle", "saveSnapshotId", "waitingSnapshot", "saveVolumeId", "tagVolume",
       "checkWaiting"} \subseteq Pcs
  BY ProgressNames, CheckNames DEF Pcs, OtherSteps
<1>3. CASE volumeIsGone(t)
  <2>1. InPlace("idle", ent[t], tempVolume[t])
    BY DEF InPlace, AfterSnapshot, AfterVolume
  <2>2. /\ rec' = Set(rec, t, NoRecord) /\ pc' = Set(pc, t, "idle")
        /\ ent' = Set(ent, t, ent[t]) /\ tempVolume' = Set(tempVolume, t, tempVolume[t])
    BY <1>1, <1>3 DEF volumeIsGone, Goto, Set
  <2>3. QED
    BY <1>1, <1>2, <2>1, <2>2, NoRecordOK, OneThread
<1>4. CASE createSnapshot(t)
  <2> PICK s \in SnapshotIds : ent' = Set(ent, t, WithSnapshot(ent[t], s))
    BY <1>4 DEF createSnapshot
  <2> DEFINE e == WithSnapshot(ent[t], s)
  <2>1. s # NoId
    BY NoIdAssumption
  <2>2. /\ e \in Entries /\ e.snapshot = s
        /\ e.volume = ent[t].volume /\ e.progress = ent[t].progress
    BY <1>1 DEF WithSnapshot, Entry, Entries
  <2>3. HasIds(e)
    BY <1>1, <2>1, <2>2 DEF HasIds
  <2>4. pc[t] = "createSnapshot"
    BY <1>4 DEF createSnapshot, At
  <2>5. InPlace("saveSnapshotId", e, tempVolume[t])
    BY <1>1, <2>1, <2>2, <2>4 DEF InPlace, AfterVolume
  <2>6. /\ rec' = Set(rec, t, rec[t]) /\ ent' = Set(ent, t, e)
        /\ pc' = Set(pc, t, "saveSnapshotId") /\ tempVolume' = Set(tempVolume, t, tempVolume[t])
    BY <1>1, <1>4 DEF createSnapshot, Goto, Set
  <2> HIDE DEF e
  <2>7. QED
    BY <1>1, <1>2, <2>2, <2>3, <2>5, <2>6, OneThread
<1>5. CASE createVolume(t)
  <2> PICK w \in VolumeIds : ent' = Set(ent, t, WithVolume(ent[t], w))
    BY <1>5 DEF createVolume
  <2> DEFINE e == WithVolume(ent[t], w)
  <2>1. w # NoId
    BY NoIdAssumption
  <2>2. /\ e \in Entries /\ e.volume = w
        /\ e.snapshot = ent[t].snapshot /\ e.progress = ent[t].progress
    BY <1>1 DEF WithVolume, Entry, Entries
  <2>3. HasIds(e)
    BY <1>1, <2>1, <2>2 DEF HasIds
  <2>4. pc[t] = "createVolume"
    BY <1>5 DEF createVolume, At
  <2>5. InPlace("saveVolumeId", e, tempVolume[t])
    BY <1>1, <2>1, <2>2, <2>4 DEF InPlace, AfterSnapshot
  <2>6. /\ rec' = Set(rec, t, rec[t]) /\ ent' = Set(ent, t, e)
        /\ pc' = Set(pc, t, "saveVolumeId") /\ tempVolume' = Set(tempVolume, t, tempVolume[t])
    BY <1>1, <1>5 DEF createVolume, Goto, Set
  <2> HIDE DEF e
  <2>7. QED
    BY <1>1, <1>2, <2>2, <2>3, <2>5, <2>6, OneThread
<1>6. CASE saveSnapshotId(t) \/ saveVolumeId(t)
  <2>1. PICK p \in {"waitingSnapshot", "tagVolume"} :
          Save(t, ent[t]) /\ pc' = Set(pc, t, p) /\ UNCHANGED tempVolume
            /\ InPlace(p, ent[t], tempVolume[t])
    BY <1>1, <1>6 DEF saveSnapshotId, saveVolumeId, At, Goto, Set, InPlace, AfterSnapshot,
       AfterVolume
  <2>2. QED
    BY <1>1, <1>2, <2>1, ThreadSaves
<1>7. CASE tagVolume(t)
  <2>1. /\ rec' = Set(rec, t, rec[t]) /\ ent' = Set(ent, t, ent[t])
        /\ pc' = Set(pc, t, "checkWaiting") /\ tempVolume' = Set(tempVolume, t, ent[t].volume)
    BY <1>1, <1>7 DEF tagVolume, Goto, Set
  <2>2. ent[t].volume \in VolumeIds \union {NoId}
    BY <1>1 DEF Entries
  <2>3. InPlace("checkWaiting", ent[t], ent[t].volume)
    BY <1>1, <1>7 DEF tagVolume, At, InPlace, AfterSnapshot, AfterVolume
  <2>4. QED
    BY <1>1, <1>2, <2>1, <2>2, <2>3, OneThread
<1>8. QED
  BY <1>3, <1>4, <1>5, <1>6, <1>7

\* The steps from the deletion of the volume to the end of the task.
LEMMA EndingKeepsControl ==
  ASSUME ControlOK, NEW t \in Backups,
         deleteVolume(t) \/ cannotDeleteVolume(t) \/ readPrevious(t) \/ complete(t)
  PROVE  ControlOK'
<1>1. /\ ent[t] \in Entries /\ HasIds(ent[t])
      /\ InPlace(pc[t], ent[t], tempVolume[t])
  BY DEF ControlOK
<1>2. {"cleaningTempResources", "storeSnapshot", "checkPrevious", "checkCompleted"} \subseteq Pcs
  BY ProgressNames, CheckNames DEF Pcs, OtherSteps
<1>3. CASE deleteVolume(t)
  <2>1. InPlace("cleaningTempResources", ent[t], tempVolume[t])
    BY <1>1, <1>3 DEF deleteVolume, Moves, At, Deletable, InPlace, AfterSnapshot
  <2>2. pc' = Set(pc, t, "cleaningTempResources") /\ UNCHANGED <<rec, ent, tempVolume>>
    BY <1>3 DEF deleteVolume, Moves, Goto, Set
  <2>3. QED
    BY <1>2, <2>1, <2>2, ThreadMoves
<1>4. CASE cannotDeleteVolume(t)
  BY <1>4, ThreadThrows DEF cannotDeleteVolume, At
<1>5. CASE readPrevious(t)
  <2>1. PICK p \in {"storeSnapshot", "checkPrevious"} :
          pc' = Set(pc, t, p) /\ UNCHANGED <<rec, ent, tempVolume>> /\ pc[t] = "readPrevious"
    BY <1>5 DEF readPrevious, At, Goto, Set
  <2>2. QED
    BY <1>2, <2>1, ThreadMovesOn DEF AfterSnapshot, AfterVolume
<1>6. CASE complete(t)
  <2> DEFINE e == WithStatus(ent[t], "complete")
  <2>1. e \in Entries /\ HasIds(e) /\ InPlace("complete", e, tempVolume[t])
    BY <1>1, <1>6, StatusKeepsIds DEF complete, At, Statuses
  <2>2. InPlace("checkCompleted", e, tempVolume[t])
    BY <2>1 DEF InPlace, AfterSnapshot, AfterVolume
  <2>3. pc' = Set(pc, t, "checkCompleted") /\ Save(t, e) /\ UNCHANGED tempVolume
    BY <1>6 DEF complete, Goto, Set
  <2> HIDE DEF e
  <2>4. QED
    BY <1>2, <2>1, <2>2, <2>3, ThreadSaves
<1>7. QED
  BY <1>3, <1>4, <1>5, <1>6

\* The steps of a resumed backup that throw away what was begun.
LEMMA ResumingKeepsControl ==
  ASSUME ControlOK, NEW t \in Backups,
         resumeDetach(t) \/ resumeDetachSkipped(t) \/ resumeDelete(t) \/ resumeDeleteFile(t)
  PROVE  ControlOK'
<1>1. {"resumeDeleting", "resumeDeleteFile", "resumeCreating"} \subseteq Pcs
  BY ProgressNames DEF Pcs, OtherSteps
<1>2. PICK here \in {"resumeDetach", "resumeDelete", "resumeDeleteFile"},
           p \in {"resumeDeleting", "resumeDeleteFile", "resumeCreating"} :
        pc[t] = here /\ pc' = Set(pc, t, p) /\ UNCHANGED <<rec, ent, tempVolume>>
  BY DEF resumeDetach, resumeDetachSkipped, resumeDelete, resumeDeleteFile, Resumes, At, Goto, Set
<1>3. QED
  BY <1>1, <1>2, ThreadMovesOn DEF AfterSnapshot, AfterVolume

\* The steps of a cleaning, and what goes wrong.
LEMMA CleaningKeepsControl ==
  ASSUME ControlOK, NEW t \in Backups,
         \/ saveError(t) \/ afterCleaning(t) \/ cleaningFails(t) \/ awsFails(t) \/ copyFails(t)
  PROVE  ControlOK'
<1>1. /\ rec[t] \in Entries /\ HasIds(rec[t])
      /\ ent[t] \in Entries /\ HasIds(ent[t])
      /\ InPlace(pc[t], ent[t], tempVolume[t])
      /\ tempVolume[t] \in VolumeIds \union {NoId}
      /\ rec = Set(rec, t, rec[t])
      /\ ent = Set(ent, t, ent[t]) /\ tempVolume = Set(tempVolume, t, tempVolume[t])
  BY DEF ControlOK, Set
<1>2. {"detachForCleaning", "idle", "done", "afterCleaning"} \subseteq Pcs
  BY ProgressNames DEF Pcs, OtherSteps
<1>3. CASE saveError(t)
  <2> DEFINE e == WithStatus(ent[t], "error")
  <2>1. e \in Entries /\ HasIds(e) /\ InPlace("saveError", e, tempVolume[t])
    BY <1>1, <1>3, StatusKeepsIds DEF saveError, At, Statuses
  <2>2. InPlace("detachForCleaning", e, tempVolume[t])
    BY <2>1 DEF InPlace, AfterSnapshot, AfterVolume
  <2>3. pc' = Set(pc, t, "detachForCleaning") /\ Save(t, e) /\ UNCHANGED tempVolume
    BY <1>3 DEF saveError, Goto, Set
  <2> HIDE DEF e
  <2>4. QED
    BY <1>2, <2>1, <2>2, <2>3, ThreadSaves
<1>4. CASE afterCleaning(t)
  <2> DEFINE r == IF exit[t] = "failed" THEN rec[t] ELSE NoRecord
             p == IF exit[t] = "canceled" THEN "idle" ELSE "done"
  <2>1. r \in Entries /\ HasIds(r) /\ p \in Pcs
    BY <1>1, <1>2, NoRecordOK
  <2>2. InPlace(p, ent[t], tempVolume[t])
    BY <1>1, <1>4 DEF afterCleaning, At, InPlace, AfterSnapshot, AfterVolume
  <2>3. rec' = Set(rec, t, r) /\ pc' = Set(pc, t, p) /\ UNCHANGED <<ent, tempVolume>>
    BY <1>1, <1>4 DEF afterCleaning, Goto, Set
  <2> HIDE DEF r, p
  <2>4. QED
    BY <1>1, <2>1, <2>2, <2>3, OneThread
<1>5. CASE cleaningFails(t)
  <2>1. PICK here \in {"detachForCleaning", "deleteVolumeForCleaning"} :
          pc[t] = here /\ pc' = Set(pc, t, "afterCleaning") /\ UNCHANGED <<rec, ent, tempVolume>>
    BY <1>5 DEF cleaningFails, Goto, Set
  <2>2. QED
    BY <1>2, <2>1, ThreadMovesOn DEF AfterSnapshot, AfterVolume
<1>6. CASE awsFails(t) \/ copyFails(t)
  <2>1. pc[t] \notin {"idle", "begin"}
    BY <1>6 DEF awsFails, copyFails, CallsToAws, At
  <2>2. \E why : Throws(t, why)
    BY <1>6 DEF awsFails, copyFails
  <2>3. QED
    BY <2>1, <2>2, ThreadThrows
<1>7. QED
  BY <1>3, <1>4, <1>5, <1>6

\* What users, shutdowns and crashes do to records.
LEMMA EnvironmentKeepsControl ==
  ASSUME ControlOK,
         \/ \E t \in Backups : cancel(t)
         \/ \E v \in VolumeIds : volumeIsCreated(v)
         \/ updateCanceledTasks \/ destroy \/ restart \/ UNCHANGED vars
  PROVE  ControlOK'
<1>1. \A t \in Backups : rec[t] \in Entries /\ HasIds(rec[t])
  BY DEF ControlOK
<1>2. CASE \E t \in Backups : cancel(t)
  <2> PICK t \in Backups : cancel(t)
    BY <1>2
  <2> DEFINE r == WithStatus(rec[t], "canceled")
  <2>1. r \in Entries /\ HasIds(r)
    BY <1>1, StatusKeepsIds DEF Statuses
  <2>2. /\ rec' = Set(rec, t, r) /\ ent' = Set(ent, t, ent[t]) /\ pc' = Set(pc, t, pc[t])
        /\ tempVolume' = Set(tempVolume, t, tempVolume[t])
    BY DEF cancel, thread, ControlOK, Set
  <2>3. /\ ent[t] \in Entries /\ HasIds(ent[t]) /\ pc[t] \in Pcs
        /\ tempVolume[t] \in VolumeIds \union {NoId} /\ InPlace(pc[t], ent[t], tempVolume[t])
    BY DEF ControlOK
  <2> HIDE DEF r
  <2>4. QED
    BY <2>1, <2>2, <2>3, OneThread
<1>3. CASE \/ \E v \in VolumeIds : volumeIsCreated(v)
           \/ updateCanceledTasks \/ destroy \/ UNCHANGED vars
  <2>1. UNCHANGED <<rec, ent, pc, tempVolume>>
    BY <1>3 DEF volumeIsCreated, updateCanceledTasks, destroy, vars, thread
  <2>2. QED
    BY <2>1 DEF ControlOK
<1>4. CASE restart
  <2> DEFINE r(t) == IF rec[t].status = "running" THEN WithStatus(rec[t], "partially_finished")
                                                  ELSE rec[t]
  <2>1. \A t \in Backups : r(t) \in Entries /\ HasIds(r(t))
    BY <1>1, StatusKeepsIds DEF Statuses
  <2>2. rec' = [t \in Backups |-> r(t)] /\ ent' = [t \in Backups |-> r(t)]
    BY <1>4 DEF restart
  <2>3. /\ pc' = [t \in Backups |-> "idle"]
        /\ tempVolume' = [t \in Backups |-> NoId]
    BY <1>4 DEF restart
  <2>4. "idle" \in Pcs /\ \A e : InPlace("idle", e, NoId)
    BY DEF Pcs, OtherSteps, InPlace, AfterSnapshot, AfterVolume
  <2> HIDE DEF r
  <2>5. QED
    BY <2>1, <2>2, <2>3, <2>4 DEF ControlOK
<1>5. QED
  BY <1>2, <1>3, <1>4

\* Together: every step.
LEMMA NextKeepsControl == ControlOK /\ [Next]_vars => ControlOK'
<1> SUFFICES ASSUME ControlOK, [Next]_vars
             PROVE  ControlOK'
  OBVIOUS
<1>1. CASE \E t \in Backups : submit(t) \/ Execute(t) \/ Failure(t)
  <2> PICK t \in Backups : submit(t) \/ Execute(t) \/ Failure(t)
    BY <1>1
  <2>1. CASE submit(t) \/ Failure(t)
    BY <2>1, StartKeepsControl, CleaningKeepsControl DEF Failure
  <2>2. CASE Execute(t)
    BY <2>2, StartKeepsControl, CommonKeepsControl, PlainKeepsControl, CreatingKeepsControl,
       EndingKeepsControl, ResumingKeepsControl, CleaningKeepsControl DEF Execute
  <2>3. QED
    BY <2>1, <2>2
<1>2. CASE \/ \E t \in Backups : cancel(t)
           \/ \E v \in VolumeIds : volumeIsCreated(v)
           \/ updateCanceledTasks \/ destroy \/ restart \/ UNCHANGED vars
  BY <1>2, EnvironmentKeepsControl
<1>3. QED
  BY <1>1, <1>2 DEF Next

-----------------------------------------------------------------------------
(* The rest of the types                                                   *)

\* The counters only count.
LEMMA FailuresAreCounted ==
  ASSUME RestOK, NEW v, Fails \/ LookupError(v)
  PROVE  failures' \in Nat
BY DEF RestOK, Fails, LookupError

\* The locals of a thread that are not identifiers of volumes.
LEMMA ThrowsKeepsRest ==
  ASSUME RestOK, NEW t \in Backups, NEW why \in {"canceled", "closing", "failed"}, Throws(t, why)
  PROVE  /\ previous' \in [Backups -> SnapshotIds \union {NoId}]
         /\ exit' \in [Backups -> {"none", "canceled", "closing", "failed"}]
BY DEF RestOK, Throws, Set

\* Every step of execute: the snapshot that is stored is a snapshot.
LEMMA ExecuteKeepsRest ==
  ASSUME ControlOK, RestOK, NEW t \in Backups, Execute(t)
  PROVE  RestOK'
<1> USE DEF RestOK, Set, thread, cloud, catalog, counters
<1>1. CASE begin(t) \/ setProgress(t) \/ notInterrupted(t)
  BY <1>1 DEF begin, setProgress, notInterrupted, Moves
<1>2. CASE isCanceled(t) \/ isInterrupted(t) \/ cannotDeleteVolume(t)
  BY <1>2, ThrowsKeepsRest DEF isCanceled, isInterrupted, cannotDeleteVolume
<1>3. CASE \/ volumeExists(t) \/ volumeIsGone(t) \/ createSnapshot(t) \/ saveSnapshotId(t)
           \/ createVolume(t) \/ saveVolumeId(t) \/ tagVolume(t)
  BY <1>3 DEF volumeExists, volumeIsGone, createSnapshot, saveSnapshotId, createVolume,
              saveVolumeId, tagVolume, Moves
<1>4. CASE \/ waitForVolume(t) \/ attachVolume(t) \/ startCopy(t) \/ copy(t) \/ saveBackup(t)
           \/ detachVolume(t) \/ deleteVolume(t)
  BY <1>4 DEF waitForVolume, attachVolume, startCopy, copy, saveBackup, detachVolume,
     deleteVolume, Moves
<1>5. CASE readPrevious(t) \/ deletePrevious(t) \/ deletePreviousEntry(t)
  BY <1>5 DEF readPrevious, deletePrevious, deletePreviousEntry, Moves
<1>6. CASE storeSnapshot(t)
  <2>1. ent[t].snapshot \in SnapshotIds
    BY <1>6 DEF ControlOK, storeSnapshot, Moves, At, InPlace, AfterSnapshot, Entries
  <2>2. QED
    BY <1>6, <2>1 DEF storeSnapshot, Moves
<1>7. CASE complete(t) \/ applyRetention(t)
  BY <1>7 DEF complete, applyRetention, Moves
<1>8. CASE resumeDetach(t) \/ resumeDetachSkipped(t) \/ resumeDelete(t) \/ resumeDeleteFile(t)
  BY <1>8 DEF resumeDetach, resumeDetachSkipped, resumeDelete, resumeDeleteFile, Resumes
<1>9. CASE \/ saveError(t) \/ detachForCleaning(t) \/ deleteSnapshotForCleaning(t)
           \/ deleteVolumeForCleaning(t) \/ deleteFile(t) \/ afterCleaning(t)
  BY <1>9 DEF saveError, detachForCleaning, deleteSnapshotForCleaning, deleteVolumeForCleaning,
              deleteFile, afterCleaning, Moves
<1>10. CASE deletionIsRefused(t)
  <2>1. tempVolume[t] \in VolumeIds
    BY <1>10 DEF deletionIsRefused, Creating, ControlOK
  <2>2. QED
    BY <1>10, <2>1 DEF deletionIsRefused, Moves
<1>11. QED
  BY <1>1, <1>2, <1>3, <1>4, <1>5, <1>6, <1>7, <1>8, <1>9, <1>10 DEF Execute

\* Every other step.
LEMMA NextKeepsRest == ControlOK /\ RestOK /\ [Next]_vars => RestOK'
<1> SUFFICES ASSUME ControlOK, RestOK, [Next]_vars
             PROVE  RestOK'
  OBVIOUS
<1> USE DEF thread, cloud, catalog, counters
<1>1. CASE \E t \in Backups : submit(t)
  BY <1>1 DEF submit, RestOK
<1>2. CASE \E t \in Backups : Execute(t)
  BY <1>2, ExecuteKeepsRest
<1>3. CASE \E t \in Backups : Failure(t)
  <2> PICK t \in Backups : Failure(t)
    BY <1>3
  <2>1. CASE lookupFails(t)
    BY <2>1, FailuresAreCounted DEF lookupFails, RestOK
  <2>2. CASE awsFails(t)
    BY <2>2, FailuresAreCounted, ThrowsKeepsRest DEF awsFails, Fails, RestOK
  <2>3. CASE copyFails(t)
    BY <2>3, FailuresAreCounted, ThrowsKeepsRest DEF copyFails, Fails, RestOK
  <2>4. CASE cleaningFails(t)
    BY <2>4, FailuresAreCounted DEF cleaningFails, RestOK
  <2>5. QED
    BY <2>1, <2>2, <2>3, <2>4 DEF Failure
<1>4. CASE \E t \in Backups : cancel(t)
  BY <1>4 DEF cancel, RestOK
<1>5. CASE updateCanceledTasks
  BY <1>5 DEF updateCanceledTasks, RestOK
<1>6. CASE destroy
  <2>1. closing' \in BOOLEAN
    BY <1>6 DEF destroy
  <2>2. shutdowns' \in Nat
    BY <1>6 DEF destroy, RestOK
  <2>3. UNCHANGED <<previous, exit, canceled, volumes, snapshots, file, backupList,
                    refused, snapshotTable, crashes, cancels, failures>>
    BY <1>6 DEF destroy
  <2>4. QED
    BY <2>1, <2>2, <2>3 DEF RestOK
<1>7. CASE restart
  <2>1. closing' \in BOOLEAN
    BY <1>7 DEF restart
  <2>2. crashes' \in Nat
    BY <1>7 DEF restart, RestOK
  <2>3. /\ previous' = [t \in Backups |-> NoId]
        /\ exit' = [t \in Backups |-> "none"]
        /\ canceled' = {}
    BY <1>7 DEF restart
  <2>4. UNCHANGED <<volumes, refused, snapshots, file, backupList, snapshotTable, shutdowns,
                    cancels, failures>>
    BY <1>7 DEF restart
  <2>5. QED
    BY <2>1, <2>2, <2>3, <2>4 DEF RestOK
<1>8. CASE UNCHANGED vars \/ \E v \in VolumeIds : volumeIsCreated(v)
  BY <1>8 DEF vars, volumeIsCreated, Set, RestOK
<1>9. QED
  BY <1>1, <1>2, <1>3, <1>4, <1>5, <1>6, <1>7, <1>8 DEF Next

-----------------------------------------------------------------------------
(* The theorems                                                            *)

\* Backups start queued, with nothing created.
LEMMA InitIInv == Init => IInv
<1> SUFFICES ASSUME Init
             PROVE  IInv
  OBVIOUS
<1>1. \A t \in Backups : rec[t] = Entry("queued", "NONE", NoId, NoId)
  BY DEF Init
<1>2. LET e == Entry("queued", "NONE", NoId, NoId) IN e \in Entries /\ HasIds(e)
  BY DEF Entry, Entries, HasIds, SnapshotProgresses, Statuses, Progresses
<1>3. "idle" \in Pcs /\ \A e : InPlace("idle", e, NoId)
  BY DEF Pcs, OtherSteps, InPlace, AfterSnapshot, AfterVolume
<1>4. ControlOK
  BY <1>1, <1>2, <1>3 DEF Init, ControlOK
<1>5. RestOK
  BY DEF Init, RestOK
<1>6. QED
  BY <1>4, <1>5 DEF IInv

\* The inductive invariant holds throughout.
LEMMA IInvHolds == Spec => []IInv
<1>1. IInv /\ [Next]_vars => IInv'
  BY NextKeepsControl, NextKeepsRest DEF IInv
<1>2. QED
  BY InitIInv, <1>1, PTL DEF Spec

\* Type correctness, for any number of backups, identifiers and faults:
\* identifiers are known ones wherever execute hands them on unasked.
THEOREM TypesHold == Spec => []TypeOK
<1>1. IInv => TypeOK
  BY DEF IInv, ControlOK, RestOK, TypeOK, Entries
<1>2. QED
  BY IInvHolds, <1>1, PTL
=============================================================================
