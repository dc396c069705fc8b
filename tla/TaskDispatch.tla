---------------------------- MODULE TaskDispatch ----------------------------
(***************************************************************************)
(* The life of one-off tasks on one stand-alone node: the request threads  *)
(* of TaskServiceImpl, the single dispatcher thread of WorkersDispatcher,  *)
(* its two fixed thread pools, the schedulers and a restart.               *)
(*                                                                         *)
(* Every writer works on a COPY of the TaskEntry and saves the whole       *)
(* record: taskRepository.save overwrites what others wrote since the copy *)
(* was read, and re-creates a record that was deleted.  So the table is a  *)
(* function `status' that each save overwrites without looking.            *)
(*                                                                         *)
(* The executors appear here only by the writes they make to the task      *)
(* record and by their cancellation checks, in any order the code allows;  *)
(* the order of their steps is the subject of module BackupExecutor.       *)
(***************************************************************************)
EXTENDS Integers, Sequences, FiniteSets

CONSTANTS
  Tasks,            \* task identifiers (UUIDs) that requests may use
  NoTask,           \* no task at all
  TypeOf,           \* the type a request gives to each task
  BackupThreads,    \* the threads of backupExecutor
  RestoreThreads,   \* the threads of restoreExecutor
  MaxQueueSize,     \* configurationMediator.getMaxQueueSize()
  MaxRestarts,      \* bound: restarts of the node
  MaxOutages        \* bound: reconfigurations of SDFS

Pools   == {"backup", "restore"}
Types   == Pools \union {"delete", "system_backup"}
Threads == BackupThreads \union RestoreThreads

ASSUME TypeOfAssumption == TypeOf \in [Tasks -> Types]
ASSUME NoTaskAssumption == NoTask \notin Tasks
ASSUME PoolsAssumption  == BackupThreads \intersect RestoreThreads = {}
ASSUME BoundsAssumption == /\ MaxQueueSize \in Nat
                           /\ MaxRestarts \in Nat
                           /\ MaxOutages \in Nat

\* TaskEntryStatus, and "absent" when the table holds no record of the task.
Statuses == {"absent", "queued", "waiting", "running", "complete", "canceled",
             "partially_finished", "error"}

VARIABLES
  status,      \* the Tasks table: the status column of each task's record
  created,     \* identifiers handed out so far
  canceled,    \* TaskServiceImpl.canceledTasks, in memory
  disp,        \* the dispatcher thread: where it is and the entry it holds
  queue,       \* the LinkedBlockingQueue of each pool
  thread,      \* each pool thread: where it is and the entry it executes
  req,         \* a removeTask request between its read and its write
  sdfs,        \* whether SDFS runs, is being reconfigured or was left stopped
  outages,     \* reconfigurations of SDFS so far
  restarts,    \* restarts of the node so far
  stranded     \* history: tasks whose holder was lost while they were waiting

vars == <<status, created, canceled, disp, queue, thread, req, sdfs,
          outages, restarts, stranded>>

\* A dispatcher that has "ended" has left its loop and is not started again.
DispPcs   == {"poll", "check", "save", "submit", "inline", "inlineRun", "inlineDone",
              "inlineFailed", "ended"}
SdfsStates == {"running", "reconfiguring", "stopped"}
ThreadPcs == {"idle", "start", "resumed", "begun", "run", "completed", "failed", "cleaning",
              "interrupted", "rewrite"}
ReqPcs    == {"idle", "read", "refresh"}

Idle(first) == [pc |-> first, task |-> NoTask]
PoolOf(th)  == IF th \in BackupThreads THEN "backup" ELSE "restore"

-----------------------------------------------------------------------------
(* Reading the table                                                       *)

\* TaskServiceImpl.updateCanceledTasks rebuilds the set from the table.
canceledInTable == {t \in Tasks : status[t] = "canceled"}

\* TaskServiceImpl.getTasksInQueue: backups and restores queued or waiting.
getTasksInQueue ==
  Cardinality({t \in Tasks : TypeOf[t] \in Pools /\ status[t] \in {"queued", "waiting"}})

\* Deviation: the query for unfinished tasks is dropped.
getAssignedTasksWithoutPartial == {t \in Tasks : status[t] = "queued"}

\* Deviation: tasks that are being executed are assigned again.
getAssignedTasksWithRunning ==
  {t \in Tasks : status[t] \in {"queued", "partially_finished", "running"}}

\* WorkersDispatcher.getAssignedTasks
getAssignedTasks == {t \in Tasks : status[t] \in {"queued", "partially_finished"}}

Priority(t) == IF TypeOf[t] = "delete" THEN 1 ELSE 0

\* The first entries of the sorted set: highest priority; which of those was
\* scheduled first is left open.
firstAssigned ==
  {t \in getAssignedTasks : \A u \in getAssignedTasks : Priority(u) <= Priority(t)}

-----------------------------------------------------------------------------
Init ==
  /\ status   = [t \in Tasks |-> "absent"]
  /\ created  = {}
  /\ canceled = {}
  /\ disp     = Idle("poll")
  /\ queue    = [p \in Pools |-> <<>>]
  /\ thread   = [th \in Threads |-> Idle("idle")]
  /\ req      = [pc |-> "idle", task |-> NoTask, seen |-> "absent"]
  /\ sdfs     = "running"
  /\ outages  = 0
  /\ restarts = 0
  /\ stranded = {}

-----------------------------------------------------------------------------
(* Requests                                                                *)

\* The record is written once the request passed its checks.
saveNewTask(t) ==
  /\ created' = created \union {t}
  /\ status'  = [status EXCEPT ![t] = "queued"]
  /\ UNCHANGED <<canceled, disp, queue, thread, req, sdfs, outages, restarts, stranded>>

\* TaskServiceImpl.createTask, for one volume of a request.  That a restore
\* needs an existing backup is left to the environment.
createTask(t) ==
  /\ t \notin created
  /\ TypeOf[t] # "delete"
  /\ getTasksInQueue < MaxQueueSize
  /\ saveNewTask(t)

\* BackupServiceImpl.deleteBackup writes its task without asking the queue.
deleteBackup(t) ==
  /\ t \notin created
  /\ TypeOf[t] = "delete"
  /\ saveNewTask(t)

\* SpringSchedulerService.TaskImpl.run: isQueueFull compares with ">".
scheduleBackup(t) ==
  /\ t \notin created
  /\ TypeOf[t] = "backup"
  /\ ~(getTasksInQueue > MaxQueueSize)
  /\ saveNewTask(t)

\* TaskServiceImpl.removeTask reads the record ...
removeTaskRead(t) ==
  /\ req.pc = "idle"
  /\ status[t] # "absent"
  /\ req' = [pc |-> "read", task |-> t, seen |-> status[t]]
  /\ UNCHANGED <<status, created, canceled, disp, queue, thread, sdfs,
                 outages, restarts, stranded>>

\* ... and if it saw it running marks it canceled ...
removeTaskCancel ==
  /\ req.pc = "read"
  /\ req.seen = "running"
  /\ status'   = [status EXCEPT ![req.task] = "canceled"]
  /\ canceled' = canceled \union {req.task}
  /\ req'      = [pc |-> "refresh", task |-> req.task, seen |-> req.seen]
  /\ UNCHANGED <<created, disp, queue, thread, sdfs, outages, restarts, stranded>>

\* ... then refreshes the set of canceled tasks from the table ...
removeTaskRefresh ==
  /\ req.pc = "refresh"
  /\ canceled' = canceledInTable
  /\ req'      = [pc |-> "idle", task |-> NoTask, seen |-> "absent"]
  /\ UNCHANGED <<status, created, disp, queue, thread, sdfs, outages, restarts, stranded>>

\* ... otherwise it deletes the record, whatever its status is by now.
removeTaskDelete ==
  /\ req.pc = "read"
  /\ req.seen # "running"
  /\ status'   = [status EXCEPT ![req.task] = "absent"]
  /\ req'      = [pc |-> "idle", task |-> NoTask, seen |-> "absent"]
  /\ UNCHANGED <<created, canceled, disp, queue, thread, sdfs, outages, restarts, stranded>>

\* The job canceledTaskCheck, every five seconds.
updateCanceledTasks ==
  /\ canceled' = canceledInTable
  /\ UNCHANGED <<status, created, disp, queue, thread, req, sdfs, outages,
                 restarts, stranded>>

-----------------------------------------------------------------------------
(* The dispatcher thread                                                   *)

DispatcherStep(from, to) ==
  /\ disp.pc = from
  /\ disp' = IF to = "poll" THEN Idle("poll") ELSE [pc |-> to, task |-> disp.task]
  /\ UNCHANGED <<created, canceled, thread, req, sdfs, outages, restarts, stranded>>

Save(t, s) == status' = [status EXCEPT ![t] = s]

pollAssigned ==
  /\ disp.pc = "poll"
  /\ \E t \in firstAssigned : disp' = [pc |-> "check", task |-> t]
  /\ UNCHANGED <<status, created, canceled, queue, thread, req, sdfs, outages,
                 restarts, stranded>>

\* taskService.exists fails: the entry is skipped.
skipRemoved ==
  /\ DispatcherStep("check", "poll")
  /\ status[disp.task] = "absent"
  /\ UNCHANGED <<status, queue>>

\* SDFSStateServiceImpl.sdfsIsAvailable: no reconfiguration, and SDFS runs.
sdfsIsAvailable == sdfs = "running"

\* SDFS is away: the task stays first in the set.
breakWhenSdfsIsDown ==
  /\ DispatcherStep("check", "poll")
  /\ status[disp.task] # "absent"
  /\ TypeOf[disp.task] \in Pools
  /\ ~sdfsIsAvailable
  /\ UNCHANGED <<status, queue>>

\* The script that asks SDFS for its state fails: the task ends in error.
sdfsCheckFails ==
  /\ DispatcherStep("check", "poll")
  /\ status[disp.task] # "absent"
  /\ TypeOf[disp.task] \in Pools
  /\ Save(disp.task, "error")
  /\ UNCHANGED queue

acceptPooled ==
  /\ DispatcherStep("check", "save")
  /\ status[disp.task] # "absent"
  /\ TypeOf[disp.task] \in Pools
  /\ sdfsIsAvailable
  /\ UNCHANGED <<status, queue>>

\* Deviation: the task is submitted and its record left queued.
saveWaitingForgotten ==
  /\ DispatcherStep("save", "submit")
  /\ UNCHANGED <<status, queue>>

saveWaiting ==
  /\ DispatcherStep("save", "submit")
  /\ Save(disp.task, "waiting")
  /\ UNCHANGED queue

\* Deviation: the pool rejects the task and nobody looks.
submitDropped ==
  /\ DispatcherStep("submit", "poll")
  /\ UNCHANGED <<status, queue>>

submit ==
  /\ DispatcherStep("submit", "poll")
  /\ queue' = [queue EXCEPT ![TypeOf[disp.task]] = Append(@, disp.task)]
  /\ UNCHANGED status

acceptInline ==
  /\ DispatcherStep("check", "inline")
  /\ status[disp.task] # "absent"
  /\ TypeOf[disp.task] \notin Pools
  /\ UNCHANGED <<status, queue>>

\* DELETE and SYSTEM_BACKUP are executed by the dispatcher thread itself.
inlineBegin ==
  /\ DispatcherStep("inline", "inlineRun")
  /\ Save(disp.task, "running")
  /\ UNCHANGED queue

\* taskService.complete; a system backup deletes its record instead.
inlineComplete ==
  /\ UNCHANGED queue
  /\ \/ /\ DispatcherStep("inlineRun", "inlineDone")
        /\ TypeOf[disp.task] = "delete"
        /\ Save(disp.task, "complete")
     \/ /\ DispatcherStep("inlineRun", "poll")
        /\ TypeOf[disp.task] = "system_backup"
        /\ Save(disp.task, "absent")

\* setProgress(DONE) saves the whole entry once more.
inlineDone ==
  /\ DispatcherStep("inlineDone", "poll")
  /\ Save(disp.task, "complete")
  /\ UNCHANGED queue

\* The dispatcher's own handler, also for what fails after the task completed.
inlineFail ==
  /\ DispatcherStep("inlineRun", "poll") \/ DispatcherStep("inlineDone", "poll")
  /\ Save(disp.task, "error")
  /\ UNCHANGED queue

\* AWSDeleteTaskExecutor has a handler as well: it saves the entry twice.
deleteFails ==
  /\ DispatcherStep("inlineRun", "inlineFailed") \/ DispatcherStep("inlineDone", "inlineFailed")
  /\ TypeOf[disp.task] = "delete"
  /\ Save(disp.task, "error")
  /\ UNCHANGED queue

setProgressAfterDeleteFails ==
  /\ DispatcherStep("inlineFailed", "poll")
  /\ Save(disp.task, "error")
  /\ UNCHANGED queue

\* An AmazonClientException is only logged: the record stays as it is.
inlineAwsFail ==
  /\ DispatcherStep("inlineRun", "poll")
  /\ UNCHANGED <<status, queue>>

Dispatcher ==
  \/ pollAssigned
  \/ skipRemoved
  \/ breakWhenSdfsIsDown
  \/ sdfsCheckFails
  \/ acceptPooled
  \/ saveWaiting
  \/ submit
  \/ acceptInline
  \/ inlineBegin
  \/ inlineComplete
  \/ inlineDone
  \/ inlineFail
  \/ deleteFails
  \/ setProgressAfterDeleteFails
  \/ inlineAwsFail

\* The loop returns, or an exception leaves it: the thread was interrupted,
\* the application context or an AWS client is closed, or the save by which the
\* handler marks an entry failed.  Only the end of the pools makes submit
\* fail, so an entry that was saved as waiting is submitted.
dispatcherEnds ==
  /\ disp.pc \notin {"ended", "submit"}
  /\ disp' = Idle("ended")
  /\ UNCHANGED <<status, created, canceled, queue, thread, req, sdfs, outages,
                 restarts, stranded>>

-----------------------------------------------------------------------------
(* The pool threads: AWSBackup- and AWSRestoreVolumeStrategyTaskExecutor   *)

ThreadStep(th, from, to) ==
  /\ thread[th].pc \in from
  /\ thread' = [thread EXCEPT ![th] =
                  IF to = "idle" THEN Idle("idle") ELSE [pc |-> to, task |-> @.task]]
  /\ UNCHANGED <<created, disp, queue, req, sdfs, outages, restarts, stranded>>

take(th) ==
  /\ thread[th].pc = "idle"
  /\ queue[PoolOf(th)] # <<>>
  /\ thread' = [thread EXCEPT ![th] = [pc |-> "start", task |-> Head(queue[PoolOf(th)])]]
  /\ queue'  = [queue EXCEPT ![PoolOf(th)] = Tail(@)]
  /\ UNCHANGED <<status, created, canceled, disp, req, sdfs, outages, restarts, stranded>>

\* The first save of execute does not look at the record.
begin(th) ==
  /\ ThreadStep(th, {"start"}, "begun")
  /\ Save(thread[th].task, "running")
  /\ UNCHANGED canceled

\* Only a backup that a restart interrupted has a temporary volume to look up:
\* this is outside of execute's try block, and nobody reads the future.
lookupFails(th) ==
  /\ thread[th].pc = "start"
  /\ PoolOf(th) = "backup"
  /\ restarts > 0
  /\ thread'   = [thread EXCEPT ![th] = Idle("idle")]
  /\ stranded' = stranded \union {thread[th].task}
  /\ UNCHANGED <<status, created, canceled, disp, queue, req, sdfs, outages, restarts>>

\* A restore that a restart interrupted while it cleaned up goes on with that,
\* and saves an entry that still says waiting.
resumeCleaning(th) ==
  /\ ThreadStep(th, {"start", "resumed"}, "resumed")
  /\ PoolOf(th) = "restore"
  /\ restarts > 0
  /\ Save(thread[th].task, "waiting")
  /\ UNCHANGED canceled

resumedCleaningEnds(th) ==
  /\ ThreadStep(th, {"resumed"}, "idle")
  /\ Save(thread[th].task, "absent") \/ Save(thread[th].task, "error")
  /\ UNCHANGED canceled

\* A backup of a volume that is gone removes its task.
volumeIsGone(th) ==
  /\ ThreadStep(th, {"begun"}, "idle")
  /\ PoolOf(th) = "backup"
  /\ Save(thread[th].task, "absent")
  /\ UNCHANGED canceled

\* setProgress, and the other saves of the entry, between two steps; a restore
\* saves while it cleans up as well.
setProgress(th) ==
  /\ \/ ThreadStep(th, {"begun", "run"}, "run")
     \/ ThreadStep(th, {"cleaning"}, "cleaning") /\ PoolOf(th) = "restore"
  /\ Save(thread[th].task, "running")
  /\ UNCHANGED canceled

\* checkThreadInterruption finds the task in the set and takes it out;
\* interruptedCleaningStep saves the entry with its in-memory status.
isCanceled(th) ==
  /\ \/ /\ ThreadStep(th, {"run"}, "cleaning")
        /\ Save(thread[th].task, "running")
     \/ /\ ThreadStep(th, {"completed"}, "cleaning")
        /\ Save(thread[th].task, "complete")
  /\ thread[th].task \in canceled
  /\ canceled' = canceled \ {thread[th].task}

\* restoreFromSnapshot handles the cancel itself: it deletes the record, and
\* execute goes on to save it as complete.
isCanceledInRestoreFromSnapshot(th) ==
  /\ ThreadStep(th, {"run"}, "idle")
  /\ PoolOf(th) = "restore"
  /\ thread[th].task \in canceled
  /\ canceled' = canceled \ {thread[th].task}
  /\ Save(thread[th].task, "complete")

\* The end of interruptedCleaningStep.
deleteCanceled(th) ==
  /\ ThreadStep(th, {"cleaning"}, "idle")
  /\ Save(thread[th].task, "absent")
  /\ UNCHANGED canceled

\* A failed cp is reported as EnhancedSnapshotsInterruptedException: the task
\* is cleaned up like a canceled one, and then saved once more.
copyFails(th) ==
  /\ ThreadStep(th, {"run"}, "interrupted")
  /\ PoolOf(th) = "backup"
  /\ Save(thread[th].task, "running")
  /\ UNCHANGED canceled

deleteInterrupted(th) ==
  /\ ThreadStep(th, {"interrupted"}, "rewrite")
  /\ Save(thread[th].task, "absent")
  /\ UNCHANGED canceled

\* Deviation: an interrupted copy is cleaned up again and again.
setProgressAfterInterruptRetries(th) ==
  /\ ThreadStep(th, {"rewrite"}, "interrupted")
  /\ Save(thread[th].task, "running")
  /\ UNCHANGED canceled

setProgressAfterInterrupt(th) ==
  /\ ThreadStep(th, {"rewrite"}, "idle")
  /\ Save(thread[th].task, "running")
  /\ UNCHANGED canceled

complete(th) ==
  /\ ThreadStep(th, {"run"}, IF PoolOf(th) = "backup" THEN "completed" ELSE "idle")
  /\ Save(thread[th].task, "complete")
  /\ UNCHANGED canceled

\* Deviation: the thread is handed back and keeps its entry.
setProgressDoneKeepsEntry(th) ==
  /\ thread[th].pc = "completed"
  /\ thread' = [thread EXCEPT ![th].pc = "idle"]
  /\ Save(thread[th].task, "complete")
  /\ UNCHANGED <<canceled, created, disp, queue, req, sdfs, outages, restarts, stranded>>

setProgressDone(th) ==
  /\ ThreadStep(th, {"completed"}, "idle")
  /\ Save(thread[th].task, "complete")
  /\ UNCHANGED canceled

\* failCleaningStep, also for an exception after the task was completed.
fail(th) ==
  /\ ThreadStep(th, {"run", "completed"}, IF PoolOf(th) = "backup" THEN "failed" ELSE "idle")
  /\ Save(thread[th].task, "error")
  /\ UNCHANGED canceled

setProgressDoneAfterFailure(th) ==
  /\ ThreadStep(th, {"failed"}, "idle")
  /\ Save(thread[th].task, "error")
  /\ UNCHANGED canceled

Executor(th) ==
  \/ take(th)
  \/ begin(th)
  \/ lookupFails(th)
  \/ resumeCleaning(th)
  \/ resumedCleaningEnds(th)
  \/ volumeIsGone(th)
  \/ setProgress(th)
  \/ isCanceled(th)
  \/ isCanceledInRestoreFromSnapshot(th)
  \/ deleteCanceled(th)
  \/ copyFails(th)
  \/ deleteInterrupted(th)
  \/ setProgressAfterInterrupt(th)
  \/ complete(th)
  \/ setProgressDone(th)
  \/ fail(th)
  \/ setProgressDoneAfterFailure(th)

-----------------------------------------------------------------------------
(* The environment                                                         *)

\* SDFSStateServiceImpl.reconfigureAndRestartSDFS, one at a time: the flag is
\* set and SDFS is stopped; a request may also follow one that failed ...
sdfsGoesDown ==
  /\ sdfs # "reconfiguring"
  /\ outages < MaxOutages
  /\ sdfs'    = "reconfiguring"
  /\ outages' = outages + 1
  /\ UNCHANGED <<status, created, canceled, disp, queue, thread, req, restarts, stranded>>

\* ... and the flag is reset in any case, with SDFS running again (or still,
\* if it could not be stopped) ...
sdfsComesBack ==
  /\ sdfs = "reconfiguring"
  /\ sdfs' = "running"
  /\ UNCHANGED <<status, created, canceled, disp, queue, thread, req, outages,
                 restarts, stranded>>

\* ... or left stopped, if it could not be configured or started: nothing
\* starts it but another reconfiguration or a restart of the node.
sdfsStaysDown ==
  /\ sdfs = "reconfiguring"
  /\ sdfs' = "stopped"
  /\ UNCHANGED <<status, created, canceled, disp, queue, thread, req, outages,
                 restarts, stranded>>

\* Everything in memory is lost; TaskServiceImpl.init looks for running tasks
\* only, so one that was waiting stays waiting and one being canceled canceled.
restart ==
  /\ restarts < MaxRestarts
  /\ restarts' = restarts + 1
  /\ status'   = [t \in Tasks |-> IF status[t] = "running" THEN "partially_finished"
                                                          ELSE status[t]]
  /\ canceled' = {}
  /\ disp'     = Idle("poll")
  /\ queue'    = [p \in Pools |-> <<>>]
  /\ thread'   = [th \in Threads |-> Idle("idle")]
  /\ req'      = [pc |-> "idle", task |-> NoTask, seen |-> "absent"]
  /\ sdfs'     = "running"
  /\ stranded' = {t \in Tasks : status[t] = "waiting"}
  /\ UNCHANGED <<created, outages>>

Request ==
  \/ \E t \in Tasks : createTask(t) \/ deleteBackup(t) \/ scheduleBackup(t) \/ removeTaskRead(t)
  \/ removeTaskCancel
  \/ removeTaskRefresh
  \/ removeTaskDelete

Next ==
  \/ Request
  \/ updateCanceledTasks
  \/ Dispatcher
  \/ \E th \in Threads : Executor(th)
  \/ sdfsGoesDown
  \/ sdfsComesBack
  \/ sdfsStaysDown
  \/ dispatcherEnds
  \/ restart

Spec == Init /\ [][Next]_vars

\* The threads of the program go on while they run; AWS operations of an
\* executor and the scripts of a reconfiguration end, one way or the other.
\* Users, restarts and the end of the dispatcher owe nothing, and nobody owes
\* a reconfiguration that succeeds.
Fairness ==
  /\ WF_vars(Dispatcher)
  /\ WF_vars(removeTaskCancel \/ removeTaskRefresh \/ removeTaskDelete)
  /\ WF_vars(sdfsComesBack \/ sdfsStaysDown)
  /\ \A th \in Threads :
       /\ WF_vars(take(th) \/ begin(th) \/ deleteCanceled(th) \/ deleteInterrupted(th)
                  \/ setProgressAfterInterrupt(th) \/ setProgressDone(th)
                  \/ setProgressDoneAfterFailure(th) \/ resumedCleaningEnds(th))
       /\ WF_vars(volumeIsGone(th) \/ (thread[th].pc = "begun" /\ setProgress(th)))
       /\ WF_vars(complete(th) \/ fail(th))

FairSpec == Spec /\ Fairness

-----------------------------------------------------------------------------
(* Properties                                                              *)

InQueueOfPool(t) == \E p \in Pools : \E i \in DOMAIN queue[p] : queue[p][i] = t
InThread(t)      == \E th \in Threads : thread[th].pc # "idle" /\ thread[th].task = t
InDispatcher(t)  == disp.pc \notin {"poll", "ended"} /\ disp.task = t

\* The dispatcher may still pick the task.
Offered(t) == status[t] \in {"queued", "partially_finished"}

\* The type invariant: a thread holds an entry exactly while it works on it.
TypeOK ==
  /\ status \in [Tasks -> Statuses]
  /\ created \subseteq Tasks
  /\ canceled \subseteq Tasks
  /\ disp \in [pc : DispPcs, task : Tasks \union {NoTask}]
  /\ disp.pc \in {"poll", "ended"} <=> disp.task = NoTask
  /\ queue \in [Pools -> Seq(Tasks)]
  /\ thread \in [Threads -> [pc : ThreadPcs, task : Tasks \union {NoTask}]]
  /\ \A th \in Threads : thread[th].pc = "idle" <=> thread[th].task = NoTask
  /\ req \in [pc : ReqPcs, task : Tasks \union {NoTask}, seen : Statuses]
  /\ req.pc = "idle" <=> req.task = NoTask
  /\ sdfs \in SdfsStates
  /\ outages \in Nat
  /\ restarts \in Nat
  /\ stranded \subseteq Tasks

\* No task is in two hands: whatever users, restarts and outages do, an entry
\* is held at most once by the dispatcher, the queues of the pools and their
\* threads together, so no backup or restore is ever executed twice at a time
\* (WorkersDispatcher marks an entry waiting before it submits it).
SingleExecution ==
  /\ \A p \in Pools : \A i, j \in DOMAIN queue[p] : queue[p][i] = queue[p][j] => i = j
  /\ \A p \in Pools : \A i \in DOMAIN queue[p] : ~InThread(queue[p][i])
  /\ \A th1, th2 \in Threads :
       thread[th1].pc # "idle" /\ thread[th1].task = thread[th2].task => th1 = th2
  /\ disp.pc \notin {"poll", "ended"} => ~InQueueOfPool(disp.task) /\ ~InThread(disp.task)

\* A task that waits for a thread is in the dispatcher's hand, in a pool queue
\* or with a thread, before and after a restart.  Nobody holds exactly those
\* that were waiting when the node restarted, since TaskServiceImpl.init
\* recovers running tasks only, and the backup whose look-up failed outside of
\* execute's try block: a task that a restart offered again waits like any other.
WaitingIsHeld ==
  \A t \in Tasks :
    status[t] = "waiting" =>
      InDispatcher(t) \/ InQueueOfPool(t) \/ InThread(t) \/ t \in stranded

\* What a hand relies on when it saves its copy without looking: the entry is
\* of the pool's type, it was created, and the table does not offer it.
Claimed(t, p) == t \in created /\ TypeOf[t] = p /\ ~Offered(t)

QueuedIsClaimed   == \A p \in Pools : \A i \in DOMAIN queue[p] : Claimed(queue[p][i], p)
ExecutedIsClaimed == \A th \in Threads : thread[th].pc # "idle" => Claimed(thread[th].task, PoolOf(th))

\* The dispatcher claims an entry of a pool when it saves it as waiting, and
\* executes the others itself.
DispatchedIsClaimed ==
  /\ disp.pc \notin {"poll", "ended"} => disp.task \in created
  /\ disp.pc \in {"save", "submit"} => TypeOf[disp.task] \in Pools
  /\ disp.pc \in {"inline", "inlineRun", "inlineDone", "inlineFailed"} => TypeOf[disp.task] \notin Pools
  /\ disp.pc = "submit" => ~Offered(disp.task)

KnownIsCreated ==
  /\ req.pc # "idle" => req.task \in created
  /\ \A t \in Tasks : status[t] # "absent" => t \in created

\* Whoever holds an entry owns it: no entry in a pool is offered again while
\* it is held, whatever requests, refreshes and failures write meanwhile.
HandsAreClaimed ==
  QueuedIsClaimed /\ ExecutedIsClaimed /\ DispatchedIsClaimed /\ KnownIsCreated

\* What TaskOwnership promises, read off this module's state: a task is
\* offered while the dispatcher may still pick it, and each place in a queue
\* and each thread that holds a submitted entry counts.
PlacesOf(t) ==
  UNION {{<<p, i>> : i \in {j \in DOMAIN queue[p] : queue[p][j] = t}} : p \in Pools}
Occurrences(t) ==
  Cardinality(PlacesOf(t))
  + Cardinality({th \in Threads : thread[th].pc # "idle" /\ thread[th].task = t})

Ownership == INSTANCE TaskOwnership
  WITH used     <- created,
       offered  <- {t \in Tasks : Offered(t)},
       inFlight <- [t \in Tasks |-> Occurrences(t)]

\* The pools implement the ownership protocol: an entry is submitted only when
\* no hand holds it, and only a restart offers a submitted entry again.
ImplementsOwnership == Ownership!Spec

\* An assigned task does not stay assigned: the dispatcher takes it, or a user
\* removes it, as long as the dispatcher has not ended; backups, restores and
\* what is sorted behind them may also stay as long as a failed reconfiguration
\* leaves SDFS stopped, the deletion of a backup may not.
AssignedIsTaken ==
  \A t \in Tasks :
    Offered(t) ~> \/ ~Offered(t)
                  \/ disp.pc = "ended"
                  \/ TypeOf[t] # "delete" /\ sdfs = "stopped"

\* A task that waits is executed, unless its holder is lost (see WaitingIsHeld).
WaitingIsExecuted ==
  \A t \in Tasks : status[t] = "waiting" ~> status[t] # "waiting" \/ t \in stranded

\* Whatever is submitted is finished with: no entry stays in a pool for ever.
SubmittedIsReleased ==
  \A t \in Tasks : InQueueOfPool(t) \/ InThread(t) ~> ~InQueueOfPool(t) /\ ~InThread(t)

\* ConfurationManagement.md, Maximum Task Queue Size: the number of backup and
\* restore tasks in the queue does not exceed the configured one.
QueueBound == getTasksInQueue <= MaxQueueSize
=============================================================================
