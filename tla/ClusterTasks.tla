---------------------------- MODULE ClusterTasks ----------------------------
(***************************************************************************)
(* The tasks of a cluster, composed with the membership of its nodes: the  *)
(* master gives tasks to nodes (MasterServiceImpl.taskDistribution), takes *)
(* those of unknown nodes back (terminatedNodeTaskReassign), and on every  *)
(* node the listener of a termination does the same (TaskServiceImpl.      *)
(* terminated).  All three work on copies read earlier and save whole      *)
(* records.  Of an execution only what it writes to the record is modelled *)
(* here; modules TaskDispatch and BackupExecutor have its steps.           *)
(***************************************************************************)
EXTENDS ClusterMembership

CONSTANTS
  Tasks,           \* task identifiers
  TypeOf,          \* the type of each task
  Regular,         \* the tasks that are schedules: they are never executed
  NoTask,          \* no task at all
  BackupThreads,   \* backupThreadPoolSize
  RestoreThreads,  \* restoreThreadPoolSize
  MaxRuns,         \* bound: executions that nodes begin
  MaxRemovals,     \* bound: requests that remove a task
  MaxFailures      \* bound: executions that fail

Pools == {"backup", "restore"}
Types == Pools \union {"delete", "system_backup"}

ASSUME FiniteAssumption == IsFiniteSet(Tasks)
ASSUME TasksAssumption == TypeOf \in [Tasks -> Types] /\ NoTask \notin Tasks
ASSUME RegularAssumption == Regular \subseteq {t \in Tasks : TypeOf[t] = "backup"}
ASSUME PoolsAssumption == BackupThreads \in Nat /\ RestoreThreads \in Nat
ASSUME BoundAssumption == MaxRuns \in Nat /\ MaxRemovals \in Nat /\ MaxFailures \in Nat

VARIABLES
  task,      \* the Tasks table
  hand,      \* the task a dispatcher has read and not started yet
  execs,     \* the executions under way
  sched,     \* the scheduler thread of each node, which runs the master's jobs
  listen,    \* TaskServiceImpl.terminated on each node
  limits     \* executions, removals and failures so far

taskVars == <<task, hand, execs, sched, listen, limits>>
allVars  == <<vars, taskVars>>

Statuses == {"new", "deleted", "queued", "waiting", "running", "canceled", "complete",
             "partially_finished", "error"}
Records  == [status : Statuses, worker : Nodes \union {NoNode}, done : BOOLEAN]
Row(s, w, d) == [status |-> s, worker |-> w, done |-> d]

exists(t) == task[t].status \notin {"new", "deleted"}

\* The copies of the records of some tasks.
copies(S) == [t \in S |-> task[t]]
rest(c, t) == [u \in DOMAIN c \ {t} |-> c[u]]
NoCopies == copies({})

\* findByWorkerIsNull: it returns schedules and unfinished tasks of any status.
unassigned == {t \in Tasks : exists(t) /\ task[t].worker = NoNode}

\* Deviation: the tasks that run are offered again.
getAssignedTasksOfAny(n) ==
  {t \in Tasks \ Regular : exists(t) /\ task[t].worker = n /\ ~task[t].done}

\* Deviation: schedules are not left out.
getAssignedTasksAndRegular(n) ==
  {t \in Tasks : task[t].worker = n /\ task[t].status \in {"queued", "partially_finished"}}

getAssignedTasks(n) ==
  {t \in Tasks \ Regular : task[t].worker = n /\ task[t].status \in {"queued", "partially_finished"}}

\* findByWorkerAndProgressNot(n, DONE)
unfinished(n) == {t \in Tasks : exists(t) /\ task[t].worker = n /\ ~task[t].done}

Threads(p) == IF p = "backup" THEN BackupThreads ELSE RestoreThreads

\* Whose free workers decide about a task of this type.
PoolOf(t) == IF TypeOf[t] \in {"backup", "delete"} THEN "backup" ELSE "restore"

\* Deviation: the threads are counted, whatever they have to do.
freeWorkersUncounted(m) == [p \in Pools |-> Threads(p)]

\* The free workers that getNodes counts for a node.
freeWorkers(m) ==
  [p \in Pools |-> Threads(p) - Cardinality({t \in unfinished(m) : TypeOf[t] = p})]

\* The free workers counted so far, and those of one more node.
withNode(free, m) ==
  [k \in DOMAIN free \union {m} |-> IF k = m THEN freeWorkers(m) ELSE free[k]]

Idle == [pc |-> "idle", copies |-> NoCopies, free |-> [m \in {} |-> 0], ids |-> {}]
NotListening == [pc |-> "idle", copies |-> NoCopies]

-----------------------------------------------------------------------------
TasksInit ==
  /\ Init
  /\ task   = [t \in Tasks |-> Row("new", NoNode, FALSE)]
  /\ hand   = [n \in Nodes |-> NoTask]
  /\ execs  = {}
  /\ sched  = [n \in Nodes |-> Idle]
  /\ listen = [n \in Nodes |-> NotListening]
  /\ limits = [runs |-> 0, removals |-> 0, failures |-> 0]

Save(t, r) == task' = [task EXCEPT ![t] = r]

-----------------------------------------------------------------------------
(* Requests                                                                *)

\* In a cluster a new task, or schedule, has no worker.
createTask(t) ==
  /\ task[t].status = "new"
  /\ Save(t, Row("queued", NoNode, FALSE))
  /\ UNCHANGED <<vars, hand, execs, sched, listen, limits>>

\* A running task is marked canceled, any other is deleted.
removeTask(t) ==
  /\ exists(t)
  /\ limits.removals < MaxRemovals
  /\ limits' = [limits EXCEPT !.removals = @ + 1]
  /\ task' = [task EXCEPT ![t].status = IF @ = "running" THEN "canceled" ELSE "deleted"]
  /\ UNCHANGED <<vars, hand, execs, sched, listen>>

-----------------------------------------------------------------------------
(* MasterServiceImpl's jobs, on the one thread of the node's scheduler     *)

schedulerIsFree(n) == n \in jobs /\ sched[n].pc = "idle"

SchedulerStep(n, s) ==
  /\ sched' = [sched EXCEPT ![n] = s]
  /\ UNCHANGED <<vars, hand, execs, listen, limits>>

\* Deviation: only new tasks are looked for.
readUnassignedQueued(n) ==
  LET found == {t \in unassigned : task[t].status = "queued"} IN
  /\ schedulerIsFree(n)
  /\ found # {}
  /\ SchedulerStep(n, [Idle EXCEPT !.pc = "nodes", !.copies = copies(found)])
  /\ UNCHANGED task

\* The unassigned tasks first ...
readUnassigned(n) ==
  /\ schedulerIsFree(n)
  /\ unassigned # {}
  /\ SchedulerStep(n, [Idle EXCEPT !.pc = "nodes", !.copies = copies(unassigned)])
  /\ UNCHANGED task

\* ... then the nodes ...
readNodes(n) ==
  /\ sched[n].pc = "nodes"
  /\ SchedulerStep(n, [sched[n] EXCEPT !.pc = "counting", !.ids = recorded])
  /\ UNCHANGED task

\* ... then the tasks of one node after the other, to count its free workers ...
countWorkers(n) ==
  /\ sched[n].pc = "counting"
  /\ \E m \in sched[n].ids :
       SchedulerStep(n, [sched[n] EXCEPT !.free = withNode(@, m), !.ids = @ \ {m},
                                        !.pc = IF sched[n].ids = {m} THEN "assigning" ELSE @])
  /\ UNCHANGED task

\* ... then one task after the other gets the node with the most free workers,
\* unless that has exactly none, and its copy is saved in any case.  Only
\* backups and restores use a worker up.
assign(n) ==
  /\ sched[n].pc = "assigning"
  /\ LET free == sched[n].free IN
     \E t \in DOMAIN sched[n].copies, m \in DOMAIN free :
       LET p    == PoolOf(t)
           left == rest(sched[n].copies, t)
           used == IF TypeOf[t] = p THEN [free EXCEPT ![m][p] = @ - 1] ELSE free
           next == IF left = NoCopies THEN Idle
                   ELSE [sched[n] EXCEPT !.copies = left, !.free = used]
       IN /\ \A k \in DOMAIN free : free[k][p] <= free[m][p]
          /\ IF free[m][p] = 0
             THEN /\ Save(t, sched[n].copies[t])
                  /\ SchedulerStep(n, IF left = NoCopies THEN Idle
                                      ELSE [sched[n] EXCEPT !.copies = left])
             ELSE /\ Save(t, [sched[n].copies[t] EXCEPT !.worker = m])
                  /\ SchedulerStep(n, next)

\* Deviation: the master is not among the nodes.
readOtherNodeIds(n) ==
  /\ schedulerIsFree(n)
  /\ SchedulerStep(n, [Idle EXCEPT !.pc = "reassign", !.ids = recorded \ masters])
  /\ UNCHANGED task

\* terminatedNodeTaskReassign reads the identifiers of the nodes ...
readNodeIds(n) ==
  /\ schedulerIsFree(n)
  /\ SchedulerStep(n, [Idle EXCEPT !.pc = "reassign", !.ids = recorded])
  /\ UNCHANGED task

\* Deviation: only the tasks that run are looked for.
readUnknownRunning(n) ==
  /\ sched[n].pc = "reassign"
  /\ LET found == {t \in Tasks \ Regular :
                     /\ task[t].status = "running"
                     /\ task[t].worker \notin sched[n].ids \union {NoNode}}
     IN SchedulerStep(n, IF found = {} THEN Idle
                         ELSE [Idle EXCEPT !.pc = "giveBack", !.copies = copies(found)])
  /\ UNCHANGED task

\* ... then the tasks that are not complete and belong to no known node ...
readUnknown(n) ==
  /\ sched[n].pc = "reassign"
  /\ LET found == {t \in Tasks \ Regular :
                     /\ exists(t) /\ task[t].status # "complete"
                     /\ task[t].worker \notin sched[n].ids \union {NoNode}}
     IN SchedulerStep(n, IF found = {} THEN Idle
                         ELSE [Idle EXCEPT !.pc = "giveBack", !.copies = copies(found)])
  /\ UNCHANGED task

givenBack(r) == [r EXCEPT !.status = "partially_finished", !.worker = NoNode]

\* ... and gives them back.
giveBack(n) ==
  /\ sched[n].pc = "giveBack"
  /\ \E t \in DOMAIN sched[n].copies :
       LET left == rest(sched[n].copies, t)
       IN /\ Save(t, givenBack(sched[n].copies[t]))
          /\ SchedulerStep(n, IF left = NoCopies THEN Idle
                              ELSE [sched[n] EXCEPT !.copies = left])

-----------------------------------------------------------------------------
(* TaskServiceImpl.terminated, called by the handler of the event          *)

ListenerStep(n, l) ==
  /\ listen' = [listen EXCEPT ![n] = l]
  /\ UNCHANGED <<vars, hand, execs, sched, limits>>

readOrphans(n) ==
  /\ handler[n].pc = "listeners"
  /\ listen[n].pc = "idle"
  /\ ListenerStep(n, [pc |-> "saving", copies |-> copies(unfinished(handler[n].node))])
  /\ UNCHANGED task

saveOrphan(n) ==
  /\ listen[n].pc = "saving"
  /\ \E t \in DOMAIN listen[n].copies :
       /\ Save(t, givenBack(listen[n].copies[t]))
       /\ ListenerStep(n, [listen[n] EXCEPT !.copies = rest(@, t)])

-----------------------------------------------------------------------------
(* Dispatchers and executors                                               *)

\* The dispatcher itself executes deletions and system backups, one at a time.
pollAssigned(n) ==
  /\ n \in up
  /\ hand[n] = NoTask
  /\ \A x \in execs : x.node = n => TypeOf[x.task] \in Pools
  /\ \E t \in getAssignedTasks(n) : hand' = [hand EXCEPT ![n] = t]
  /\ UNCHANGED <<vars, task, execs, sched, listen, limits>>

letGo(n) == hand' = [hand EXCEPT ![n] = NoTask]

\* A task that was deleted since it was read is skipped.
skipRemoved(n) ==
  /\ hand[n] # NoTask
  /\ ~exists(hand[n])
  /\ letGo(n)
  /\ UNCHANGED <<vars, task, execs, sched, listen, limits>>

\* Otherwise its record is saved, also if it is deleted after that look, and a
\* thread has a copy of it to execute.
Executes(n, status, pc) ==
  /\ hand[n] # NoTask
  /\ limits.runs < MaxRuns
  /\ limits' = [limits EXCEPT !.runs = @ + 1]
  /\ execs'  = execs \union {[turn |-> limits.runs, node |-> n, task |-> hand[n],
                              done |-> task[hand[n]].done, pc |-> pc]}
  /\ Save(hand[n], Row(status, n, task[hand[n]].done))
  /\ letGo(n)
  /\ UNCHANGED <<vars, sched, listen>>

\* Backups and restores are saved as waiting and submitted to their pool, whose
\* next free thread takes them.
saveWaiting(n) == hand[n] # NoTask /\ TypeOf[hand[n]] \in Pools /\ Executes(n, "waiting", "waiting")

\* The first save of an execution by the dispatcher.
beginInline(n) == hand[n] # NoTask /\ TypeOf[hand[n]] \notin Pools /\ Executes(n, "running", "busy")

ExecutorStep(x, r) ==
  /\ Save(x.task, r)
  /\ UNCHANGED <<vars, hand, sched, listen>>

becomes(x, pc) == execs' = (execs \ {x}) \union {[x EXCEPT !.pc = pc]}
ends(x) == execs' = execs \ {x}

\* What an execution has to do: a backup that was interrupted says that it is
\* done and is over at once, a restore only has to be completed.
firstStage(x) ==
  IF ~x.done THEN "busy" ELSE IF TypeOf[x.task] = "restore" THEN "ending" ELSE "over"

\* The first save of a thread's execution.
begin(x) ==
  /\ x.pc = "waiting"
  /\ becomes(x, firstStage(x))
  /\ ExecutorStep(x, Row("running", x.node, x.done))
  /\ UNCHANGED limits

\* A backup that was executed before looks its volume up outside of the try
\* block: if that fails the task waits for ever.
lookupFails(x) ==
  /\ x.pc = "waiting"
  /\ TypeOf[x.task] = "backup"
  /\ x.turn > 0
  /\ limits.failures < MaxFailures
  /\ limits' = [limits EXCEPT !.failures = @ + 1]
  /\ ends(x)
  /\ UNCHANGED <<vars, task, hand, sched, listen>>

\* setProgress, at any of the steps of a backup or restore.
setProgress(x) ==
  /\ x.pc = "busy"
  /\ TypeOf[x.task] \in Pools
  /\ ExecutorStep(x, Row("running", x.node, FALSE))
  /\ UNCHANGED <<execs, limits>>

\* A restore saves that it is done with its status or before it ...
restored(x) ==
  /\ TypeOf[x.task] = "restore"
  /\ \/ x.pc = "busy" /\ becomes(x, "ending") /\ ExecutorStep(x, Row("running", x.node, TRUE))
     \/ x.pc \in {"busy", "ending"} /\ ends(x) /\ ExecutorStep(x, Row("complete", x.node, TRUE))
  /\ UNCHANGED limits

\* ... a backup and a deletion after it; a system backup deletes its record.
complete(x) ==
  /\ x.pc = "busy"
  /\ \/ /\ TypeOf[x.task] \in {"backup", "delete"}
        /\ becomes(x, "ending")
        /\ ExecutorStep(x, Row("complete", x.node, x.done))
     \/ /\ TypeOf[x.task] = "system_backup"
        /\ ends(x)
        /\ ExecutorStep(x, Row("deleted", x.node, x.done))
  /\ UNCHANGED limits

setProgressDone(x) ==
  /\ TypeOf[x.task] # "restore"
  /\ \/ x.pc = "ending" /\ ExecutorStep(x, Row("complete", x.node, TRUE))
     \/ x.pc = "failed" /\ ExecutorStep(x, Row("error", x.node, TRUE))
     \/ x.pc = "over"   /\ ExecutorStep(x, Row("running", x.node, TRUE))
  /\ ends(x)
  /\ UNCHANGED limits

\* A backup or deletion that failed is saved as an error and then as done; a
\* restore or system backup that failed is not done.
fail(x) ==
  /\ x.pc = "busy"
  /\ limits.failures < MaxFailures
  /\ limits' = [limits EXCEPT !.failures = @ + 1]
  /\ ExecutorStep(x, Row("error", x.node, x.done))
  /\ IF TypeOf[x.task] \in {"backup", "delete"} THEN becomes(x, "failed") ELSE ends(x)

\* A backup or restore finds that it is canceled and deletes its record.
noticeCancel(x) ==
  /\ x.pc = "busy"
  /\ TypeOf[x.task] \in Pools
  /\ task[x.task].status = "canceled"
  /\ ExecutorStep(x, Row("deleted", NoNode, FALSE))
  /\ ends(x)
  /\ UNCHANGED limits

\* A copy that is interrupted, or fails, leaves its resources to another node,
\* but a backup says that it is done, and a restore says nothing.
interrupt(x) ==
  /\ x.pc = "busy"
  /\ TypeOf[x.task] \in Pools
  /\ limits.failures < MaxFailures
  /\ limits' = [limits EXCEPT !.failures = @ + 1]
  /\ ends(x)
  /\ \/ TypeOf[x.task] = "backup" /\ ExecutorStep(x, Row("running", x.node, TRUE))
     \/ TypeOf[x.task] = "restore" /\ UNCHANGED <<vars, task, hand, sched, listen>>

-----------------------------------------------------------------------------
(* Nodes come and go                                                       *)

forgetTasks(n) ==
  /\ hand'   = [hand EXCEPT ![n] = NoTask]
  /\ execs'  = {x \in execs : x.node # n}
  /\ sched'  = [sched EXCEPT ![n] = Idle]
  /\ listen' = [listen EXCEPT ![n] = NotListening]

terminateNode(n) == terminate(n) /\ forgetTasks(n) /\ UNCHANGED <<task, limits>>

\* TaskServiceImpl.init looks for the running tasks of this node.
restartNode(n) ==
  /\ restart(n)
  /\ forgetTasks(n)
  /\ task' = [t \in Tasks |->
                IF t \notin Regular /\ task[t].status = "running" /\ task[t].worker = n
                THEN [task[t] EXCEPT !.status = "partially_finished"] ELSE task[t]]
  /\ UNCHANGED limits

\* The event counts as handled once its listeners have run.
handledByListeners(n) ==
  /\ handled(n)
  /\ listen[n].pc = "saving"
  /\ listen[n].copies = NoCopies
  /\ listen' = [listen EXCEPT ![n] = NotListening]
  /\ UNCHANGED <<task, hand, execs, sched, limits>>

\* What the membership does on its own.
Membership(n) ==
  /\ \/ joinCluster(n) \/ Publisher(n) \/ poll(n) \/ handleOther(n) \/ handleTerminated(n)
     \/ elect(n) \/ saveMaster(n) \/ masterNodeChanged(n) \/ Dispatcher(n)
     \/ masterStatusCheck(n) /\ sched[n].pc = "idle"
  /\ UNCHANGED taskVars

-----------------------------------------------------------------------------
Requests     == \E t \in Tasks : createTask(t) \/ removeTask(t)
Distribute(n) == readUnassigned(n) \/ readNodes(n) \/ countWorkers(n) \/ assign(n)
Reassign(n)   == readNodeIds(n) \/ readUnknown(n) \/ giveBack(n)
Listen(n)     == readOrphans(n) \/ saveOrphan(n) \/ handledByListeners(n)
Dispatch(n)   == pollAssigned(n) \/ skipRemoved(n) \/ saveWaiting(n) \/ beginInline(n)
Execute(x)    == begin(x) \/ lookupFails(x) \/ setProgress(x) \/ restored(x) \/ complete(x)
                 \/ setProgressDone(x) \/ fail(x) \/ noticeCancel(x) \/ interrupt(x)

TasksNext ==
  \/ Requests
  \/ \E n \in Nodes :
       \/ Distribute(n) \/ Reassign(n) \/ Listen(n) \/ Dispatch(n)
       \/ terminateNode(n) \/ restartNode(n) \/ Membership(n)
  \/ \E x \in execs : Execute(x)

TasksSpec == TasksInit /\ [][TasksNext]_allVars

\* Threads and jobs go on; every job of the scheduler has its turn.  Nobody is
\* obliged to create a task, and no failure must happen.
TasksFairness ==
  /\ \A n \in Nodes :
       /\ WF_allVars((Publisher(n) \/ poll(n) \/ handleOther(n) \/ handleTerminated(n) \/ elect(n)
                       \/ saveMaster(n) \/ masterNodeChanged(n)) /\ UNCHANGED taskVars)
       /\ WF_allVars(Listen(n))
       /\ SF_allVars(masterStatusCheck(n) /\ sched[n].pc = "idle" /\ UNCHANGED taskVars)
       /\ SF_allVars(readUnassigned(n))
       /\ WF_allVars(readNodes(n) \/ countWorkers(n) \/ assign(n))
       /\ SF_allVars(readNodeIds(n)) /\ WF_allVars(readUnknown(n) \/ giveBack(n))

FairTasksSpec == TasksSpec /\ TasksFairness

-----------------------------------------------------------------------------
(* Properties                                                              *)

TasksTypeOK ==
  /\ TypeOK
  /\ task \in [Tasks -> Records]
  /\ hand \in [Nodes -> (Tasks \ Regular) \union {NoTask}]
  /\ \A x \in execs : x.task \in Tasks \ Regular /\ x.node \in up /\ x.turn \in 0 .. MaxRuns - 1
  /\ \A n \in Nodes : sched[n].pc # "idle" => n \in jobs

\* While no instance is lost, no two nodes execute one task, nor does one node
\* twice: distribution, dispatchers and executors all overwrite whole records,
\* from copies that others have changed since.
SingleExecution ==
  faults.terminations = 0 =>
    /\ \A x, y \in execs : x.task = y.task => x = y
    /\ \A x \in execs, n \in Nodes : hand[n] # x.task

\* Only the tasks of instances that are gone are given back, though nodes
\* join, and are given tasks, after the identifiers of the nodes were read.  It
\* takes that no two nodes have the jobs of the master.
OnlyOrphansGivenBack ==
  \A n \in Nodes :
    /\ sched[n].pc = "giveBack" => \A t \in DOMAIN sched[n].copies : sched[n].copies[t].worker \notin up
    /\ \A t \in DOMAIN listen[n].copies : listen[n].copies[t].worker \notin up

\* A node has no more unfinished backups than threads, as long as nobody
\* removes a task and no instance is lost.
NoOverload ==
  faults.terminations = 0 /\ limits.removals = 0 =>
    \A n \in recorded, p \in Pools :
      Cardinality({t \in unfinished(n) : TypeOf[t] = p}) <= Threads(p)

\* While some node has the master's jobs, a task left by a lost instance, or
\* given to it afterwards, is taken from it.
OrphanIsFreed ==
  []<>(jobs # {}) =>
    \A t \in Tasks \ Regular, n \in Nodes :
      (n \notin up /\ t \in unfinished(n)) ~> (t \notin unfinished(n))

\* While some node has the master's jobs, a deletion that no node has been
\* given gets one when a thread is free for it.
UnassignedIsAssigned ==
  []<>(jobs # {}) =>
    \A t \in Tasks :
      (t \in unassigned) ~> \/ t \notin unassigned
                           \/ \A n \in up : freeWorkers(n)[PoolOf(t)] = 0
=============================================================================
