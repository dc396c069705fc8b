------------------------- MODULE TaskDispatchProofs -------------------------
(***************************************************************************)
(* What TaskDispatch guarantees for every set of tasks, every size of the  *)
(* pools, every queue limit and every number of restarts and outages.      *)
(*                                                                         *)
(* SingleExecution is not inductive alone: that the dispatcher never takes *)
(* an entry a pool already holds follows from HandsAreClaimed, the fact    *)
(* that no held entry is offered by the table.  The induction is over      *)
(*     IInv == TypeOK /\ SingleExecution /\ HandsAreClaimed.               *)
(***************************************************************************)
EXTENDS TaskDispatch, FiniteSetTheorems, TLAPS

IInv == TypeOK /\ SingleExecution /\ HandsAreClaimed

-----------------------------------------------------------------------------
(* The steps by their shape                                                *)

\* What a hand writes: never a status that offers the task again.
WrittenByThread == Statuses \ {"queued", "waiting", "partially_finished"}

\* Every step of an executor, except take, moves one busy thread and saves the
\* entry it holds.  What a restart interrupted may be saved as waiting, by a
\* thread that goes on with it, or let go without a save: then it is stranded.
ThreadWrites(th) ==
  /\ thread[th].pc # "idle"
  /\ \E to \in ThreadPcs :
       /\ thread' = [thread EXCEPT ![th] =
                       IF to = "idle" THEN Idle("idle") ELSE [pc |-> to, task |-> @.task]]
       /\ \/ \E s \in WrittenByThread : Save(thread[th].task, s) /\ stranded' = stranded
          \/ to = "resumed" /\ Save(thread[th].task, "waiting") /\ stranded' = stranded
          \/ status' = status /\ stranded' = stranded \union {thread[th].task}
  /\ canceled' \in SUBSET canceled
  /\ UNCHANGED <<created, disp, queue, req, sdfs, outages, restarts>>

\* A reconfiguration of SDFS begins or ends.
SdfsStep == sdfsGoesDown \/ sdfsComesBack \/ sdfsStaysDown

\* The requests that write a new task.
NewTask(t) == t \notin created /\ saveNewTask(t)

\* The three requests that create a task write a record that never existed.
LEMMA NewTaskShape ==
  ASSUME NEW t \in Tasks, createTask(t) \/ deleteBackup(t) \/ scheduleBackup(t)
  PROVE  NewTask(t)
BY DEF createTask, deleteBackup, scheduleBackup, NewTask

\* A pool thread takes an entry, or saves the one it holds.
LEMMA ExecutorShape ==
  ASSUME NEW th \in Threads, Executor(th)
  PROVE  take(th) \/ ThreadWrites(th)
<1> USE DEF ThreadWrites, ThreadStep, ThreadPcs, WrittenByThread, Statuses
<1>1. CASE take(th)
  BY <1>1
<1>2. CASE begin(th) \/ volumeIsGone(th) \/ setProgress(th)
  BY <1>2 DEF begin, volumeIsGone, setProgress
<1>8. CASE lookupFails(th) \/ resumeCleaning(th) \/ resumedCleaningEnds(th)
  BY <1>8 DEF lookupFails, resumeCleaning, resumedCleaningEnds
<1>3. CASE isCanceled(th) \/ isCanceledInRestoreFromSnapshot(th) \/ deleteCanceled(th)
  BY <1>3 DEF isCanceled, isCanceledInRestoreFromSnapshot, deleteCanceled
<1>4. CASE copyFails(th) \/ deleteInterrupted(th) \/ setProgressAfterInterrupt(th)
  BY <1>4 DEF copyFails, deleteInterrupted, setProgressAfterInterrupt
<1>5. CASE complete(th) \/ setProgressDone(th)
  BY <1>5 DEF complete, setProgressDone
<1>6. CASE fail(th) \/ setProgressDoneAfterFailure(th)
  BY <1>6 DEF fail, setProgressDoneAfterFailure
<1>7. QED
  BY <1>1, <1>2, <1>3, <1>4, <1>5, <1>6, <1>8 DEF Executor

\* What the dispatcher does with an entry before the pools know of it; it may
\* also end.
DispatcherKeeps ==
  /\ disp.pc \notin {"submit", "ended"}
  /\ \/ disp' = Idle("poll")
     \/ disp' = Idle("ended")
     \/ /\ disp' = [pc |-> "save", task |-> disp.task]
        /\ disp.pc = "check"
        /\ TypeOf[disp.task] \in Pools
     \/ /\ \E to \in {"inline", "inlineRun", "inlineDone", "inlineFailed"} :
             disp' = [pc |-> to, task |-> disp.task]
        /\ disp.pc # "poll"
        /\ TypeOf[disp.task] \notin Pools
  /\ \/ status' = status
     \/ disp.pc # "poll" /\ \E s \in WrittenByThread : Save(disp.task, s)
  /\ UNCHANGED <<created, canceled, queue, thread, req, sdfs, outages, restarts, stranded>>

\* The dispatcher moves its one entry on, and saves it or leaves it alone.
LEMMA DispatcherShape ==
  ASSUME IInv, Dispatcher \/ dispatcherEnds
  PROVE  pollAssigned \/ DispatcherKeeps \/ saveWaiting \/ submit
<1> USE DEF DispatcherKeeps, DispatcherStep, WrittenByThread, Statuses
<1>1. CASE pollAssigned \/ saveWaiting \/ submit
  BY <1>1
<1>2. CASE skipRemoved \/ breakWhenSdfsIsDown \/ sdfsCheckFails \/ acceptPooled \/ acceptInline
  BY <1>2 DEF skipRemoved, breakWhenSdfsIsDown, sdfsCheckFails, acceptPooled, acceptInline
<1>3. CASE \/ inlineBegin \/ inlineComplete \/ inlineDone \/ inlineFail \/ deleteFails
           \/ setProgressAfterDeleteFails \/ inlineAwsFail
  <2> USE DEF inlineBegin, inlineComplete, inlineDone, inlineFail, deleteFails,
              setProgressAfterDeleteFails, inlineAwsFail
  <2>1. disp.pc \in {"inline", "inlineRun", "inlineDone", "inlineFailed"}
    BY <1>3
  <2>2. TypeOf[disp.task] \notin Pools
    BY <2>1 DEF IInv, HandsAreClaimed, DispatchedIsClaimed
  <2>3. QED
    BY <1>3, <2>2
<1>4. CASE dispatcherEnds
  BY <1>4 DEF dispatcherEnds
<1>5. QED
  BY <1>1, <1>2, <1>3, <1>4 DEF Dispatcher

-----------------------------------------------------------------------------
(* Type correctness                                                        *)

\* The initial state is of its type.
LEMMA InitTypeOK == Init => TypeOK
BY NoTaskAssumption DEF NoTaskAssumption, Init, TypeOK, Idle, SdfsStates, Statuses, DispPcs,
   ThreadPcs, ReqPcs

\* Every step keeps the types, and keeps idle threads without an entry.
LEMMA NextTypeOK ==
  ASSUME IInv, [Next]_vars
  PROVE  TypeOK'
<1> USE NoTaskAssumption DEF TypeOK, Idle, Save
<1> TypeOK
  BY DEF IInv
<1>1. CASE \E t \in Tasks : createTask(t) \/ deleteBackup(t) \/ scheduleBackup(t)
  <2> PICK t \in Tasks : NewTask(t)
    BY <1>1, NewTaskShape
  <2> QED
    BY DEF NewTask, saveNewTask, Statuses
<1>2. CASE \E t \in Tasks : removeTaskRead(t)
  BY <1>2 DEF removeTaskRead, ReqPcs
<1>3. CASE removeTaskCancel \/ removeTaskDelete
  <2>1. req.task \in Tasks
    BY <1>3 DEF removeTaskCancel, removeTaskDelete
  <2>2. CASE removeTaskCancel
    BY <2>1, <2>2 DEF removeTaskCancel, Statuses, ReqPcs
  <2>3. CASE removeTaskDelete
    BY <2>1, <2>3 DEF removeTaskDelete, Statuses, ReqPcs
  <2>4. QED
    BY <1>3, <2>2, <2>3
<1>4. CASE removeTaskRefresh \/ updateCanceledTasks
  BY <1>4 DEF removeTaskRefresh, updateCanceledTasks, canceledInTable, Statuses, ReqPcs
<1>5. CASE pollAssigned
  BY <1>5 DEF pollAssigned, firstAssigned, getAssignedTasks, DispPcs
<1>6. CASE DispatcherKeeps
  <2>1. disp.pc # "poll" => disp.task \in Tasks /\ disp.task # NoTask
    BY <1>6 DEF DispatcherKeeps
  <2>2. /\ disp' \in [pc : DispPcs, task : Tasks \union {NoTask}]
        /\ disp'.pc \in {"poll", "ended"} <=> disp'.task = NoTask
    BY <1>6, <2>1 DEF DispatcherKeeps, DispPcs
  <2>3. status' \in [Tasks -> Statuses]
    <3>1. CASE status' = status
      BY <3>1
    <3>2. CASE disp.pc # "poll" /\ \E s \in WrittenByThread : Save(disp.task, s)
      BY <3>2, <2>1 DEF WrittenByThread, Statuses
    <3>3. QED
      BY <1>6, <3>1, <3>2 DEF DispatcherKeeps
  <2>4. UNCHANGED <<created, canceled, queue, thread, req, sdfs, outages, restarts, stranded>>
    BY <1>6 DEF DispatcherKeeps
  <2>5. QED
    BY <2>2, <2>3, <2>4
<1>7. CASE saveWaiting
  BY <1>7 DEF saveWaiting, DispatcherStep, Statuses, DispPcs
<1>8. CASE submit
  <2> TypeOf[disp.task] \in Pools
    BY <1>8 DEF submit, DispatcherStep, IInv, HandsAreClaimed, DispatchedIsClaimed
  <2> QED
    BY <1>8 DEF submit, DispatcherStep, DispPcs
<1>9. CASE \E th \in Threads : take(th)
  <2> PICK th \in Threads : take(th)
    BY <1>9
  <2>1. PoolOf(th) \in Pools
    BY DEF PoolOf, Pools
  <2>2. queue[PoolOf(th)] \in Seq(Tasks) /\ queue[PoolOf(th)] # <<>>
    BY <2>1 DEF take
  <2>3. Head(queue[PoolOf(th)]) \in Tasks /\ Tail(queue[PoolOf(th)]) \in Seq(Tasks)
    BY <2>2
  <2>4. QED
    BY <2>1, <2>3 DEF take, ThreadPcs
<1>10. CASE \E th \in Threads : ThreadWrites(th)
  <2> PICK th \in Threads : ThreadWrites(th)
    BY <1>10
  <2>1. status' \in [Tasks -> Statuses]
    BY DEF ThreadWrites, WrittenByThread, Statuses
  <2>2. /\ thread' \in [Threads -> [pc : ThreadPcs, task : Tasks \union {NoTask}]]
        /\ \A u \in Threads : thread'[u].pc = "idle" <=> thread'[u].task = NoTask
    BY DEF ThreadWrites, ThreadPcs
  <2>3. /\ UNCHANGED <<created, disp, queue, req, sdfs, outages, restarts>>
        /\ canceled' \subseteq Tasks /\ stranded' \subseteq Tasks
    BY DEF ThreadWrites
  <2>4. QED
    BY <2>1, <2>2, <2>3
<1>11. CASE SdfsStep
  <2>1. sdfs' \in SdfsStates
    BY <1>11 DEF SdfsStates, SdfsStep, sdfsGoesDown, sdfsComesBack, sdfsStaysDown
  <2>2. outages' \in Nat
    BY <1>11 DEF SdfsStep, sdfsGoesDown, sdfsComesBack, sdfsStaysDown
  <2>3. UNCHANGED <<status, created, canceled, disp, queue, thread, req, restarts, stranded>>
    BY <1>11 DEF SdfsStep, sdfsGoesDown, sdfsComesBack, sdfsStaysDown
  <2>4. QED
    BY <2>1, <2>2, <2>3
<1>12. CASE restart
  BY <1>12 DEF restart, SdfsStates, Statuses, ThreadPcs, DispPcs, ReqPcs
<1>13. CASE UNCHANGED vars
  BY <1>13 DEF vars
<1>14. QED
  BY <1>1, <1>2, <1>3, <1>4, <1>5, <1>6, <1>7, <1>8, <1>9, <1>10, <1>11, <1>12, <1>13,
     DispatcherShape, ExecutorShape DEF Next, Request, SdfsStep

-----------------------------------------------------------------------------
(* Single execution                                                        *)

\* Where the entries of a queue were before a step of the pools.
LEMMA TakeShifts ==
  ASSUME IInv, NEW th \in Threads, take(th)
  PROVE  /\ PoolOf(th) \in Pools
         /\ 1 \in DOMAIN queue[PoolOf(th)]
         /\ thread' = [thread EXCEPT ![th] = [pc |-> "start", task |-> queue[PoolOf(th)][1]]]
         /\ \A p \in Pools : p # PoolOf(th) => queue'[p] = queue[p]
         /\ \A i \in DOMAIN queue'[PoolOf(th)] :
              /\ i + 1 \in DOMAIN queue[PoolOf(th)] /\ i \in Nat /\ i # 0
              /\ queue'[PoolOf(th)][i] = queue[PoolOf(th)][i + 1]
<1>1. PoolOf(th) \in Pools
  BY DEF PoolOf, Pools
<1>2. queue \in [Pools -> Seq(Tasks)]
  BY DEF IInv, TypeOK
<1>3. queue[PoolOf(th)] \in Seq(Tasks) /\ queue[PoolOf(th)] # <<>>
  BY <1>1, <1>2 DEF take
<1>4. 1 \in DOMAIN queue[PoolOf(th)] /\ Head(queue[PoolOf(th)]) = queue[PoolOf(th)][1]
  BY <1>3
<1>5. \A i \in DOMAIN Tail(queue[PoolOf(th)]) :
        /\ i + 1 \in DOMAIN queue[PoolOf(th)] /\ i \in Nat /\ i # 0
        /\ Tail(queue[PoolOf(th)])[i] = queue[PoolOf(th)][i + 1]
  BY <1>3
<1>6. queue' = [queue EXCEPT ![PoolOf(th)] = Tail(@)]
  BY DEF take
<1>7. QED
  BY <1>1, <1>2, <1>4, <1>5, <1>6 DEF take

\* Submitting puts the entry last; the other places keep theirs.
LEMMA SubmitAppends ==
  ASSUME IInv, submit
  PROVE  LET p == TypeOf[disp.task] IN
         /\ p \in Pools
         /\ disp.task \in Tasks
         /\ \A r \in Pools : r # p => queue'[r] = queue[r]
         /\ \A i \in DOMAIN queue'[p] :
              \/ i \in DOMAIN queue[p] /\ queue'[p][i] = queue[p][i]
              \/ i = Len(queue[p]) + 1 /\ queue'[p][i] = disp.task
<1> DEFINE p == TypeOf[disp.task]
<1>1. p \in Pools /\ disp.task \in Tasks
  BY DEF IInv, TypeOK, HandsAreClaimed, DispatchedIsClaimed, submit, DispatcherStep
<1>2. queue \in [Pools -> Seq(Tasks)]
  BY DEF IInv, TypeOK
<1>3. queue[p] \in Seq(Tasks)
  BY <1>1, <1>2
<1>4. \A i \in DOMAIN Append(queue[p], disp.task) :
        \/ i \in DOMAIN queue[p] /\ Append(queue[p], disp.task)[i] = queue[p][i]
        \/ i = Len(queue[p]) + 1 /\ Append(queue[p], disp.task)[i] = disp.task
  BY <1>1, <1>3
<1>5. queue' = [queue EXCEPT ![p] = Append(@, disp.task)]
  BY DEF submit
<1>6. QED
  BY <1>1, <1>2, <1>4, <1>5

\* A step that leaves the queues and the threads alone and does not pick an
\* entry leaves every entry where it is.
LEMMA HandsUnmoved ==
  ASSUME IInv, UNCHANGED <<queue, thread>>,
         disp'.pc \notin {"poll", "ended"} =>
           disp.pc \notin {"poll", "ended"} /\ disp'.task = disp.task
  PROVE  SingleExecution'
BY DEF IInv, SingleExecution, InQueueOfPool, InThread

\* No step puts an entry into a second hand.
LEMMA NextSingleExecution ==
  ASSUME IInv, [Next]_vars
  PROVE  SingleExecution'
<1> USE DEF Idle
<1>1. CASE \E t \in Tasks : createTask(t) \/ deleteBackup(t) \/ scheduleBackup(t)
  <2> PICK t \in Tasks : NewTask(t)
    BY <1>1, NewTaskShape
  <2> QED
    BY HandsUnmoved DEF NewTask, saveNewTask
<1>2. CASE \E t \in Tasks : removeTaskRead(t)
  BY <1>2, HandsUnmoved DEF removeTaskRead
<1>3. CASE removeTaskCancel \/ removeTaskDelete
  BY <1>3, HandsUnmoved DEF removeTaskCancel, removeTaskDelete
<1>4. CASE removeTaskRefresh \/ updateCanceledTasks
  BY <1>4, HandsUnmoved DEF removeTaskRefresh, updateCanceledTasks
<1>5. CASE pollAssigned
  <2>1. PICK t \in Tasks : Offered(t) /\ disp' = [pc |-> "check", task |-> t]
    BY <1>5 DEF pollAssigned, firstAssigned, getAssignedTasks, Offered
  <2>2. ~InQueueOfPool(t) /\ ~InThread(t)
    BY <2>1 DEF IInv, HandsAreClaimed, QueuedIsClaimed, ExecutedIsClaimed, Claimed, InQueueOfPool,
           InThread
  <2>3. UNCHANGED <<queue, thread>>
    BY <1>5 DEF pollAssigned
  <2>4. QED
    BY <2>1, <2>2, <2>3 DEF IInv, SingleExecution, InQueueOfPool, InThread
<1>6. CASE DispatcherKeeps
  <2>1. disp'.pc \notin {"poll", "ended"} =>
          disp.pc \notin {"poll", "ended"} /\ disp'.task = disp.task
    BY <1>6 DEF DispatcherKeeps
  <2>2. QED
    BY <1>6, <2>1, HandsUnmoved DEF DispatcherKeeps
<1>7. CASE saveWaiting
  BY <1>7, HandsUnmoved DEF saveWaiting, DispatcherStep
<1>8. CASE submit
  <2> DEFINE p == TypeOf[disp.task]
  <2>1. thread' = thread /\ disp'.pc = "poll" /\ disp.pc = "submit"
    BY <1>8 DEF submit, DispatcherStep
  <2>2. ~InQueueOfPool(disp.task) /\ ~InThread(disp.task)
    BY <2>1 DEF IInv, SingleExecution
  <2>3. QED
    BY <1>8, <2>1, <2>2, SubmitAppends DEF IInv, SingleExecution, InQueueOfPool, InThread
<1>9. CASE \E th \in Threads : take(th)
  <2> PICK th \in Threads : take(th)
    BY <1>9
  <2> DEFINE p == PoolOf(th)
             t == queue[p][1]
  <2>1. disp' = disp /\ thread[th].pc = "idle"
    BY DEF take
  <2>2. t \in Tasks /\ p \in Pools /\ 1 \in DOMAIN queue[p]
    BY TakeShifts DEF IInv, TypeOK
  <2>3. /\ thread'[th] = [pc |-> "start", task |-> t]
        /\ \A u \in Threads : u # th => thread'[u] = thread[u]
    BY TakeShifts DEF IInv, TypeOK
  <2>4. ~InThread(t) /\ \A q \in Pools : \A i \in DOMAIN queue[q] :
          queue[q][i] = t => q = p /\ i = 1
    BY <2>2 DEF IInv, SingleExecution, HandsAreClaimed, QueuedIsClaimed, Claimed
  <2>5. \A q \in Pools : \A i, j \in DOMAIN queue'[q] : queue'[q][i] = queue'[q][j] => i = j
    <3> SUFFICES ASSUME NEW q \in Pools, NEW i \in DOMAIN queue'[q], NEW j \in DOMAIN queue'[q],
                        queue'[q][i] = queue'[q][j]
                 PROVE  i = j
      OBVIOUS
    <3>1. CASE q # p
      BY <3>1, TakeShifts DEF IInv, SingleExecution
    <3>2. CASE q = p
      <4>1. i + 1 = j + 1 /\ i \in Nat /\ j \in Nat
        BY <3>2, TakeShifts DEF IInv, SingleExecution
      <4>2. QED
        BY <4>1
    <3>3. QED
      BY <3>1, <3>2
  <2>6. \A q \in Pools : \A i \in DOMAIN queue'[q] : queue'[q][i] # t
    <3> SUFFICES ASSUME NEW q \in Pools, NEW i \in DOMAIN queue'[q]
                 PROVE  queue'[q][i] # t
      OBVIOUS
    <3>1. CASE q # p
      BY <2>4, <3>1, TakeShifts
    <3>2. CASE q = p
      BY <2>4, <3>2, TakeShifts
    <3>3. QED
      BY <3>1, <3>2
  <2>7. \A q \in Pools : \A i \in DOMAIN queue'[q] : ~InThread(queue'[q][i])
    BY <2>2, TakeShifts DEF IInv, SingleExecution
  <2>8. \A q \in Pools : \A i \in DOMAIN queue'[q] : \A u \in Threads :
          ~(thread'[u].pc # "idle" /\ thread'[u].task = queue'[q][i])
    BY <2>3, <2>6, <2>7 DEF InThread
  <2>9. \A th1, th2 \in Threads :
          thread'[th1].pc # "idle" /\ thread'[th1].task = thread'[th2].task => th1 = th2
    <3> SUFFICES ASSUME NEW th1 \in Threads, NEW th2 \in Threads,
                        thread'[th1].pc # "idle", thread'[th1].task = thread'[th2].task
                 PROVE  th1 = th2
      OBVIOUS
    <3>1. \A u \in Threads : thread[u].task # t
      <4>1. \A u \in Threads : thread[u].pc = "idle" => thread[u].task = NoTask
        BY DEF IInv, TypeOK
      <4>2. t # NoTask
        BY <2>2, NoTaskAssumption
      <4>3. QED
        BY <2>4, <4>1, <4>2 DEF InThread
    <3>2. thread'[th].task = t
      BY <2>3
    <3>3. CASE th1 = th \/ th2 = th
      BY <2>3, <3>1, <3>2, <3>3
    <3>4. CASE th1 # th /\ th2 # th
      <4>1. thread'[th1] = thread[th1] /\ thread'[th2] = thread[th2]
        BY <2>3, <3>4
      <4>2. QED
        BY <4>1 DEF IInv, SingleExecution
    <3>5. QED
      BY <3>3, <3>4
  <2>10. disp'.pc \notin {"poll", "ended"} => ~InQueueOfPool(disp.task)' /\ ~InThread(disp.task)'
    <3>1. disp.pc \notin {"poll", "ended"} => ~InQueueOfPool(disp.task) /\ ~InThread(disp.task) /\ disp.task # t
      BY <2>2 DEF IInv, SingleExecution, InQueueOfPool
    <3>2. \A q \in Pools : \A i \in DOMAIN queue'[q] :
            \E j \in DOMAIN queue[q] : queue[q][j] = queue'[q][i]
      BY TakeShifts
    <3>3. QED
      BY <2>1, <2>3, <3>1, <3>2 DEF InQueueOfPool, InThread
  <2>11. QED
    BY <2>5, <2>8, <2>9, <2>10 DEF SingleExecution, InThread
<1>10. CASE \E th \in Threads : ThreadWrites(th)
  <2> PICK th \in Threads : ThreadWrites(th)
    BY <1>10
  <2>1. UNCHANGED <<disp, queue>>
    BY DEF ThreadWrites
  <2>2. /\ \A u \in Threads : u # th => thread'[u] = thread[u]
        /\ thread'[th].pc # "idle" => thread[th].pc # "idle" /\ thread'[th].task = thread[th].task
        /\ thread'[th].task = NoTask \/ thread'[th].task = thread[th].task
    BY DEF ThreadWrites, IInv, TypeOK
  <2>3. \A t : InThread(t)' => InThread(t)
    BY <2>2 DEF InThread
  <2>4. \A th1, th2 \in Threads :
          thread'[th1].pc # "idle" /\ thread'[th1].task = thread'[th2].task => th1 = th2
    BY <2>2 DEF IInv, SingleExecution, TypeOK
  <2>5. QED
    BY <2>1, <2>3, <2>4 DEF IInv, SingleExecution, InQueueOfPool
<1>11. CASE SdfsStep
  BY <1>11, HandsUnmoved DEF SdfsStep, sdfsGoesDown, sdfsComesBack, sdfsStaysDown
<1>12. CASE restart
  BY <1>12 DEF restart, SingleExecution, InQueueOfPool, InThread
<1>13. CASE UNCHANGED vars
  BY <1>13, HandsUnmoved DEF vars
<1>14. QED
  BY <1>1, <1>2, <1>3, <1>4, <1>5, <1>6, <1>7, <1>8, <1>9, <1>10, <1>11, <1>12, <1>13,
     DispatcherShape, ExecutorShape DEF Next, Request, SdfsStep

-----------------------------------------------------------------------------
(* No held entry is offered                                                *)

\* Only requests for new tasks and a restart offer a task.
LEMMA NobodyOffers ==
  ASSUME IInv, [Next]_vars, ~restart
  PROVE  created \subseteq created' /\ \A t \in created : Offered(t)' => Offered(t)
<1> USE DEF Offered, IInv, TypeOK
<1>1. CASE \E t \in Tasks : createTask(t) \/ deleteBackup(t) \/ scheduleBackup(t)
  <2> PICK t \in Tasks : NewTask(t)
    BY <1>1, NewTaskShape
  <2> QED
    BY DEF NewTask, saveNewTask
<1>2. CASE Request /\ ~(\E t \in Tasks : createTask(t) \/ deleteBackup(t) \/ scheduleBackup(t))
  BY <1>2 DEF Request, removeTaskRead, removeTaskCancel, removeTaskRefresh, removeTaskDelete
<1>3. CASE Dispatcher \/ dispatcherEnds
  <2>1. CASE pollAssigned \/ submit \/ saveWaiting
    BY <2>1 DEF pollAssigned, submit, saveWaiting, DispatcherStep, Save
  <2>2. CASE DispatcherKeeps
    BY <2>2 DEF DispatcherKeeps, Save, WrittenByThread
  <2>3. QED
    BY <1>3, <2>1, <2>2, DispatcherShape
<1>4. CASE \E th \in Threads : Executor(th)
  <2> PICK th \in Threads : take(th) \/ ThreadWrites(th)
    BY <1>4, ExecutorShape
  <2> QED
    BY DEF take, ThreadWrites, Save, WrittenByThread
<1>5. CASE updateCanceledTasks \/ SdfsStep \/ UNCHANGED vars
  BY <1>5 DEF updateCanceledTasks, SdfsStep, sdfsGoesDown, sdfsComesBack, sdfsStaysDown, vars
<1>6. QED
  BY <1>1, <1>2, <1>3, <1>4, <1>5 DEF Next, SdfsStep

\* An entry in a queue was there before or was just submitted.
LEMMA QueueOrigin ==
  ASSUME IInv, [Next]_vars, NEW p \in Pools, NEW i \in DOMAIN queue'[p]
  PROVE  \/ \E j \in DOMAIN queue[p] : queue[p][j] = queue'[p][i]
         \/ disp.pc = "submit" /\ queue'[p][i] = disp.task /\ p = TypeOf[disp.task]
<1>1. CASE submit
  BY <1>1, SubmitAppends DEF submit, DispatcherStep
<1>2. CASE \E th \in Threads : take(th)
  BY <1>2, TakeShifts
<1>3. CASE restart
  BY <1>3 DEF restart
<1>4. CASE UNCHANGED queue
  BY <1>4
<1>5. QED
  <2>1. CASE Request \/ updateCanceledTasks \/ SdfsStep \/ UNCHANGED vars
    BY <1>4, <2>1 DEF Request, createTask, deleteBackup, scheduleBackup, saveNewTask,
       removeTaskRead, removeTaskCancel, removeTaskRefresh, removeTaskDelete,
       updateCanceledTasks, SdfsStep, sdfsGoesDown, sdfsComesBack, sdfsStaysDown, vars
  <2>2. CASE Dispatcher \/ dispatcherEnds
    BY <1>1, <1>4, <2>2, DispatcherShape DEF DispatcherKeeps, pollAssigned, saveWaiting
  <2>3. CASE \E th \in Threads : Executor(th)
    BY <1>2, <1>4, <2>3, ExecutorShape DEF ThreadWrites
  <2>4. QED
    BY <1>3, <2>1, <2>2, <2>3 DEF Next, SdfsStep

\* An entry with a thread was there before or was taken from its pool's queue.
LEMMA ThreadOrigin ==
  ASSUME IInv, [Next]_vars, NEW th \in Threads, thread'[th].pc # "idle"
  PROVE  \/ thread[th].pc # "idle" /\ thread'[th].task = thread[th].task
         \/ /\ PoolOf(th) \in Pools
            /\ \E j \in DOMAIN queue[PoolOf(th)] : queue[PoolOf(th)][j] = thread'[th].task
<1> USE DEF IInv, TypeOK, Idle
<1>1. CASE \E u \in Threads : take(u)
  BY <1>1, TakeShifts
<1>2. CASE \E u \in Threads : ThreadWrites(u)
  BY <1>2 DEF ThreadWrites
<1>3. CASE restart
  BY <1>3 DEF restart
<1>4. CASE UNCHANGED thread
  BY <1>4
<1>5. QED
  <2>1. CASE Request \/ updateCanceledTasks \/ SdfsStep \/ UNCHANGED vars
    BY <1>4, <2>1 DEF Request, createTask, deleteBackup, scheduleBackup, saveNewTask,
       removeTaskRead, removeTaskCancel, removeTaskRefresh, removeTaskDelete,
       updateCanceledTasks, SdfsStep, sdfsGoesDown, sdfsComesBack, sdfsStaysDown, vars
  <2>2. CASE Dispatcher \/ dispatcherEnds
    BY <1>4, <2>2, DispatcherShape DEF DispatcherKeeps, pollAssigned, saveWaiting, submit,
       DispatcherStep
  <2>3. CASE \E u \in Threads : Executor(u)
    BY <1>1, <1>2, <2>3, ExecutorShape
  <2>4. QED
    BY <1>3, <2>1, <2>2, <2>3 DEF Next, SdfsStep

\* No step but a restart offers an entry that a pool holds.
LEMMA NextClaims ==
  ASSUME IInv, [Next]_vars, ~restart
  PROVE  QueuedIsClaimed' /\ ExecutedIsClaimed'
<1> USE DEF IInv, HandsAreClaimed
<1>1. \A t, p : Claimed(t, p) => Claimed(t, p)'
  BY NobodyOffers DEF Claimed
<1>2. ASSUME NEW p \in Pools, NEW i \in DOMAIN queue'[p]
      PROVE  Claimed(queue'[p][i], p)
  BY <1>2, QueueOrigin DEF QueuedIsClaimed, DispatchedIsClaimed, Claimed
<1>3. ASSUME NEW th \in Threads, thread'[th].pc # "idle"
      PROVE  Claimed(thread'[th].task, PoolOf(th))
  BY <1>3, ThreadOrigin DEF QueuedIsClaimed, ExecutedIsClaimed
<1>4. ASSUME NEW p \in Pools, NEW i \in DOMAIN queue'[p], NEW t, t = queue'[p][i]
      PROVE  Claimed(t, p)'
  BY <1>1, <1>2, <1>4
<1>5. ASSUME NEW th \in Threads, thread'[th].pc # "idle", NEW t, t = thread'[th].task
      PROVE  Claimed(t, PoolOf(th))'
  BY <1>1, <1>3, <1>5
<1>6. QED
  BY <1>4, <1>5 DEF QueuedIsClaimed, ExecutedIsClaimed, Claimed, Offered

\* The dispatcher submits only entries of a pool that it has marked waiting.
LEMMA NextDispatchedIsClaimed ==
  ASSUME IInv, [Next]_vars
  PROVE  DispatchedIsClaimed'
<1> USE DEF IInv, TypeOK, HandsAreClaimed, DispatchedIsClaimed, Idle
<1>1. CASE UNCHANGED <<disp>> /\ ~restart
  BY <1>1, NobodyOffers
<1>2. CASE pollAssigned
  BY <1>2 DEF pollAssigned, firstAssigned, getAssignedTasks, KnownIsCreated
<1>3. CASE DispatcherKeeps
  BY <1>3 DEF DispatcherKeeps
<1>4. CASE saveWaiting
  BY <1>4 DEF saveWaiting, DispatcherStep, Save, Offered
<1>5. CASE submit
  BY <1>5 DEF submit, DispatcherStep
<1>6. CASE restart
  BY <1>6 DEF restart
<1>7. QED
  <2>1. CASE Request \/ updateCanceledTasks \/ SdfsStep \/ UNCHANGED vars
    BY <1>1, <1>6, <2>1 DEF Request, createTask, deleteBackup, scheduleBackup, saveNewTask,
       removeTaskRead, removeTaskCancel, removeTaskRefresh, removeTaskDelete, updateCanceledTasks,
       SdfsStep, sdfsGoesDown, sdfsComesBack, sdfsStaysDown, vars
  <2>2. CASE Dispatcher \/ dispatcherEnds
    BY <1>2, <1>3, <1>4, <1>5, <2>2, DispatcherShape
  <2>3. CASE \E th \in Threads : Executor(th)
    BY <1>1, <1>6, <2>3, ExecutorShape DEF ThreadWrites, take
  <2>4. QED
    BY <1>6, <2>1, <2>2, <2>3 DEF Next, SdfsStep

\* Records and requests name created tasks only.
LEMMA NextKnownIsCreated ==
  ASSUME IInv, [Next]_vars
  PROVE  KnownIsCreated'
<1> USE DEF IInv, TypeOK, HandsAreClaimed, KnownIsCreated, Save
<1>1. CASE \E t \in Tasks : createTask(t) \/ deleteBackup(t) \/ scheduleBackup(t)
  <2> PICK t \in Tasks : NewTask(t)
    BY <1>1, NewTaskShape
  <2> QED
    BY DEF NewTask, saveNewTask
<1>2. CASE \E t \in Tasks : removeTaskRead(t)
  BY <1>2 DEF removeTaskRead
<1>3. CASE removeTaskCancel \/ removeTaskRefresh \/ removeTaskDelete \/ updateCanceledTasks
  BY <1>3 DEF removeTaskCancel, removeTaskRefresh, removeTaskDelete, updateCanceledTasks
<1>4. CASE Dispatcher \/ dispatcherEnds
  <2>1. CASE pollAssigned \/ submit \/ saveWaiting
    BY <2>1 DEF pollAssigned, submit, saveWaiting, DispatcherStep, DispatchedIsClaimed
  <2>2. CASE DispatcherKeeps
    BY <2>2 DEF DispatcherKeeps, DispatchedIsClaimed
  <2>3. QED
    BY <1>4, <2>1, <2>2, DispatcherShape
<1>5. CASE \E th \in Threads : Executor(th)
  <2> PICK th \in Threads : take(th) \/ ThreadWrites(th)
    BY <1>5, ExecutorShape
  <2> QED
    BY DEF take, ThreadWrites, ExecutedIsClaimed, Claimed
<1>6. CASE restart
  BY <1>6 DEF restart
<1>7. CASE SdfsStep \/ UNCHANGED vars
  BY <1>7 DEF SdfsStep, sdfsGoesDown, sdfsComesBack, sdfsStaysDown, vars
<1>8. QED
  BY <1>1, <1>2, <1>3, <1>4, <1>5, <1>6, <1>7 DEF Next, Request, SdfsStep

\* After a restart no hand holds anything.
LEMMA RestartClaims == restart => QueuedIsClaimed' /\ ExecutedIsClaimed'
BY DEF restart, QueuedIsClaimed, ExecutedIsClaimed, Idle

-----------------------------------------------------------------------------
(* The theorems                                                            *)

\* The inductive invariant holds at first ...
LEMMA InitIInv == Init => IInv
BY InitTypeOK DEF Init, IInv, SingleExecution, InThread, HandsAreClaimed, QueuedIsClaimed,
   ExecutedIsClaimed, DispatchedIsClaimed, KnownIsCreated, Idle

\* ... and is kept by every step,
LEMMA NextIInv == IInv /\ [Next]_vars => IInv'
BY NextTypeOK, NextSingleExecution, NextClaims, RestartClaims, NextDispatchedIsClaimed,
   NextKnownIsCreated DEF IInv, HandsAreClaimed

\* so it always holds.
THEOREM Invariance == Spec => []IInv
BY InitIInv, NextIInv, PTL DEF Spec

\* The type invariant, whatever the tasks, pools and bounds are.
THEOREM TypeCorrectness == Spec => []TypeOK
BY Invariance, PTL DEF IInv

\* No entry is ever in two hands: WorkersDispatcher submits each entry to at
\* most one thread at a time, for any number of threads and tasks.
THEOREM TasksExecuteOnce == Spec => []SingleExecution
BY Invariance, PTL DEF IInv

\* An entry in a pool is never offered by the table while it is held.
THEOREM HeldIsClaimed == Spec => []HandsAreClaimed
BY Invariance, PTL DEF IInv

-----------------------------------------------------------------------------
(* Waiting tasks                                                           *)

\* Until the dispatcher claims its entry the record does not say waiting: what
\* it drops before that is not a task that seems to wait.
UnclaimedIsNotWaiting ==
  disp.pc \notin {"poll", "submit", "ended"} => status[disp.task] # "waiting"

\* A thread saves the waiting entry of a restore that it goes on cleaning up.
Resumes(th, t) ==
  /\ thread[th].pc # "idle" /\ thread[th].task = t
  /\ thread'[th].pc # "idle" /\ thread'[th].task = t

\* Only the dispatcher writes waiting into the record of its entry, and a
\* thread that keeps its entry.
LEMMA WaitingOrigin ==
  ASSUME IInv, [Next]_vars, NEW t \in Tasks, status'[t] = "waiting"
  PROVE  \/ status[t] = "waiting"
         \/ saveWaiting /\ t = disp.task
         \/ UNCHANGED disp /\ \E th \in Threads : Resumes(th, t)
<1> USE DEF IInv, TypeOK, Save
<1>1. CASE \E u \in Tasks : createTask(u) \/ deleteBackup(u) \/ scheduleBackup(u)
  <2> PICK u \in Tasks : NewTask(u)
    BY <1>1, NewTaskShape
  <2> QED
    BY DEF NewTask, saveNewTask
<1>2. CASE \E u \in Tasks : removeTaskRead(u)
  BY <1>2 DEF removeTaskRead
<1>3. CASE removeTaskCancel \/ removeTaskRefresh \/ removeTaskDelete \/ updateCanceledTasks
  BY <1>3 DEF removeTaskCancel, removeTaskRefresh, removeTaskDelete, updateCanceledTasks
<1>4. CASE Dispatcher \/ dispatcherEnds
  BY <1>4, DispatcherShape DEF pollAssigned, submit, saveWaiting, DispatcherStep, DispatcherKeeps,
     WrittenByThread
<1>5. CASE \E th \in Threads : Executor(th)
  <2> PICK th \in Threads : take(th) \/ ThreadWrites(th)
    BY <1>5, ExecutorShape
  <2>1. CASE take(th)
    BY <2>1 DEF take
  <2>2. CASE ThreadWrites(th)
    BY <2>2 DEF ThreadWrites, WrittenByThread, Resumes
  <2>3. QED
    BY <2>1, <2>2
<1>6. CASE restart
  BY <1>6 DEF restart
<1>7. CASE SdfsStep \/ UNCHANGED vars
  BY <1>7 DEF SdfsStep, sdfsGoesDown, sdfsComesBack, sdfsStaysDown, vars
<1>8. QED
  BY <1>1, <1>2, <1>3, <1>4, <1>5, <1>6, <1>7 DEF Next, Request, SdfsStep

\* An entry the dispatcher has not submitted is not waiting, unless it is about
\* to submit it: no thread holds it, so none saves it as waiting.
LEMMA NextUnclaimed ==
  ASSUME IInv, UnclaimedIsNotWaiting, [Next]_vars
  PROVE  UnclaimedIsNotWaiting'
<1> USE DEF UnclaimedIsNotWaiting, IInv, TypeOK, Idle
<1>0. ASSUME disp.pc \notin {"poll", "ended"}, NEW th \in Threads
      PROVE  ~Resumes(th, disp.task)
  BY <1>0 DEF Resumes, SingleExecution, InThread
<1>1. CASE disp' = disp
  BY <1>0, <1>1, WaitingOrigin DEF saveWaiting, DispatcherStep
<1>2. CASE pollAssigned
  BY <1>2 DEF pollAssigned, firstAssigned, getAssignedTasks
<1>3. CASE DispatcherKeeps
  BY <1>0, <1>3, WaitingOrigin DEF DispatcherKeeps, saveWaiting, DispatcherStep
<1>4. CASE saveWaiting \/ submit
  BY <1>4 DEF saveWaiting, submit, DispatcherStep
<1>5. CASE restart
  BY <1>5 DEF restart
<1>6. QED
  <2>1. CASE Request \/ updateCanceledTasks \/ SdfsStep \/ UNCHANGED vars
    BY <1>1, <2>1 DEF Request, createTask, deleteBackup, scheduleBackup, saveNewTask,
       removeTaskRead, removeTaskCancel, removeTaskRefresh, removeTaskDelete, updateCanceledTasks,
       SdfsStep, sdfsGoesDown, sdfsComesBack, sdfsStaysDown, vars
  <2>2. CASE Dispatcher \/ dispatcherEnds
    BY <1>2, <1>3, <1>4, <2>2, DispatcherShape
  <2>3. CASE \E th \in Threads : Executor(th)
    BY <1>1, <2>3, ExecutorShape DEF ThreadWrites, take
  <2>4. QED
    BY <1>5, <2>1, <2>2, <2>3 DEF Next, SdfsStep

\* What is stranded stays so until a restart.
LEMMA StrandedStay ==
  ASSUME IInv, [Next]_vars, ~restart
  PROVE  stranded \subseteq stranded'
<1>1. CASE Request \/ updateCanceledTasks \/ SdfsStep \/ UNCHANGED vars
  BY <1>1 DEF Request, createTask, deleteBackup, scheduleBackup, saveNewTask,
     removeTaskRead, removeTaskCancel, removeTaskRefresh, removeTaskDelete, updateCanceledTasks,
     SdfsStep, sdfsGoesDown, sdfsComesBack, sdfsStaysDown, vars
<1>2. CASE Dispatcher \/ dispatcherEnds
  BY <1>2, DispatcherShape DEF DispatcherKeeps, pollAssigned, saveWaiting, submit, DispatcherStep
<1>3. CASE \E th \in Threads : Executor(th)
  BY <1>3, ExecutorShape DEF ThreadWrites, take
<1>4. QED
  BY <1>1, <1>2, <1>3 DEF Next, SdfsStep

\* The entry of a queue stays in it or goes to a thread.
LEMMA QueueKeeps ==
  ASSUME IInv, [Next]_vars, ~restart, NEW t \in Tasks, InQueueOfPool(t)
  PROVE  InQueueOfPool(t)' \/ InThread(t)'
<1> USE DEF InQueueOfPool, InThread
<1>1. PICK p \in Pools : \E i \in DOMAIN queue[p] : queue[p][i] = t
  OBVIOUS
<1>2. queue \in [Pools -> Seq(Tasks)]
  BY DEF IInv, TypeOK
<1>3. PICK i \in DOMAIN queue[p] : queue[p][i] = t
  BY <1>1
<1>4. CASE UNCHANGED queue
  BY <1>4
<1>5. CASE submit
  <2>1. TypeOf[disp.task] \in Pools /\ queue' = [queue EXCEPT ![TypeOf[disp.task]] = Append(@, disp.task)]
    BY <1>5, SubmitAppends DEF submit
  <2>2. disp.task \in Tasks /\ queue[p] \in Seq(Tasks)
    BY <1>2, <1>5, SubmitAppends
  <2>3. i \in DOMAIN Append(queue[p], disp.task) /\ Append(queue[p], disp.task)[i] = t
    BY <1>3, <2>2
  <2>4. queue'[p] = queue[p] \/ queue'[p] = Append(queue[p], disp.task)
    BY <1>2, <2>1
  <2>5. QED
    BY <1>3, <2>3, <2>4
<1>6. CASE \E th \in Threads : take(th)
  <2> PICK th \in Threads : take(th)
    BY <1>6
  <2>1. PoolOf(th) \in Pools /\ queue' = [queue EXCEPT ![PoolOf(th)] = Tail(@)]
    BY TakeShifts DEF take
  <2>2. CASE p # PoolOf(th)
    BY <1>2, <1>3, <2>1, <2>2
  <2>3. CASE p = PoolOf(th) /\ i = 1
    <3>1. thread' = [thread EXCEPT ![th] = [pc |-> "start", task |-> t]]
      BY <1>3, <2>3, TakeShifts
    <3>2. thread'[th].pc # "idle" /\ thread'[th].task = t
      BY <3>1 DEF IInv, TypeOK
    <3>3. QED
      BY <3>2
  <2>4. CASE p = PoolOf(th) /\ i # 1
    <3>1. queue[p] \in Seq(Tasks) /\ queue'[p] = Tail(queue[p])
      BY <1>2, <2>1, <2>4
    <3>2. i - 1 \in DOMAIN Tail(queue[p]) /\ Tail(queue[p])[i - 1] = t
      BY <1>3, <2>4, <3>1
    <3>3. QED
      BY <3>1, <3>2
  <2>5. QED
    BY <2>2, <2>3, <2>4
<1>7. QED
  <2>1. CASE Request \/ updateCanceledTasks \/ SdfsStep \/ UNCHANGED vars
    BY <1>4, <2>1 DEF Request, createTask, deleteBackup, scheduleBackup, saveNewTask,
       removeTaskRead, removeTaskCancel, removeTaskRefresh, removeTaskDelete,
       updateCanceledTasks, SdfsStep, sdfsGoesDown, sdfsComesBack, sdfsStaysDown, vars
  <2>2. CASE Dispatcher \/ dispatcherEnds
    BY <1>4, <1>5, <2>2, DispatcherShape DEF DispatcherKeeps, pollAssigned, saveWaiting
  <2>3. CASE \E th \in Threads : Executor(th)
    BY <1>4, <1>6, <2>3, ExecutorShape DEF ThreadWrites
  <2>4. QED
    BY <2>1, <2>2, <2>3 DEF Next, SdfsStep

\* A thread that lets go of its entry has written another status, or the entry
\* is stranded.
LEMMA ThreadKeeps ==
  ASSUME IInv, [Next]_vars, ~restart, NEW t \in Tasks, InThread(t), status'[t] = "waiting"
  PROVE  InThread(t)' \/ t \in stranded'
<1> USE DEF InThread, IInv, TypeOK
<1>1. PICK u \in Threads : thread[u].pc # "idle" /\ thread[u].task = t
  OBVIOUS
<1>2. CASE UNCHANGED thread
  BY <1>1, <1>2
<1>3. CASE \E th \in Threads : take(th)
  BY <1>1, <1>3 DEF take
<1>4. CASE \E th \in Threads : ThreadWrites(th)
  <2> PICK th \in Threads : ThreadWrites(th)
    BY <1>4
  <2>1. CASE th # u
    <3>1. thread'[u] = thread[u]
      BY <2>1 DEF ThreadWrites
    <3>2. QED
      BY <1>1, <3>1
  <2>2. CASE th = u
    BY <1>1, <2>2 DEF ThreadWrites, Save, WrittenByThread
  <2>3. QED
    BY <2>1, <2>2
<1>5. QED
  <2>1. CASE Request \/ updateCanceledTasks \/ SdfsStep \/ UNCHANGED vars
    BY <1>2, <2>1 DEF Request, createTask, deleteBackup, scheduleBackup, saveNewTask,
       removeTaskRead, removeTaskCancel, removeTaskRefresh, removeTaskDelete,
       updateCanceledTasks, SdfsStep, sdfsGoesDown, sdfsComesBack, sdfsStaysDown, vars
  <2>2. CASE Dispatcher \/ dispatcherEnds
    BY <1>2, <2>2, DispatcherShape DEF DispatcherKeeps, pollAssigned, saveWaiting, submit,
       DispatcherStep
  <2>3. CASE \E th \in Threads : Executor(th)
    BY <1>3, <1>4, <2>3, ExecutorShape
  <2>4. QED
    BY <2>1, <2>2, <2>3 DEF Next, SdfsStep

\* The dispatcher lets go of a waiting entry only by submitting it.
LEMMA DispatcherKeepsWaiting ==
  ASSUME IInv, UnclaimedIsNotWaiting, [Next]_vars, ~restart, NEW t \in Tasks,
         InDispatcher(t), status'[t] = "waiting"
  PROVE  InDispatcher(t)' \/ InQueueOfPool(t)'
<1> USE DEF InDispatcher, Idle
<1>1. CASE disp' = disp
  BY <1>1
<1>2. CASE pollAssigned
  BY <1>2 DEF pollAssigned
<1>3. CASE DispatcherKeeps
  <2>1. ASSUME NEW th \in Threads
        PROVE  ~Resumes(th, t)
    BY <2>1 DEF Resumes, IInv, SingleExecution, InThread
  <2>2. QED
    BY <1>3, <2>1, WaitingOrigin DEF DispatcherKeeps, UnclaimedIsNotWaiting, saveWaiting,
       DispatcherStep
<1>4. CASE saveWaiting
  BY <1>4 DEF saveWaiting, DispatcherStep
<1>5. CASE submit
  <2> DEFINE p == TypeOf[disp.task]
  <2>1. p \in Pools /\ disp.task \in Tasks /\ disp.task = t
    BY <1>5, SubmitAppends DEF submit, DispatcherStep
  <2>2. queue' = [queue EXCEPT ![p] = Append(@, t)] /\ queue[p] \in Seq(Tasks)
    BY <1>5, <2>1 DEF submit, IInv, TypeOK
  <2>3. queue'[p] = Append(queue[p], t)
    BY <2>1, <2>2 DEF IInv, TypeOK
  <2>4. Len(queue[p]) + 1 \in DOMAIN queue'[p] /\ queue'[p][Len(queue[p]) + 1] = t
    BY <2>1, <2>2, <2>3
  <2>5. QED
    BY <2>1, <2>4 DEF InQueueOfPool
<1>6. QED
  <2>1. CASE Request \/ updateCanceledTasks \/ SdfsStep \/ UNCHANGED vars
    BY <1>1, <2>1 DEF Request, createTask, deleteBackup, scheduleBackup, saveNewTask,
       removeTaskRead, removeTaskCancel, removeTaskRefresh, removeTaskDelete, updateCanceledTasks,
       SdfsStep, sdfsGoesDown, sdfsComesBack, sdfsStaysDown, vars
  <2>2. CASE Dispatcher \/ dispatcherEnds
    BY <1>2, <1>3, <1>4, <1>5, <2>2, DispatcherShape
  <2>3. CASE \E th \in Threads : Executor(th)
    BY <1>1, <2>3, ExecutorShape DEF ThreadWrites, take
  <2>4. QED
    BY <2>1, <2>2, <2>3 DEF Next, SdfsStep

\* No step leaves a waiting task in nobody's hand that is not stranded.
LEMMA NextWaitingIsHeld ==
  ASSUME IInv, UnclaimedIsNotWaiting, WaitingIsHeld, [Next]_vars
  PROVE  WaitingIsHeld'
<1> SUFFICES ASSUME NEW t \in Tasks, status'[t] = "waiting"
             PROVE  InDispatcher(t)' \/ InQueueOfPool(t)' \/ InThread(t)' \/ t \in stranded'
  BY DEF WaitingIsHeld
<1>1. CASE restart
  BY <1>1 DEF restart, IInv, TypeOK
<1>2. CASE saveWaiting /\ t = disp.task
  BY <1>2 DEF saveWaiting, DispatcherStep, InDispatcher
<1>3. CASE status[t] = "waiting" /\ ~restart
  <2>1. InDispatcher(t) \/ InQueueOfPool(t) \/ InThread(t) \/ t \in stranded
    BY <1>3 DEF WaitingIsHeld
  <2>2. QED
    BY <1>3, <2>1, DispatcherKeepsWaiting, QueueKeeps, ThreadKeeps, StrandedStay
<1>4. CASE \E th \in Threads : Resumes(th, t)
  BY <1>4 DEF Resumes, InThread
<1>5. QED
  BY <1>1, <1>2, <1>3, <1>4, WaitingOrigin

\* A waiting task is in somebody's hand, before and after restarts, unless a
\* restart or a failed look-up has taken its holder away while it waited.
THEOREM WaitingTasksAreHeld == Spec => []WaitingIsHeld
<1> DEFINE Inv == UnclaimedIsNotWaiting /\ WaitingIsHeld
<1>1. Init => Inv
  BY DEF Init, Idle, UnclaimedIsNotWaiting, WaitingIsHeld
<1>2. IInv /\ Inv /\ [Next]_vars => Inv'
  BY NextUnclaimed, NextWaitingIsHeld
<1>3. QED
  BY <1>1, <1>2, Invariance, PTL DEF Spec

-----------------------------------------------------------------------------
(* The ownership protocol                                                  *)

\* A submitted entry of the task is in some hand.
Held(t) == InQueueOfPool(t) \/ InThread(t)

HeldThreads(t) == {th \in Threads : thread[th].pc # "idle" /\ thread[th].task = t}

\* A hand is one place or one thread: what is counted is whether there is one.
LEMMA OccurrencesCountHands ==
  IInv => \A t \in Tasks : Occurrences(t) = IF Held(t) THEN 1 ELSE 0
<1> SUFFICES ASSUME IInv, NEW t \in Tasks
             PROVE  Occurrences(t) = IF Held(t) THEN 1 ELSE 0
  OBVIOUS
<1>1. Occurrences(t) = Cardinality(PlacesOf(t)) + Cardinality(HeldThreads(t))
  BY DEF Occurrences, HeldThreads
<1>2. CASE InQueueOfPool(t)
  <2>0. PICK p \in Pools : \E i \in DOMAIN queue[p] : queue[p][i] = t
    BY <1>2 DEF InQueueOfPool
  <2>1. PICK i \in DOMAIN queue[p] : queue[p][i] = t
    BY <2>0
  <2>2. \A q \in Pools : \A j \in DOMAIN queue[q] : queue[q][j] = t => q = p /\ j = i
    BY <2>1 DEF IInv, SingleExecution, HandsAreClaimed, QueuedIsClaimed, Claimed
  <2>3. PlacesOf(t) = {<<p, i>>}
    BY <2>1, <2>2 DEF PlacesOf
  <2>4. HeldThreads(t) = {}
    BY <2>1 DEF HeldThreads, IInv, SingleExecution, InThread
  <2>5. Cardinality(PlacesOf(t)) = 1 /\ Cardinality(HeldThreads(t)) = 0
    BY <2>3, <2>4, FS_Singleton, FS_EmptySet
  <2>6. QED
    BY <1>1, <1>2, <2>5 DEF Held
<1>3. CASE ~InQueueOfPool(t) /\ InThread(t)
  <2>1. PlacesOf(t) = {}
    BY <1>3 DEF PlacesOf, InQueueOfPool
  <2>2. PICK th \in Threads : thread[th].pc # "idle" /\ thread[th].task = t
    BY <1>3 DEF InThread
  <2>3. HeldThreads(t) = {th}
    BY <2>2 DEF HeldThreads, IInv, SingleExecution
  <2>4. Cardinality(PlacesOf(t)) = 0 /\ Cardinality(HeldThreads(t)) = 1
    BY <2>1, <2>3, FS_Singleton, FS_EmptySet
  <2>5. QED
    BY <1>1, <1>3, <2>4 DEF Held
<1>4. CASE ~InQueueOfPool(t) /\ ~InThread(t)
  <2>1. PlacesOf(t) = {}
    BY <1>4 DEF PlacesOf, InQueueOfPool
  <2>2. HeldThreads(t) = {}
    BY <1>4 DEF HeldThreads, InThread
  <2>3. Cardinality(PlacesOf(t)) = 0 /\ Cardinality(HeldThreads(t)) = 0
    BY <2>1, <2>2, FS_EmptySet
  <2>4. QED
    BY <1>1, <1>4, <2>3 DEF Held
<1>5. QED
  BY <1>2, <1>3, <1>4

\* What the refinement maps to inFlight, and to offered.
InFlight  == [t \in Tasks |-> Occurrences(t)]
OfferedOf == {t \in Tasks : Offered(t)}

\* One task at most changes hands in a step.
LEMMA HandsChange ==
  ASSUME IInv, IInv', NEW u \in Tasks, \A t \in Tasks : t # u => (Held(t)' <=> Held(t))
  PROVE  InFlight' = [InFlight EXCEPT ![u] = IF Held(u)' THEN 1 ELSE 0]
<1>1. (IInv => \A t \in Tasks : Occurrences(t) = IF Held(t) THEN 1 ELSE 0)'
  BY OccurrencesCountHands, PTL
<1>2. ASSUME NEW t \in Tasks
      PROVE  Occurrences(t)' = IF Held(t)' THEN 1 ELSE 0
  BY <1>1
<1>3. ASSUME NEW t \in Tasks, t # u
      PROVE  Occurrences(t)' = Occurrences(t)
  BY <1>2, <1>3, OccurrencesCountHands
<1>4. QED
  BY <1>2, <1>3 DEF InFlight

\* The same tasks are in flight after a step that keeps all hands.
LEMMA SameHands ==
  ASSUME IInv, IInv', \A t \in Tasks : Held(t)' <=> Held(t)
  PROVE  InFlight' = InFlight
<1>1. (IInv => \A t \in Tasks : Occurrences(t) = IF Held(t) THEN 1 ELSE 0)'
  BY OccurrencesCountHands, PTL
<1>2. ASSUME NEW t \in Tasks
      PROVE  Occurrences(t)' = Occurrences(t)
  BY <1>1, OccurrencesCountHands
<1>3. QED
  BY <1>2 DEF InFlight

\* Neither do they change when nothing enters or leaves the pools.
LEMMA HandsStay ==
  ASSUME IInv, IInv', UNCHANGED <<queue, thread>>
  PROVE  InFlight' = InFlight
BY SameHands DEF Held, InQueueOfPool, InThread

\* A step of the abstract protocol, read off this module's state.
Withdrawn(t) == OfferedOf' = OfferedOf \ {t} /\ created' = created /\ InFlight' = InFlight
Stuttered    == OfferedOf' = OfferedOf /\ created' = created /\ InFlight' = InFlight

\* A save offers a task, withdraws it or changes nothing for the others.
LEMMA SaveWithdraws ==
  ASSUME TypeOK, NEW t \in Tasks, NEW s \in Statuses \ {"queued", "partially_finished"}, Save(t, s)
  PROVE  OfferedOf' = OfferedOf \ {t}
BY DEF TypeOK, Save, OfferedOf, Offered

\* The requests offer new tasks or withdraw the one they remove.
LEMMA RequestImplements ==
  ASSUME IInv, IInv', Request
  PROVE  Ownership!OwnershipNext \/ Stuttered
<1>0. UNCHANGED <<queue, thread>>
  BY DEF Request, createTask, deleteBackup, scheduleBackup, saveNewTask, removeTaskRead,
     removeTaskCancel, removeTaskRefresh, removeTaskDelete
<1>1. InFlight' = InFlight
  BY <1>0, HandsStay
<1>2. CASE \E t \in Tasks : createTask(t) \/ deleteBackup(t) \/ scheduleBackup(t)
  <2> PICK t \in Tasks : NewTask(t)
    BY <1>2, NewTaskShape
  <2>1. t \notin created /\ created' = created \union {t}
    BY DEF NewTask, saveNewTask
  <2>2. OfferedOf' = OfferedOf \union {t}
    BY DEF NewTask, saveNewTask, OfferedOf, Offered, IInv, TypeOK
  <2>3. Ownership!Offer(t)
    BY <1>1, <2>1, <2>2 DEF Ownership!Offer, InFlight, OfferedOf
  <2>4. QED
    BY <2>3 DEF Ownership!OwnershipNext
<1>3. CASE removeTaskCancel \/ removeTaskDelete
  <2>1. req.task \in Tasks /\ created' = created
    BY <1>3 DEF removeTaskCancel, removeTaskDelete, IInv, TypeOK
  <2>2. \E s \in {"canceled", "absent"} : Save(req.task, s)
    BY <1>3 DEF removeTaskCancel, removeTaskDelete, Save
  <2>3. OfferedOf' = OfferedOf \ {req.task}
    BY <2>1, <2>2, SaveWithdraws DEF Statuses, IInv
  <2>4. Ownership!Withdraw(req.task)
    BY <1>1, <2>1, <2>3 DEF Ownership!Withdraw, InFlight, OfferedOf
  <2>5. QED
    BY <2>1, <2>4 DEF Ownership!OwnershipNext
<1>4. CASE (\E t \in Tasks : removeTaskRead(t)) \/ removeTaskRefresh
  <2>1. status' = status /\ created' = created
    BY <1>4 DEF removeTaskRead, removeTaskRefresh
  <2>2. QED
    BY <1>1, <2>1 DEF Stuttered, OfferedOf, Offered
<1>5. QED
  BY <1>2, <1>3, <1>4 DEF Request

\* The dispatcher claims, executes or submits the entry it holds.
LEMMA DispatcherImplements ==
  ASSUME IInv, IInv', [Next]_vars, Dispatcher \/ dispatcherEnds
  PROVE  Ownership!OwnershipNext \/ Stuttered
<1>1. CASE pollAssigned
  <2>1. UNCHANGED <<queue, thread>> /\ status' = status /\ created' = created
    BY <1>1 DEF pollAssigned
  <2>2. QED
    BY <2>1, HandsStay DEF Stuttered, OfferedOf, Offered
<1>2. CASE DispatcherKeeps \/ saveWaiting
  <2>1. UNCHANGED <<queue, thread>> /\ created' = created
    BY <1>2 DEF DispatcherKeeps, saveWaiting, DispatcherStep
  <2>2. InFlight' = InFlight
    BY <2>1, HandsStay
  <2>3. CASE status' = status
    BY <2>1, <2>2, <2>3 DEF Stuttered, OfferedOf, Offered
  <2>4. CASE status' # status
    <3>1. disp.task \in Tasks
      BY <1>2, <2>4 DEF DispatcherKeeps, saveWaiting, DispatcherStep, IInv, TypeOK
    <3>2. \E s \in Statuses \ {"queued", "partially_finished"} : Save(disp.task, s)
      BY <1>2, <2>4 DEF DispatcherKeeps, saveWaiting, WrittenByThread, Statuses
    <3>3. OfferedOf' = OfferedOf \ {disp.task}
      BY <3>1, <3>2, SaveWithdraws DEF IInv
    <3>4. Ownership!Withdraw(disp.task)
      BY <2>1, <2>2, <3>3 DEF Ownership!Withdraw, InFlight, OfferedOf
    <3>5. QED
      BY <3>1, <3>4 DEF Ownership!OwnershipNext
  <2>5. QED
    BY <2>3, <2>4
<1>3. CASE submit
  <2>0. PICK u \in Tasks : u = disp.task
    BY <1>3, SubmitAppends
  <2> DEFINE p == TypeOf[u]
  <2>1. p \in Pools /\ u \in Tasks /\ disp.pc = "submit" /\ UNCHANGED <<status, created, thread>>
    BY <1>3, <2>0, SubmitAppends DEF submit, DispatcherStep
  <2>2. queue' = [queue EXCEPT ![p] = Append(@, u)] /\ queue[p] \in Seq(Tasks)
    BY <1>3, <2>0, <2>1 DEF submit, IInv, TypeOK
  <2>3. ~Offered(u) /\ u \in created /\ ~Held(u)
    BY <2>0, <2>1 DEF IInv, HandsAreClaimed, DispatchedIsClaimed, SingleExecution, Held
  <2>4. InQueueOfPool(u)'
    <3>1. queue'[p] = Append(queue[p], u)
      BY <2>1, <2>2 DEF IInv, TypeOK
    <3>2. Len(queue[p]) + 1 \in DOMAIN queue'[p] /\ queue'[p][Len(queue[p]) + 1] = u
      BY <2>1, <2>2, <3>1
    <3>3. QED
      BY <2>1, <3>2 DEF InQueueOfPool
  <2>5. ASSUME NEW t \in Tasks, t # u
        PROVE  Held(t)' <=> Held(t)
    <3>1. ~restart
      BY <1>3 DEF submit, DispatcherStep, restart, IInv, TypeOK
    <3>2. InThread(t)' <=> InThread(t)
      BY <2>1 DEF InThread
    <3>3. InQueueOfPool(t) => Held(t)'
      BY <3>1, QueueKeeps DEF Held
    <3>4. InQueueOfPool(t)' => InQueueOfPool(t)
      BY <2>0, <2>5, QueueOrigin DEF InQueueOfPool
    <3>5. QED
      BY <3>2, <3>3, <3>4 DEF Held
  <2>6. InFlight' = [InFlight EXCEPT ![u] = 1]
    BY <2>1, <2>4, <2>5, HandsChange DEF Held
  <2>7. InFlight[u] = 0
    BY <2>1, <2>3, OccurrencesCountHands DEF InFlight
  <2>8. OfferedOf' = OfferedOf /\ u \notin OfferedOf
    BY <2>1, <2>3 DEF OfferedOf, Offered
  <2>9. Ownership!Submit(u)
    BY <2>1, <2>3, <2>6, <2>7, <2>8 DEF Ownership!Submit, InFlight, OfferedOf
  <2>10. QED
    BY <2>1, <2>9 DEF Ownership!OwnershipNext
<1>4. QED
  BY <1>1, <1>2, <1>3, DispatcherShape

\* A thread takes an entry, works on it or lets it go.
LEMMA ExecutorImplements ==
  ASSUME IInv, IInv', [Next]_vars, NEW th \in Threads, Executor(th)
  PROVE  Ownership!OwnershipNext \/ Stuttered
<1>1. ~restart
  BY ExecutorShape DEF take, ThreadWrites, restart, IInv, TypeOK
<1>2. CASE take(th)
  <2>1. status' = status /\ created' = created
    BY <1>2 DEF take
  <2>2. ASSUME NEW t \in Tasks
        PROVE  Held(t)' <=> Held(t)
    <3>1. InQueueOfPool(t) => Held(t)'
      BY <1>1, QueueKeeps DEF Held
    <3>2. InThread(t) => InThread(t)'
      BY <1>2 DEF take, InThread, IInv, TypeOK
    <3>3. InQueueOfPool(t)' => InQueueOfPool(t)
      BY <1>2, TakeShifts DEF InQueueOfPool
    <3>4. InThread(t)' => InThread(t) \/ InQueueOfPool(t)
      BY ThreadOrigin DEF InThread, InQueueOfPool
    <3>5. QED
      BY <3>1, <3>2, <3>3, <3>4 DEF Held
  <2>3. QED
    BY <2>1, <2>2, SameHands DEF Stuttered, OfferedOf, Offered
<1>3. CASE ThreadWrites(th)
  <2>0. PICK u \in Tasks : u = thread[th].task
    BY <1>3 DEF ThreadWrites, IInv, TypeOK
  <2>1. /\ thread[th].pc # "idle" /\ UNCHANGED <<created, queue>>
        /\ \A v \in Threads \ {th} : thread'[v] = thread[v]
        /\ thread'[th].pc # "idle" => thread'[th].task = u
    BY <1>3, <2>0 DEF ThreadWrites, Idle, IInv, TypeOK
  <2>2. OfferedOf' = OfferedOf
    <3>1. u \notin OfferedOf
      BY <2>0, <2>1 DEF OfferedOf, IInv, HandsAreClaimed, ExecutedIsClaimed, Claimed
    <3>2. \/ status' = status
          \/ \E s \in Statuses \ {"queued", "partially_finished"} : Save(u, s)
      BY <1>3, <2>0 DEF ThreadWrites, WrittenByThread, Statuses
    <3>3. CASE status' = status
      BY <3>3 DEF OfferedOf, Offered
    <3>4. CASE \E s \in Statuses \ {"queued", "partially_finished"} : Save(u, s)
      BY <2>1, <3>1, <3>4, SaveWithdraws DEF IInv
    <3>5. QED
      BY <3>2, <3>3, <3>4
  <2>3. ASSUME NEW t \in Tasks, t # u
        PROVE  Held(t)' <=> Held(t)
    <3>1. InQueueOfPool(t)' <=> InQueueOfPool(t)
      BY <2>1 DEF InQueueOfPool
    <3>2. InThread(t)' <=> InThread(t)
      BY <2>0, <2>1, <2>3 DEF InThread
    <3>3. QED
      BY <3>1, <3>2 DEF Held
  <2>4. CASE thread'[th].pc # "idle"
    <3>1. Held(u) /\ Held(u)'
      BY <2>0, <2>1, <2>4 DEF Held, InThread
    <3>2. InFlight' = InFlight
      BY <2>3, <3>1, SameHands
    <3>3. QED
      BY <2>1, <2>2, <3>2 DEF Stuttered
  <2>5. CASE thread'[th].pc = "idle"
    <3>1. ~Held(u)'
      <4>1. ~InQueueOfPool(u)'
        BY <2>0, <2>1 DEF InQueueOfPool, IInv, SingleExecution, InThread
      <4>2. ~InThread(u)'
        BY <2>0, <2>1, <2>5 DEF InThread, IInv, SingleExecution
      <4>3. QED
        BY <4>1, <4>2 DEF Held
    <3>2. InFlight' = [InFlight EXCEPT ![u] = 0]
      BY <2>1, <2>3, <3>1, HandsChange
    <3>3. InFlight[u] = 1
      BY <2>0, <2>1, OccurrencesCountHands DEF InFlight, Held, InThread
    <3>4. Ownership!Release(u)
      BY <2>1, <2>2, <3>2, <3>3 DEF Ownership!Release, InFlight, OfferedOf
    <3>5. QED
      BY <2>1, <3>4 DEF Ownership!OwnershipNext
  <2>6. QED
    BY <2>4, <2>5
<1>4. QED
  BY <1>2, <1>3, ExecutorShape

\* A restart empties all hands and offers what was running.
LEMMA RestartImplements ==
  ASSUME IInv, IInv', restart
  PROVE  Ownership!OwnershipNext
<1>1. \A t \in Tasks : ~Held(t)'
  BY DEF Held, InQueueOfPool, InThread, restart, Idle
<1>2. (IInv => \A t \in Tasks : Occurrences(t) = IF Held(t) THEN 1 ELSE 0)'
  BY OccurrencesCountHands, PTL
<1>3. InFlight' = [t \in Tasks |-> 0]
  BY <1>1, <1>2 DEF InFlight
<1> DEFINE again == {t \in Tasks : status[t] = "running"}
<1>4. again \subseteq created
  BY DEF IInv, HandsAreClaimed, KnownIsCreated
<1>5. OfferedOf' = OfferedOf \union again
  BY DEF OfferedOf, Offered, restart, IInv, TypeOK
<1>6. created' = created
  BY DEF restart
<1>7. Ownership!Restart
  BY <1>3, <1>4, <1>5, <1>6 DEF Ownership!Restart, InFlight, OfferedOf
<1>8. QED
  BY <1>7 DEF Ownership!OwnershipNext

\* Every step of the program is a step of the protocol or none.
LEMMA NextImplements ==
  ASSUME IInv, IInv', [Next]_vars
  PROVE  [Ownership!OwnershipNext]_(Ownership!ownershipVars)
<1>1. Ownership!OwnershipNext \/ Stuttered
  <2>1. CASE updateCanceledTasks \/ SdfsStep \/ UNCHANGED vars
    <3>1. UNCHANGED <<queue, thread>> /\ status' = status /\ created' = created
      BY <2>1 DEF updateCanceledTasks, SdfsStep, sdfsGoesDown, sdfsComesBack, sdfsStaysDown, vars
    <3>2. QED
      BY <3>1, HandsStay DEF Stuttered, OfferedOf, Offered
  <2>2. QED
    BY <2>1, RequestImplements, DispatcherImplements, ExecutorImplements,
       RestartImplements DEF Next, SdfsStep
<1>2. QED
  BY <1>1 DEF Stuttered, Ownership!ownershipVars, OfferedOf, InFlight

\* At first nothing is offered and all hands are empty.
LEMMA InitImplements == Init => Ownership!OwnershipInit
<1> SUFFICES ASSUME Init
             PROVE  Ownership!OwnershipInit
  OBVIOUS
<1>1. IInv
  BY InitIInv
<1>2. \A t \in Tasks : ~Held(t)
  BY DEF Init, Held, InQueueOfPool, InThread, Idle
<1>3. InFlight = [t \in Tasks |-> 0]
  BY <1>1, <1>2, OccurrencesCountHands DEF InFlight
<1>4. created = {} /\ OfferedOf = {}
  BY DEF Init, OfferedOf, Offered
<1>5. QED
  BY <1>3, <1>4 DEF Ownership!OwnershipInit, InFlight, OfferedOf

\* The dispatcher, the pools, the requests and the restarts implement the
\* ownership protocol: an entry is submitted only when no hand holds it, and
\* only a restart offers a submitted entry again.
THEOREM PoolsImplementOwnership == Spec => ImplementsOwnership
<1>1. IInv /\ IInv' /\ [Next]_vars => [Ownership!OwnershipNext]_(Ownership!ownershipVars)
  BY NextImplements
<1>2. QED
  BY <1>1, InitImplements, Invariance, PTL DEF Spec, ImplementsOwnership, Ownership!Spec
=============================================================================
