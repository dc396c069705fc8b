------------------------- MODULE ClusterTasksProofs -------------------------
(***************************************************************************)
(* One execution per task and no overloaded node, as long as no instance   *)
(* is lost, for every set of nodes and tasks, every size of the pools, and *)
(* any number of launches, restarts, removals, failures and executions.    *)
(*                                                                         *)
(* The composition takes no step that the membership does not know, so the *)
(* invariant of ClusterMembershipProofs holds of it.  While no instance is *)
(* lost nothing is published, nobody is elected, and the jobs of the       *)
(* master run on the first node alone.  That leaves the field worker as    *)
(* the lock of a task: the one scheduler writes records that have no       *)
(* worker, and the node that is the worker writes the others, so that no   *)
(* save of a copy undoes what somebody else did.                           *)
(*                                                                         *)
(* The last section is about clusters that do lose instances: whose tasks  *)
(* are given back, as long as one node has the jobs of the master.         *)
(***************************************************************************)
EXTENDS ClusterTasks, ClusterMembershipProofs, FiniteSetTheorems

\* Copies of the records of some tasks, and free workers of some nodes.
Copies == UNION {[S -> Records] : S \in SUBSET Tasks}
Frees  == UNION {[S -> [Pools -> Int]] : S \in SUBSET Nodes}

Schedulers == [pc : {"idle", "nodes", "counting", "assigning", "reassign", "giveBack"},
               copies : Copies, free : Frees, ids : SUBSET Nodes]
Listeners  == [pc : {"idle", "saving"}, copies : Copies]
Executions == [turn : Nat, node : Nodes, task : Tasks \ Regular, done : BOOLEAN,
               pc : {"waiting", "busy", "ending", "failed", "over"}]

TasksTypes ==
  /\ task \in [Tasks -> Records]
  /\ hand \in [Nodes -> (Tasks \ Regular) \union {NoTask}]
  /\ execs \subseteq Executions
  /\ sched \in [Nodes -> Schedulers]
  /\ listen \in [Nodes -> Listeners]
  /\ limits \in [runs : 0 .. MaxRuns, removals : Nat, failures : Nat]

\* A scheduler that distributes tasks is at one of these points.
Distributing == {"nodes", "counting", "assigning"}

\* Only nodes that run have work, and the jobs of the master run where jobs
\* says so.
OnlyRunningWork ==
  /\ \A n \in Nodes : hand[n] # NoTask => n \in up
  /\ \A x \in execs : x.node \in up /\ x.turn < limits.runs
  /\ \A n \in Nodes : sched[n].pc # "idle" => n \in jobs

\* No instance was lost.
Calm == faults.terminations = 0

\* Then nothing is published or handled, and no node but the first is master.
MembershipIsCalm ==
  /\ inbox = {}
  /\ \A n \in Nodes : publisher[n].pc = "idle" /\ handler[n].pc = "idle"
  /\ \A e \in events : e.kind # "terminated"
  /\ \A n \in Nodes : \A e \in todo[n] : e.kind # "terminated"
  /\ jobs \subseteq {FirstNode}
  /\ \A n \in Nodes \ {FirstNode} : row[n] # "master" /\ copy[n] # "master"
  /\ \A n \in Nodes : copy[n] # "none" => row[n] # "none"

\* Tasks are given to nodes that have a record, and none is taken back.
WorkersAreKnown ==
  /\ \A t \in Tasks : task[t].worker \in recorded \union {NoNode}
  /\ \A n \in Nodes : DOMAIN sched[n].free \union sched[n].ids \subseteq recorded
  /\ \A n \in Nodes : sched[n].pc = "reassign" =>
       \A t \in Tasks : task[t].worker \in sched[n].ids \union {NoNode}
  /\ \A n \in Nodes : sched[n].pc # "giveBack" /\ listen[n].pc = "idle"

\* Whoever is about to write a record owns it: the scheduler those without a
\* worker, the dispatcher and the executors of a node those that name it.
CopiesAreFree ==
  /\ \A n \in Nodes : sched[n].pc \in {"idle", "reassign"} => DOMAIN sched[n].copies = {}
  /\ \A n \in Nodes : \A t \in DOMAIN sched[n].copies :
       task[t].worker = NoNode /\ sched[n].copies[t].worker = NoNode

HandsAreOwners ==
  \A n \in Nodes : hand[n] # NoTask =>
    /\ task[hand[n]].worker = n
    /\ task[hand[n]].status \in {"queued", "partially_finished", "deleted"}

ExecutionsAreOwners ==
  \A x \in execs :
    /\ task[x.task].worker = x.node
    /\ task[x.task].status \in {"waiting", "running", "canceled", "complete", "error", "deleted"}

Owners == WorkersAreKnown /\ CopiesAreFree /\ HandsAreOwners /\ ExecutionsAreOwners

CInv ==
  /\ IInv
  /\ TasksTypes
  /\ OnlyRunningWork
  /\ Calm => MembershipIsCalm /\ Owners /\ SingleExecution

\* No instance was lost and no task removed.
Quiet == Calm /\ limits.removals = 0

\* The unfinished tasks of a node in one of its pools.
Load(m, p) == {t \in unfinished(m) : TypeOf[t] = p}

\* Then no record that somebody holds is deleted, no execution undoes that a
\* task is done, the copies of the scheduler are current, and what it takes for
\* free is free.
NothingIsRemoved ==
  /\ \A n \in Nodes : hand[n] # NoTask => exists(hand[n])
  /\ \A x \in execs :
       /\ exists(x.task)
       /\ x.pc \in {"waiting", "busy"} /\ task[x.task].done => x.done
       /\ x.pc = "busy" /\ TypeOf[x.task] \in Pools => ~x.done
  /\ \A n \in Nodes : \A t \in DOMAIN sched[n].copies : exists(t) /\ sched[n].copies[t] = task[t]

FreeIsFree ==
  \A n \in Nodes : sched[n].pc \in Distributing =>
    \A m \in DOMAIN sched[n].free, p \in Pools :
      sched[n].free[m][p] >= 0 /\ sched[n].free[m][p] <= Threads(p) - Cardinality(Load(m, p))

QInv == CInv /\ NoOverload /\ (Quiet => NothingIsRemoved /\ FreeIsFree)

-----------------------------------------------------------------------------
(* The composition and the membership                                      *)

\* No step of the composition does to the nodes what the membership does not.
LEMMA NextIsMembership == [TasksNext]_allVars => [Next]_vars
<1> SUFFICES ASSUME [TasksNext]_allVars
             PROVE  [Next]_vars
  OBVIOUS
<1>1. CASE UNCHANGED allVars
  BY <1>1 DEF allVars
<1>2. CASE Requests
  BY <1>2 DEF Requests, createTask, removeTask
<1>3. ASSUME NEW x \in execs, Execute(x)
      PROVE  UNCHANGED vars
  BY <1>3 DEF Execute, begin, lookupFails, setProgress, restored, complete, setProgressDone,
     fail, noticeCancel, interrupt,
     ExecutorStep
<1>4. ASSUME NEW n \in Nodes, Distribute(n) \/ Reassign(n) \/ Dispatch(n) \/ readOrphans(n) \/ saveOrphan(n)
      PROVE  UNCHANGED vars
  BY <1>4 DEF Distribute, Reassign, Dispatch, readUnassigned, readNodes, countWorkers, assign,
     readNodeIds, readUnknown, giveBack, SchedulerStep, readOrphans, saveOrphan, ListenerStep,
     pollAssigned, skipRemoved, saveWaiting, beginInline, Executes, letGo
<1>5. ASSUME NEW n \in Nodes, handledByListeners(n) \/ terminateNode(n) \/ restartNode(n) \/ Membership(n)
      PROVE  Next
  BY <1>5 DEF handledByListeners, terminateNode, restartNode, Membership, Next, Environment,
     Handler
<1>6. QED
  BY <1>1, <1>2, <1>3, <1>4, <1>5 DEF TasksNext, Listen

\* The tasks do not disturb the membership: with its variables the composition
\* behaves as module ClusterMembership says.
THEOREM MembershipIsImplemented == TasksSpec => Spec
<1>1. TasksInit => Init
  BY DEF TasksInit
<1>2. QED
  BY <1>1, NextIsMembership, PTL DEF TasksSpec, Spec

-----------------------------------------------------------------------------
(* Type correctness                                                        *)

\* The copies of records are copies of records, and one may be left out.
LEMMA CopiesTypes ==
  ASSUME task \in [Tasks -> Records]
  PROVE  /\ \A S \in SUBSET Tasks : copies(S) \in Copies
         /\ NoCopies \in Copies
         /\ \A c \in Copies : \A t : rest(c, t) \in Copies
         /\ \A c \in Copies : DOMAIN c \subseteq Tasks /\ \A t \in DOMAIN c : c[t] \in Records
<1>1. \A S \in SUBSET Tasks : copies(S) \in [S -> Records]
  BY DEF copies
<1>2. \A c \in Copies : /\ DOMAIN c \subseteq Tasks
                        /\ \A t \in DOMAIN c : c[t] \in Records
  BY DEF Copies
<1>3. ASSUME NEW c \in Copies, NEW t
      PROVE  rest(c, t) \in [DOMAIN c \ {t} -> Records]
  BY <1>2, <1>3 DEF rest
<1>4. \A S \in SUBSET Tasks : copies(S) \in Copies
  BY <1>1 DEF Copies
<1>5. NoCopies \in Copies
  BY <1>4 DEF NoCopies
<1>6. ASSUME NEW c \in Copies, NEW t
      PROVE  rest(c, t) \in Copies
  <2>1. DOMAIN c \ {t} \in SUBSET Tasks
    BY <1>2
  <2>2. \A S \in SUBSET Tasks : [S -> Records] \subseteq Copies
    BY DEF Copies
  <2>3. QED
    BY <1>3, <2>1, <2>2
<1>7. QED
  BY <1>2, <1>4, <1>5, <1>6

\* So are those that the schedulers hold.
LEMMA HeldCopies ==
  ASSUME TasksTypes
  PROVE  \A n \in Nodes : /\ sched[n] \in Schedulers /\ sched[n].copies \in Copies
                          /\ DOMAIN sched[n].copies \subseteq Tasks
                          /\ \A t \in DOMAIN sched[n].copies : sched[n].copies[t] \in Records
<1>1. \A n \in Nodes : sched[n] \in Schedulers /\ sched[n].copies \in Copies
  BY DEF TasksTypes, Schedulers
<1>2. QED
  BY <1>1, CopiesTypes DEF TasksTypes

\* No scheduler and no listener has work at the start, or after an end.
LEMMA IdleTypes ==
  ASSUME task \in [Tasks -> Records]
  PROVE  Idle \in Schedulers /\ NotListening \in Listeners
<1>1. [m \in {} |-> 0] \in Frees
  BY DEF Frees
<1>2. QED
  BY <1>1, CopiesTypes DEF Idle, NotListening, Schedulers, Listeners

\* The initial state is of its type.
LEMMA InitTasksTypes == TasksInit => TasksTypes /\ OnlyRunningWork
<1> SUFFICES ASSUME TasksInit
             PROVE  TasksTypes /\ OnlyRunningWork
  OBVIOUS
<1>1. task \in [Tasks -> Records]
  BY DEF TasksInit, Row, Records, Statuses
<1>2. hand \in [Nodes -> (Tasks \ Regular) \union {NoTask}] /\ execs = {}
  BY DEF TasksInit
<1>3. limits \in [runs : 0 .. MaxRuns, removals : Nat, failures : Nat]
  BY BoundAssumption DEF BoundAssumption, TasksInit
<1>4. sched \in [Nodes -> Schedulers] /\ listen \in [Nodes -> Listeners]
  BY <1>1, IdleTypes DEF TasksInit
<1>5. QED
  BY <1>1, <1>2, <1>3, <1>4 DEF TasksTypes, OnlyRunningWork, TasksInit, Idle

\* Requests keep the types.
LEMMA RequestTypes ==
  ASSUME TasksTypes, OnlyRunningWork, Requests
  PROVE  TasksTypes' /\ OnlyRunningWork'
<1> USE DEF TasksTypes, OnlyRunningWork
<1>1. ASSUME NEW t \in Tasks, createTask(t)
      PROVE  TasksTypes' /\ OnlyRunningWork'
  BY <1>1 DEF createTask, Save, Row, Records, Statuses, vars
<1>2. ASSUME NEW t \in Tasks, removeTask(t)
      PROVE  TasksTypes' /\ OnlyRunningWork'
  BY <1>2 DEF removeTask, Records, Statuses, vars
<1>3. QED
  BY <1>1, <1>2 DEF Requests

\* The free workers of the nodes are numbers.
LEMMA FreeTypes ==
  ASSUME TasksTypes
  PROVE  /\ \A m \in Nodes : freeWorkers(m) \in [Pools -> Int]
         /\ \A m \in Nodes, p \in Pools : /\ Cardinality(Load(m, p)) \in Nat
                                           /\ freeWorkers(m)[p] = Threads(p) - Cardinality(Load(m, p))
         /\ \A f \in Frees, m \in Nodes : withNode(f, m) \in Frees
<1>1. ASSUME NEW m \in Nodes, NEW p \in Pools
      PROVE  Cardinality(Load(m, p)) \in Nat
  <2>1. IsFiniteSet(Load(m, p))
    BY FiniteAssumption, FS_Subset DEF FiniteAssumption, Load, unfinished
  <2>2. QED
    BY <2>1, FS_CardinalityType
<1>2. \A p \in Pools : Threads(p) \in Nat
  BY PoolsAssumption DEF PoolsAssumption, Threads
<1>3. \A m : freeWorkers(m) = [p \in Pools |-> Threads(p) - Cardinality(Load(m, p))]
  BY DEF freeWorkers, Load
<1>4. \A m \in Nodes, p \in Pools : Threads(p) - Cardinality(Load(m, p)) \in Int
  BY <1>1, <1>2
<1>5. \A m \in Nodes : freeWorkers(m) \in [Pools -> Int]
  BY <1>3, <1>4
<1>6. ASSUME NEW f \in Frees, NEW m \in Nodes
      PROVE  withNode(f, m) \in Frees
  <2>1. PICK S \in SUBSET Nodes : f \in [S -> [Pools -> Int]]
    BY DEF Frees
  <2>2. withNode(f, m) \in [S \union {m} -> [Pools -> Int]]
    BY <1>5, <2>1 DEF withNode
  <2>3. QED
    BY <2>2 DEF Frees
<1>7. QED
  BY <1>1, <1>3, <1>5, <1>6

\* What counting the workers of one node does.
LEMMA CountStep ==
  ASSUME TasksTypes, NEW n \in Nodes, countWorkers(n)
  PROVE  \E m \in Nodes, s \in Schedulers :
           /\ m \in sched[n].ids /\ SchedulerStep(n, s) /\ UNCHANGED task
           /\ sched[n].pc = "counting" /\ s.pc \in {"counting", "assigning"}
           /\ s.copies = sched[n].copies
           /\ s.free = withNode(sched[n].free, m)
           /\ s.ids = sched[n].ids \ {m}
<1>1. sched[n] \in Schedulers /\ sched[n].free \in Frees /\ sched[n].ids \subseteq Nodes
  BY DEF TasksTypes, Schedulers
<1>2. PICK m \in sched[n].ids :
        SchedulerStep(n, [sched[n] EXCEPT !.free = withNode(@, m), !.ids = @ \ {m},
                                         !.pc = IF sched[n].ids = {m} THEN "assigning" ELSE @])
  BY DEF countWorkers
<1> DEFINE s == [sched[n] EXCEPT !.free = withNode(@, m), !.ids = @ \ {m},
                                !.pc = IF sched[n].ids = {m} THEN "assigning" ELSE @]
<1>3. m \in Nodes /\ withNode(sched[n].free, m) \in Frees /\ sched[n].pc = "counting" /\ UNCHANGED task
  BY <1>1, FreeTypes DEF countWorkers
<1>4. /\ s \in Schedulers /\ s.pc \in {"counting", "assigning"} /\ s.copies = sched[n].copies
      /\ s.free = withNode(sched[n].free, m) /\ s.ids = sched[n].ids \ {m}
  BY <1>1, <1>3 DEF Schedulers
<1>5. SchedulerStep(n, s)
  BY <1>2
<1> HIDE DEF s
<1>6. QED
  BY <1>2, <1>3, <1>4, <1>5

\* The thread of the scheduler keeps the types.
LEMMA SchedulerTypes ==
  ASSUME TypeOK, TasksTypes, OnlyRunningWork, NEW n \in Nodes, Distribute(n) \/ Reassign(n)
  PROVE  TasksTypes' /\ OnlyRunningWork'
<1> USE DEF TasksTypes, OnlyRunningWork
<1>1. sched[n] \in Schedulers /\ Idle \in Schedulers /\ task \in [Tasks -> Records]
  BY IdleTypes
<1>2. sched[n].copies \in Copies /\ sched[n].free \in Frees
  BY <1>1 DEF Schedulers
<1>3. ASSUME NEW s \in Schedulers, SchedulerStep(n, s), s.pc # "idle" => n \in jobs,
             task' \in [Tasks -> Records]
      PROVE  TasksTypes' /\ OnlyRunningWork'
  BY <1>3 DEF SchedulerStep, vars
<1>4. ASSUME NEW t \in Tasks, NEW r \in Records, Save(t, r)
      PROVE  task' \in [Tasks -> Records]
  BY <1>4 DEF Save
<1>5. CASE readUnassigned(n)
  <2>1. copies(unassigned) \in Copies
    BY CopiesTypes DEF unassigned
  <2>2. [Idle EXCEPT !.pc = "nodes", !.copies = copies(unassigned)] \in Schedulers
    BY <1>1, <2>1 DEF Schedulers
  <2>3. QED
    BY <1>3, <1>5, <2>2 DEF readUnassigned, schedulerIsFree
<1>6. CASE countWorkers(n)
  <2>1. n \in jobs
    BY <1>6, CountStep
  <2>2. QED
    BY <1>3, <1>6, <2>1, CountStep
<1>7. CASE assign(n)
  <2> DEFINE free == sched[n].free
  <2>1. n \in jobs
    BY <1>7 DEF assign
  <2>2. PICK t \in DOMAIN sched[n].copies, m \in DOMAIN free :
          LET p    == PoolOf(t)
              left == rest(sched[n].copies, t)
              used == IF TypeOf[t] = p THEN [free EXCEPT ![m][p] = @ - 1] ELSE free
              next == IF left = NoCopies THEN Idle
                      ELSE [sched[n] EXCEPT !.copies = left, !.free = used]
          IN \/ /\ Save(t, sched[n].copies[t])
                /\ SchedulerStep(n, IF left = NoCopies THEN Idle ELSE [sched[n] EXCEPT !.copies = left])
             \/ /\ Save(t, [sched[n].copies[t] EXCEPT !.worker = m])
                /\ SchedulerStep(n, next)
    BY <1>7 DEF assign
  <2>3. t \in Tasks /\ sched[n].copies[t] \in Records /\ m \in Nodes
    BY <1>2, CopiesTypes DEF Frees
  <2>4. [sched[n].copies[t] EXCEPT !.worker = m] \in Records
    BY <2>3 DEF Records
  <2>5. rest(sched[n].copies, t) \in Copies
    BY <1>2, CopiesTypes
  <2>6. [free EXCEPT ![m][PoolOf(t)] = @ - 1] \in Frees
    <3>1. PoolOf(t) \in Pools
      BY DEF PoolOf, Pools
    <3>2. PICK S \in SUBSET Nodes : free \in [S -> [Pools -> Int]]
      BY <1>2 DEF Frees
    <3>3. [free EXCEPT ![m][PoolOf(t)] = @ - 1] \in [S -> [Pools -> Int]]
      BY <3>1, <3>2
    <3>4. QED
      BY <3>3 DEF Frees
  <2>7. /\ [sched[n] EXCEPT !.copies = rest(sched[n].copies, t)] \in Schedulers
        /\ \A f \in Frees : [sched[n] EXCEPT !.copies = rest(sched[n].copies, t), !.free = f] \in Schedulers
    BY <1>1, <2>5 DEF Schedulers
  <2>8. task' \in [Tasks -> Records]
    BY <1>4, <2>2, <2>3, <2>4
  <2>9. QED
    BY <1>1, <1>2, <1>3, <2>1, <2>2, <2>6, <2>7, <2>8
<1>8. CASE readNodeIds(n)
  <2>1. [Idle EXCEPT !.pc = "reassign", !.ids = recorded] \in Schedulers
    BY <1>1 DEF Schedulers, recorded
  <2>2. QED
    BY <1>3, <1>8, <2>1 DEF readNodeIds, schedulerIsFree
<1>9. CASE readUnknown(n)
  <2> DEFINE found == {t \in Tasks \ Regular :
                         /\ exists(t) /\ task[t].status # "complete"
                         /\ task[t].worker \notin sched[n].ids \union {NoNode}}
  <2>1. copies(found) \in Copies
    BY CopiesTypes
  <2>2. [Idle EXCEPT !.pc = "giveBack", !.copies = copies(found)] \in Schedulers
    BY <1>1, <2>1 DEF Schedulers
  <2>3. QED
    BY <1>1, <1>3, <1>9, <2>2 DEF readUnknown
<1>10. CASE giveBack(n)
  <2>1. PICK t \in DOMAIN sched[n].copies :
          LET left == rest(sched[n].copies, t)
          IN /\ Save(t, givenBack(sched[n].copies[t]))
             /\ SchedulerStep(n, IF left = NoCopies THEN Idle ELSE [sched[n] EXCEPT !.copies = left])
    BY <1>10 DEF giveBack
  <2>2. t \in Tasks /\ sched[n].copies[t] \in Records
    BY <1>2, CopiesTypes
  <2>3. givenBack(sched[n].copies[t]) \in Records
    BY <2>2 DEF givenBack, Records, Statuses
  <2>4. rest(sched[n].copies, t) \in Copies
    BY <1>2, CopiesTypes
  <2>5. [sched[n] EXCEPT !.copies = rest(sched[n].copies, t)] \in Schedulers
    BY <1>1, <2>4 DEF Schedulers
  <2>6. QED
    BY <1>1, <1>3, <1>4, <1>10, <2>1, <2>2, <2>3, <2>5 DEF giveBack
<1>11. CASE readNodes(n)
  <2>1. [sched[n] EXCEPT !.pc = "counting", !.ids = recorded] \in Schedulers
    BY <1>1 DEF Schedulers, recorded
  <2>2. QED
    BY <1>3, <1>11, <2>1 DEF readNodes
<1>12. QED
  BY <1>5, <1>6, <1>7, <1>8, <1>9, <1>10, <1>11 DEF Distribute, Reassign

\* The listener of an event keeps the types.
LEMMA ListenerTypes ==
  ASSUME TypeOK, TasksTypes, OnlyRunningWork, NEW n \in Nodes, Listen(n)
  PROVE  TasksTypes' /\ OnlyRunningWork'
<1> USE DEF TasksTypes, OnlyRunningWork
<1>1. ASSUME NEW l \in Listeners, ListenerStep(n, l), task' \in [Tasks -> Records]
      PROVE  TasksTypes' /\ OnlyRunningWork'
  BY <1>1 DEF ListenerStep, vars
<1>2. CASE readOrphans(n)
  <2>1. copies(unfinished(handler[n].node)) \in Copies
    BY CopiesTypes DEF unfinished
  <2>2. [pc |-> "saving", copies |-> copies(unfinished(handler[n].node))] \in Listeners
    BY <2>1 DEF Listeners
  <2>3. QED
    BY <1>1, <1>2, <2>2 DEF readOrphans
<1>3. CASE saveOrphan(n)
  <2>1. PICK t \in DOMAIN listen[n].copies :
          /\ Save(t, givenBack(listen[n].copies[t]))
          /\ ListenerStep(n, [listen[n] EXCEPT !.copies = rest(@, t)])
    BY <1>3 DEF saveOrphan
  <2>2. listen[n] \in Listeners /\ listen[n].copies \in Copies
    BY DEF Listeners
  <2>3. t \in Tasks /\ listen[n].copies[t] \in Records
    BY <2>2, CopiesTypes
  <2>4. givenBack(listen[n].copies[t]) \in Records
    BY <2>3 DEF givenBack, Records, Statuses
  <2>5. rest(listen[n].copies, t) \in Copies
    BY <2>2, CopiesTypes
  <2>6. [listen[n] EXCEPT !.copies = rest(@, t)] \in Listeners
    BY <2>2, <2>5 DEF Listeners
  <2>7. task' \in [Tasks -> Records]
    BY <2>1, <2>3, <2>4 DEF Save
  <2>8. QED
    BY <1>1, <2>1, <2>6, <2>7
<1>4. CASE handledByListeners(n)
  BY <1>4, IdleTypes DEF handledByListeners, handled
<1>5. QED
  BY <1>2, <1>3, <1>4 DEF Listen

\* Dispatchers keep the types: only nodes that run take tasks and start them.
LEMMA DispatchTypes ==
  ASSUME TasksTypes, OnlyRunningWork, NEW n \in Nodes, Dispatch(n)
  PROVE  TasksTypes' /\ OnlyRunningWork'
<1> USE DEF TasksTypes, OnlyRunningWork
<1>1. CASE pollAssigned(n)
  BY <1>1 DEF pollAssigned, getAssignedTasks, vars
<1>2. ASSUME NEW status \in {"waiting", "running"}, NEW pc \in {"waiting", "busy"},
             Executes(n, status, pc)
      PROVE  TasksTypes' /\ OnlyRunningWork'
  <2> DEFINE t == hand[n]
             x == [turn |-> limits.runs, node |-> n, task |-> t, done |-> task[t].done, pc |-> pc]
  <2>1. t \in Tasks \ Regular /\ n \in up /\ task[t].done \in BOOLEAN
    BY <1>2 DEF Executes, Records
  <2>2. limits.runs \in Nat /\ limits.runs < limits'.runs /\ limits' \in [runs : 0 .. MaxRuns, removals : Nat, failures : Nat]
    BY <1>2, BoundAssumption DEF Executes, BoundAssumption
  <2>3. x \in Executions
    BY <2>1, <2>2 DEF Executions
  <2>4. task' \in [Tasks -> Records]
    BY <1>2, <2>1 DEF Executes, Save, Row, Records, Statuses
  <2>5. execs' = execs \union {x} /\ x.node = n /\ x.turn = limits.runs
    BY <1>2 DEF Executes
  <2>6. \A y \in execs' : y.node \in up /\ y.turn < limits'.runs
    <3>1. \A y \in execs : y.turn \in Nat
      BY DEF Executions
    <3>2. QED
      BY <2>1, <2>2, <2>5, <3>1
  <2>7. hand' \in [Nodes -> (Tasks \ Regular) \union {NoTask}] /\ \A m \in Nodes : hand'[m] # NoTask => m \in up
    BY <1>2 DEF Executes, letGo
  <2> HIDE DEF x
  <2>8. QED
    BY <1>2, <2>2, <2>3, <2>4, <2>5, <2>6, <2>7 DEF Executes, vars
<1>3. CASE skipRemoved(n)
  BY <1>3 DEF skipRemoved, letGo, vars
<1>4. QED
  BY <1>1, <1>2, <1>3 DEF Dispatch, saveWaiting, beginInline

\* The steps of an execution keep the types.
LEMMA ExecuteTypes ==
  ASSUME TasksTypes, OnlyRunningWork, NEW x \in execs, Execute(x)
  PROVE  TasksTypes' /\ OnlyRunningWork'
<1> USE DEF TasksTypes, OnlyRunningWork
<1>1. x \in Executions /\ x.task \in Tasks /\ x.node \in Nodes /\ x.done \in BOOLEAN
  BY DEF Executions
<1>2. /\ \A s \in Statuses, d \in BOOLEAN : Row(s, x.node, d) \in Records
      /\ Row("deleted", NoNode, FALSE) \in Records
  BY <1>1 DEF Row, Records, Statuses
<1>3. task' \in [Tasks -> Records]
  <2>1. UNCHANGED task \/ \E r \in Records : Save(x.task, r)
    BY <1>1, <1>2 DEF Execute, begin, lookupFails, setProgress, restored, complete,
       setProgressDone, fail, noticeCancel, interrupt, ExecutorStep, Statuses
  <2>2. QED
    BY <1>1, <2>1 DEF Save
<1>4. execs' = execs \/ ends(x) \/ \E pc \in {"busy", "ending", "failed", "over"} : becomes(x, pc)
  BY DEF firstStage, Execute, begin, lookupFails, setProgress, restored, complete,
     setProgressDone, fail, noticeCancel, interrupt
<1>5. execs' \subseteq Executions /\ \A y \in execs' : \E z \in execs : y.node = z.node /\ y.turn = z.turn
  BY <1>1, <1>4 DEF ends, becomes, Executions
<1>6. limits' \in [runs : 0 .. MaxRuns, removals : Nat, failures : Nat] /\ limits'.runs = limits.runs
  <2>1. limits' = limits \/ limits' = [limits EXCEPT !.failures = @ + 1]
    BY DEF Execute, begin, lookupFails, setProgress, restored, complete, setProgressDone, fail,
       noticeCancel, interrupt
  <2>2. QED
    BY <2>1
<1>7. UNCHANGED <<up, jobs, hand, sched, listen>>
  BY DEF Execute, begin, lookupFails, setProgress, restored, complete, setProgressDone, fail,
     noticeCancel, interrupt, ExecutorStep, vars
<1>8. QED
  BY <1>3, <1>5, <1>6, <1>7

\* Nodes come and go with what they work on.
LEMMA NodeTypes ==
  ASSUME TypeOK, TasksTypes, OnlyRunningWork, NEW n \in Nodes,
         terminateNode(n) \/ restartNode(n) \/ Membership(n)
  PROVE  TasksTypes' /\ OnlyRunningWork'
<1> USE DEF TasksTypes, OnlyRunningWork
<1>1. ASSUME forgetTasks(n), up' \in {up, up \ {n}}, jobs \ {n} \subseteq jobs', limits' = limits,
             task' \in [Tasks -> Records]
      PROVE  TasksTypes' /\ OnlyRunningWork'
  BY <1>1, IdleTypes DEF forgetTasks, Idle, Executions
<1>2. CASE terminateNode(n)
  BY <1>1, <1>2 DEF terminateNode, terminate
<1>3. CASE restartNode(n)
  BY <1>1, <1>3 DEF restartNode, restart, Records, Statuses
<1>4. CASE Membership(n)
  <2>1. up \subseteq up' /\ jobs \subseteq jobs'
    BY <1>4 DEF Membership, joinCluster, Publisher, receive, saveTerminated, deleteNode, poll,
       handleOther, handleTerminated, elect, HandlerStep, saveMaster, masterNodeChanged,
       Dispatcher, readNode, saveNode, masterStatusCheck
  <2>2. UNCHANGED taskVars
    BY <1>4 DEF Membership
  <2>3. QED
    BY <2>1, <2>2 DEF taskVars
<1>5. QED
  BY <1>2, <1>3, <1>4

\* Every step keeps the types.
LEMMA NextTasksTypes ==
  TypeOK /\ TasksTypes /\ OnlyRunningWork /\ [TasksNext]_allVars => TasksTypes' /\ OnlyRunningWork'
<1> SUFFICES ASSUME TypeOK, TasksTypes, OnlyRunningWork, [TasksNext]_allVars
             PROVE  TasksTypes' /\ OnlyRunningWork'
  OBVIOUS
<1>1. CASE UNCHANGED allVars
  BY <1>1 DEF TasksTypes, OnlyRunningWork, allVars, taskVars, vars
<1>2. CASE TasksNext
  BY <1>2, RequestTypes, SchedulerTypes, ListenerTypes, DispatchTypes, ExecuteTypes,
     NodeTypes DEF TasksNext
<1>3. QED
  BY <1>1, <1>2

-----------------------------------------------------------------------------
(* The membership while no instance is lost                                *)

\* An instance that was lost stays lost.
LEMMA CalmBefore ==
  ASSUME TypeOK, [Next]_vars, Calm'
  PROVE  Calm /\ \A n \in Nodes : ~terminate(n)
<1> USE DEF TypeOK, Calm
<1>1. ASSUME NEW n \in Nodes, terminate(n)
      PROVE  FALSE
  BY <1>1 DEF terminate
<1>2. ASSUME NEW n \in Nodes, joinCluster(n) \/ restart(n)
      PROVE  faults'.terminations = faults.terminations
  BY <1>2 DEF joinCluster, restart
<1>3. UNCHANGED faults \/ \E n \in Nodes : Environment(n)
  BY DEF Next, Publisher, receive, saveTerminated, deleteNode, Handler, poll, handleOther,
     handleTerminated, elect, HandlerStep, saveMaster, masterNodeChanged, handled, Dispatcher,
     readNode, saveNode, masterStatusCheck, vars
<1>4. QED
  BY <1>1, <1>2, <1>3 DEF Environment

\* Then the queue stays empty, nobody is elected, and records stay.
LEMMA NextMembershipIsCalm ==
  ASSUME IInv, MembershipIsCalm, [Next]_vars, Calm'
  PROVE  MembershipIsCalm' /\ recorded \subseteq recorded'
<1> USE DEF MembershipIsCalm, recorded
<1>1. TypeOK /\ FirstNode \in Nodes
  BY MembersAssumption DEF IInv, MembersAssumption
<1>2. CASE UNCHANGED vars
  BY <1>2 DEF vars
<1>3. ASSUME NEW n \in Nodes, joinCluster(n)
      PROVE  MembershipIsCalm' /\ recorded \subseteq recorded'
  <2>1. n # FirstNode \/ row'[n] = "member"
    BY <1>1, <1>3 DEF joinCluster, TypeOK
  <2>2. \A m \in Nodes : row'[m] = IF m = n THEN "member" ELSE row[m]
    BY <1>1, <1>3 DEF joinCluster, TypeOK
  <2>3. \A e \in events' : e.kind # "terminated"
    BY <1>3 DEF joinCluster
  <2>4. QED
    BY <1>3, <2>2, <2>3 DEF joinCluster
<1>4. ASSUME NEW n \in Nodes, restart(n)
      PROVE  MembershipIsCalm' /\ recorded \subseteq recorded'
  <2>1. jobs' \subseteq {FirstNode}
    BY <1>4 DEF restart
  <2>2. /\ \A m \in Nodes : copy'[m] = IF m = n THEN "none" ELSE copy[m]
        /\ \A m \in Nodes : publisher'[m].pc = "idle" /\ handler'[m].pc = "idle"
        /\ \A m \in Nodes : todo'[m] \subseteq todo[m]
    BY <1>1, <1>4 DEF restart, forget, NotPublishing, NotHandling, TypeOK
  <2>3. QED
    BY <1>4, <2>1, <2>2 DEF restart
<1>5. ASSUME NEW n \in Nodes, Publisher(n)
      PROVE  FALSE
  BY <1>5 DEF Publisher, receive, saveTerminated, deleteNode
<1>6. ASSUME NEW n \in Nodes, Handler(n)
      PROVE  MembershipIsCalm' /\ recorded \subseteq recorded'
  <2>1. poll(n) \/ handleOther(n)
    BY <1>6 DEF Handler, handleTerminated, elect, HandlerStep, saveMaster, masterNodeChanged,
       handled
  <2>2. \A m \in Nodes : \A e \in todo'[m] : e.kind # "terminated"
    BY <1>1, <2>1, SMTT(30) DEF poll, handleOther, TypeOK
  <2>3. QED
    BY <2>1, <2>2 DEF poll, handleOther
<1>7. ASSUME NEW n \in Nodes, readNode(n)
      PROVE  MembershipIsCalm' /\ recorded \subseteq recorded'
  <2>1. \A m \in Nodes : copy'[m] = IF m = n THEN row[m] ELSE copy[m]
    BY <1>1, <1>7 DEF readNode, TypeOK
  <2>2. QED
    BY <1>7, <2>1 DEF readNode
<1>8. ASSUME NEW n \in Nodes, saveNode(n)
      PROVE  MembershipIsCalm' /\ recorded \subseteq recorded'
  <2>1. /\ \A m \in Nodes : row'[m] = IF m = n THEN copy[m] ELSE row[m]
        /\ \A m \in Nodes : copy'[m] = IF m = n THEN "none" ELSE copy[m]
    BY <1>1, <1>8 DEF saveNode, TypeOK
  <2>2. QED
    BY <1>8, <2>1 DEF saveNode
<1>9. ASSUME NEW n \in Nodes, masterStatusCheck(n)
      PROVE  MembershipIsCalm' /\ recorded \subseteq recorded'
  BY <1>9 DEF masterStatusCheck
<1>10. QED
  BY <1>1, <1>2, <1>3, <1>4, <1>5, <1>6, <1>7, <1>8, <1>9, CalmBefore
     DEF Next, Environment, Dispatcher

-----------------------------------------------------------------------------
(* The field worker as a lock                                              *)

Locks == Owners /\ SingleExecution

\* A request changes no worker but sets none, and never makes a task that is
\* being executed look assigned again.
LEMMA RequestLocks ==
  ASSUME TasksTypes, Calm, Locks, Requests
  PROVE  Locks'
<1> USE DEF TasksTypes, Locks, Calm
<1>1. \A x \in execs : x.task \in Tasks
  BY DEF Executions
<1>2. ASSUME NEW t \in Tasks, createTask(t)
      PROVE  Locks'
  <2>1. /\ task' = [task EXCEPT ![t] = Row("queued", NoNode, FALSE)] /\ task[t].status = "new"
        /\ UNCHANGED <<vars, hand, execs, sched, listen, limits>>
    BY <1>2 DEF createTask, Save
  <2>2. \A u \in Tasks : task'[u] = IF u = t THEN Row("queued", NoNode, FALSE) ELSE task[u]
    BY <2>1
  <2>3. task'[t].worker = NoNode
    BY <2>2 DEF Row
  <2>4. (\A n \in Nodes : hand[n] # t) /\ (\A x \in execs : x.task # t)
    BY <2>1, TasksAssumption DEF TasksAssumption, Owners, HandsAreOwners, ExecutionsAreOwners
  <2>5. WorkersAreKnown'
    BY <2>1, <2>2, <2>3 DEF Owners, WorkersAreKnown, vars, recorded
  <2>6. CopiesAreFree'
    <3>1. \A n \in Nodes : \A u \in DOMAIN sched[n].copies : u \in Tasks
      BY HeldCopies
    <3>2. \A n \in Nodes : \A u \in DOMAIN sched[n].copies : task'[u].worker = NoNode
      BY <2>2, <2>3, <3>1 DEF Owners, CopiesAreFree
    <3>3. QED
      BY <2>1, <3>2 DEF Owners, CopiesAreFree
  <2>7. HandsAreOwners' /\ ExecutionsAreOwners'
    <3>1. \A n \in Nodes : hand[n] # NoTask => task'[hand[n]] = task[hand[n]]
      BY <2>2, <2>4
    <3>2. \A x \in execs : task'[x.task] = task[x.task]
      BY <1>1, <2>2, <2>4
    <3>3. HandsAreOwners'
      BY <2>1, <3>1 DEF Owners, HandsAreOwners
    <3>4. ExecutionsAreOwners'
      BY <2>1, <3>2 DEF Owners, ExecutionsAreOwners
    <3>5. QED
      BY <3>3, <3>4
  <2>8. SingleExecution'
    BY <2>1 DEF SingleExecution, vars
  <2>9. QED
    BY <2>5, <2>6, <2>7, <2>8 DEF Owners
<1>3. ASSUME NEW t \in Tasks, removeTask(t)
      PROVE  Locks'
  <2>1. UNCHANGED <<vars, hand, execs, sched, listen>>
    BY <1>3 DEF removeTask
  <2>2. /\ \A u \in Tasks : task'[u].worker = task[u].worker
        /\ \A u \in Tasks : task'[u].status = task[u].status
                            \/ (task'[u].status = "canceled" /\ task[u].status = "running")
                            \/ (task'[u].status = "deleted" /\ task[u].status # "running")
    BY <1>3 DEF removeTask, Records
  <2>3. WorkersAreKnown'
    BY <2>1, <2>2 DEF Owners, WorkersAreKnown, vars, recorded
  <2>4. CopiesAreFree'
    <3>1. \A n \in Nodes : \A u \in DOMAIN sched[n].copies : u \in Tasks
      BY HeldCopies
    <3>2. QED
      BY <2>1, <2>2, <3>1 DEF Owners, CopiesAreFree
  <2>5. HandsAreOwners'
    BY <2>1, <2>2, TasksAssumption DEF TasksAssumption, Owners, HandsAreOwners
  <2>6. ExecutionsAreOwners'
    BY <1>1, <2>1, <2>2 DEF Owners, ExecutionsAreOwners
  <2>7. SingleExecution'
    BY <2>1 DEF SingleExecution, vars
  <2>8. QED
    BY <2>3, <2>4, <2>5, <2>6, <2>7 DEF Owners
<1>4. QED
  BY <1>2, <1>3 DEF Requests

\* The scheduler of a node works where the master's jobs run.
LEMMA SchedulerIsMaster ==
  ASSUME OnlyRunningWork, NEW n \in Nodes, Distribute(n) \/ Reassign(n)
  PROVE  n \in jobs /\ (assign(n) => sched[n].pc = "assigning")
<1>1. readUnassigned(n) \/ readNodeIds(n) => n \in jobs
  BY Zenon DEF readUnassigned, readNodeIds, schedulerIsFree
<1>2. countWorkers(n) => sched[n].pc = "counting"
  BY Zenon DEF countWorkers
<1>3. assign(n) => sched[n].pc = "assigning"
  BY Zenon DEF assign
<1>7. readNodes(n) => sched[n].pc = "nodes"
  BY Zenon DEF readNodes
<1>4. readUnknown(n) => sched[n].pc = "reassign"
  BY Zenon DEF readUnknown
<1>5. giveBack(n) => sched[n].pc = "giveBack"
  BY Zenon DEF giveBack
<1>6. n \in jobs
  BY <1>1, <1>2, <1>3, <1>4, <1>5, <1>7 DEF Distribute, Reassign, OnlyRunningWork
<1>8. QED
  BY <1>3, <1>6

\* The scheduler writes records that nobody works on: those without a worker.
LEMMA SchedulerLocks ==
  ASSUME TasksTypes, OnlyRunningWork, Calm, MembershipIsCalm, Locks,
         NEW n \in Nodes, Distribute(n) \/ Reassign(n)
  PROVE  Locks'
<1> USE DEF TasksTypes, Locks, Calm
<1>1. /\ sched[n] \in Schedulers /\ Idle \in Schedulers
      /\ DOMAIN Idle.copies = {} /\ DOMAIN Idle.free = {} /\ Idle.ids = {}
  BY IdleTypes DEF Idle, NoCopies, copies
<1>2. \A m \in Nodes \ {n} : sched[m].pc = "idle"
  <2>1. n \in jobs
    BY SchedulerIsMaster
  <2>2. QED
    BY <2>1 DEF MembershipIsCalm, OnlyRunningWork
<1>3. /\ \A m \in Nodes : \A u \in DOMAIN sched[m].copies : u \in Tasks
      /\ \A m \in Nodes \ {n} : DOMAIN sched[m].copies = {}
  BY <1>2, HeldCopies DEF Owners, CopiesAreFree
<1>4. ASSUME UNCHANGED task, NEW s \in Schedulers, SchedulerStep(n, s),
             s.pc # "giveBack", DOMAIN s.free \union s.ids \subseteq recorded,
             s.pc = "reassign" => \A t \in Tasks : task[t].worker \in s.ids \union {NoNode},
             s.pc \in {"idle", "reassign"} => DOMAIN s.copies = {},
             \A t \in DOMAIN s.copies : task[t].worker = NoNode /\ s.copies[t].worker = NoNode
      PROVE  Locks'
  <2>1. /\ \A m \in Nodes : sched'[m] = IF m = n THEN s ELSE sched[m]
        /\ UNCHANGED <<vars, hand, execs, listen>>
    BY <1>4 DEF SchedulerStep
  <2>2. WorkersAreKnown'
    BY <1>4, <2>1 DEF Owners, WorkersAreKnown, vars, recorded
  <2>3. CopiesAreFree'
    BY <1>4, <2>1 DEF Owners, CopiesAreFree
  <2>4. HandsAreOwners' /\ ExecutionsAreOwners' /\ SingleExecution'
    BY <1>4, <2>1 DEF Owners, HandsAreOwners, ExecutionsAreOwners, SingleExecution, vars
  <2>5. QED
    BY <2>2, <2>3, <2>4 DEF Owners
<1>5. CASE readUnassigned(n)
  <2> DEFINE s == [Idle EXCEPT !.pc = "nodes", !.copies = copies(unassigned)]
  <2>1. copies(unassigned) \in Copies
    BY CopiesTypes DEF unassigned
  <2>2. /\ s \in Schedulers /\ s.pc = "nodes" /\ s.copies = copies(unassigned)
        /\ s.free = Idle.free /\ s.ids = Idle.ids
    BY <1>1, <2>1 DEF Schedulers
  <2>3. \A t \in DOMAIN s.copies : task[t].worker = NoNode /\ s.copies[t].worker = NoNode
    BY <2>2 DEF copies, unassigned
  <2>4. SchedulerStep(n, s) /\ UNCHANGED task
    BY <1>5 DEF readUnassigned
  <2> HIDE DEF s
  <2>5. QED
    BY <1>1, <1>4, <2>2, <2>3, <2>4
<1>6. CASE countWorkers(n)
  <2>1. PICK m \in Nodes, s \in Schedulers :
          /\ m \in sched[n].ids /\ SchedulerStep(n, s) /\ UNCHANGED task
          /\ sched[n].pc = "counting" /\ s.pc \in {"counting", "assigning"}
          /\ s.copies = sched[n].copies
          /\ s.free = withNode(sched[n].free, m)
          /\ s.ids = sched[n].ids \ {m}
    BY <1>6, CountStep
  <2>2. DOMAIN s.free \union s.ids \subseteq recorded
    BY <2>1 DEF withNode, Owners, WorkersAreKnown
  <2>3. \A t \in DOMAIN s.copies : task[t].worker = NoNode /\ s.copies[t].worker = NoNode
    BY <2>1 DEF Owners, CopiesAreFree
  <2>4. QED
    BY <1>4, <2>1, <2>2, <2>3
<1>12. CASE readNodes(n)
  <2> DEFINE s == [sched[n] EXCEPT !.pc = "counting", !.ids = recorded]
  <2>1. /\ s \in Schedulers /\ s.pc = "counting" /\ s.copies = sched[n].copies
        /\ s.free = sched[n].free /\ s.ids = recorded
    BY <1>1 DEF Schedulers, recorded
  <2>2. DOMAIN s.free \union s.ids \subseteq recorded
    BY <2>1 DEF Owners, WorkersAreKnown
  <2>3. SchedulerStep(n, s) /\ UNCHANGED task
    BY <1>12 DEF readNodes
  <2>4. \A t \in DOMAIN s.copies : task[t].worker = NoNode /\ s.copies[t].worker = NoNode
    BY <2>1 DEF Owners, CopiesAreFree
  <2> HIDE DEF s
  <2>5. QED
    BY <1>4, <2>1, <2>2, <2>3, <2>4
<1>7. CASE readNodeIds(n)
  <2> DEFINE s == [Idle EXCEPT !.pc = "reassign", !.ids = recorded]
  <2>1. s \in Schedulers /\ s.pc = "reassign" /\ s.copies = Idle.copies /\ s.free = Idle.free /\ s.ids = recorded
    BY <1>1 DEF Schedulers, recorded
  <2>2. SchedulerStep(n, s) /\ UNCHANGED task
    BY <1>7 DEF readNodeIds
  <2>3. QED
    BY <1>1, <1>4, <2>1, <2>2 DEF Owners, WorkersAreKnown
<1>8. CASE readUnknown(n)
  <2>1. {t \in Tasks \ Regular : /\ exists(t) /\ task[t].status # "complete"
                                 /\ task[t].worker \notin sched[n].ids \union {NoNode}} = {}
    BY <1>8 DEF readUnknown, Owners, WorkersAreKnown
  <2>2. SchedulerStep(n, Idle) /\ UNCHANGED task
    BY <1>8, <2>1 DEF readUnknown
  <2>3. /\ Idle.pc = "idle" /\ DOMAIN Idle.free \union Idle.ids \subseteq recorded
        /\ \A t \in DOMAIN Idle.copies : task[t].worker = NoNode /\ Idle.copies[t].worker = NoNode
    BY <1>1 DEF Idle
  <2>4. Idle.pc # "giveBack" /\ Idle.pc # "reassign"
    BY <2>3
  <2>5. QED
    BY <1>1, <1>4, <2>2, <2>3, <2>4
<1>9. CASE assign(n)
  <2> DEFINE free == sched[n].free
  <2>1. sched[n].pc = "assigning"
    BY <1>9, SchedulerIsMaster, ZenonT(60)
  <2>2. PICK t \in DOMAIN sched[n].copies, m \in DOMAIN free :
          /\ Save(t, sched[n].copies[t]) \/ Save(t, [sched[n].copies[t] EXCEPT !.worker = m])
          /\ \/ SchedulerStep(n, Idle)
             \/ SchedulerStep(n, [sched[n] EXCEPT !.copies = rest(sched[n].copies, t)])
             \/ \E f \in {free, [free EXCEPT ![m][PoolOf(t)] = @ - 1]} :
                  SchedulerStep(n, [sched[n] EXCEPT !.copies = rest(sched[n].copies, t), !.free = f])
    BY <1>9 DEF assign
  <2>3. /\ t \in Tasks /\ sched[n].copies[t] \in Records
        /\ task[t].worker = NoNode /\ sched[n].copies[t].worker = NoNode
        /\ m \in recorded
    BY HeldCopies DEF Owners, CopiesAreFree, WorkersAreKnown
  <2>4. PICK s : /\ SchedulerStep(n, s)
                 /\ \/ s = Idle
                    \/ s = [sched[n] EXCEPT !.copies = rest(sched[n].copies, t)]
                    \/ \E f \in {free, [free EXCEPT ![m][PoolOf(t)] = @ - 1]} :
                         s = [sched[n] EXCEPT !.copies = rest(sched[n].copies, t), !.free = f]
    <3>1. CASE SchedulerStep(n, Idle)
      BY <3>1
    <3>2. CASE SchedulerStep(n, [sched[n] EXCEPT !.copies = rest(sched[n].copies, t)])
      BY <3>2
    <3>3. ASSUME NEW f \in {free, [free EXCEPT ![m][PoolOf(t)] = @ - 1]},
                 SchedulerStep(n, [sched[n] EXCEPT !.copies = rest(sched[n].copies, t), !.free = f])
          PROVE  \E s : /\ SchedulerStep(n, s)
                        /\ s = [sched[n] EXCEPT !.copies = rest(sched[n].copies, t), !.free = f]
      BY <3>3
    <3>4. QED
      BY <2>2, <3>1, <3>2, <3>3
  <2>5. \A f \in {free, [free EXCEPT ![m][PoolOf(t)] = @ - 1]} : DOMAIN f = DOMAIN free
    OBVIOUS
  <2>6. /\ s.pc \in {"idle", "assigning"}
        /\ DOMAIN s.free \union s.ids \subseteq recorded
        /\ s.pc = "idle" => DOMAIN s.copies = {}
        /\ \A u \in DOMAIN s.copies : u # t /\ u \in DOMAIN sched[n].copies /\ s.copies[u] = sched[n].copies[u]
    <3>1. CASE s = Idle
      BY <1>1, <3>1 DEF Idle
    <3>2. CASE s = [sched[n] EXCEPT !.copies = rest(sched[n].copies, t)]
      BY <1>1, <2>1, <3>2 DEF Schedulers, rest, Owners, WorkersAreKnown
    <3>3. ASSUME NEW f \in {free, [free EXCEPT ![m][PoolOf(t)] = @ - 1]},
                 s = [sched[n] EXCEPT !.copies = rest(sched[n].copies, t), !.free = f]
          PROVE  /\ s.pc = "assigning" /\ s.copies = rest(sched[n].copies, t)
                 /\ DOMAIN s.free \union s.ids \subseteq recorded
      BY <1>1, <2>1, <2>5, <3>3 DEF Schedulers, rest, Owners, WorkersAreKnown
    <3>4. QED
      BY <2>4, <3>1, <3>2, <3>3 DEF rest
  <2>7. /\ \A k \in Nodes : sched'[k] = IF k = n THEN s ELSE sched[k]
        /\ UNCHANGED <<vars, hand, execs, listen>>
    BY <2>4 DEF SchedulerStep
  <2>8. /\ \A u \in Tasks \ {t} : task'[u] = task[u]
        /\ task'[t].worker \in {NoNode, m}
    BY <2>2, <2>3 DEF Save, Records
  <2>9. (\A k \in Nodes : hand[k] # t) /\ (\A x \in execs : x.task # t)
    BY <2>3, NodesAssumption, TasksAssumption
       DEF NodesAssumption, TasksAssumption, Owners, HandsAreOwners,
       ExecutionsAreOwners, Executions
  <2>10. WorkersAreKnown'
    <3>1. recorded' = recorded
      BY <2>7 DEF vars, recorded
    <3>2. \A u \in Tasks : task'[u].worker \in recorded \union {NoNode}
      BY <2>3, <2>8 DEF Owners, WorkersAreKnown
    <3>3. \A k \in Nodes : /\ sched'[k].pc \notin {"giveBack", "reassign"}
                           /\ DOMAIN sched'[k].free \union sched'[k].ids \subseteq recorded
      BY <1>2, <2>6, <2>7 DEF Owners, WorkersAreKnown
    <3>4. \A k \in Nodes : listen'[k].pc = "idle"
      BY <2>7 DEF Owners, WorkersAreKnown
    <3>5. QED
      BY <3>1, <3>2, <3>3, <3>4 DEF WorkersAreKnown
  <2>11. CopiesAreFree'
    BY <1>3, <2>6, <2>7, <2>8 DEF Owners, CopiesAreFree
  <2>12. HandsAreOwners' /\ ExecutionsAreOwners' /\ SingleExecution'
    BY <2>7, <2>8, <2>9 DEF Owners, HandsAreOwners, ExecutionsAreOwners, SingleExecution,
       Executions, vars
  <2>13. QED
    BY <2>10, <2>11, <2>12 DEF Owners
<1>10. ~giveBack(n)
  BY DEF giveBack, Owners, WorkersAreKnown
<1>11. QED
  BY <1>5, <1>6, <1>7, <1>8, <1>9, <1>10, <1>12 DEF Distribute, Reassign

\* A dispatcher takes tasks that name its node, and that nobody executes.
LEMMA DispatchLocks ==
  ASSUME TasksTypes, Calm, Locks, NEW n \in Nodes, Dispatch(n)
  PROVE  Locks'
<1> USE DEF TasksTypes, Locks, Calm
<1>1. CASE pollAssigned(n)
  <2>1. PICK t \in getAssignedTasks(n) : hand' = [hand EXCEPT ![n] = t]
    BY <1>1 DEF pollAssigned
  <2>2. UNCHANGED <<vars, task, execs, sched, listen, limits>>
    BY <1>1 DEF pollAssigned
  <2>3. \A m \in Nodes : hand'[m] = IF m = n THEN t ELSE hand[m]
    BY <2>1
  <2>4. t \in Tasks /\ task[t].worker = n /\ task[t].status \in {"queued", "partially_finished"}
    BY DEF getAssignedTasks
  <2>5. \A x \in execs : x.task # t
    BY <2>4 DEF Owners, ExecutionsAreOwners
  <2>6. WorkersAreKnown' /\ CopiesAreFree' /\ ExecutionsAreOwners'
    BY <2>2 DEF Owners, WorkersAreKnown, CopiesAreFree, ExecutionsAreOwners, vars, recorded
  <2>7. HandsAreOwners'
    BY <2>2, <2>3, <2>4 DEF Owners, HandsAreOwners
  <2>8. SingleExecution'
    BY <2>2, <2>3, <2>5 DEF SingleExecution, vars
  <2>9. QED
    BY <2>6, <2>7, <2>8 DEF Owners
<1>2. CASE skipRemoved(n)
  <2>1. UNCHANGED <<vars, task, execs, sched, listen, limits>> /\ hand' = [hand EXCEPT ![n] = NoTask]
    BY <1>2 DEF skipRemoved, letGo
  <2>2. \A m \in Nodes : hand'[m] = IF m = n THEN NoTask ELSE hand[m]
    BY <2>1
  <2>3. WorkersAreKnown' /\ CopiesAreFree' /\ ExecutionsAreOwners'
    BY <2>1 DEF Owners, WorkersAreKnown, CopiesAreFree, ExecutionsAreOwners, vars, recorded
  <2>4. HandsAreOwners'
    BY <2>1, <2>2 DEF Owners, HandsAreOwners
  <2>5. \A x \in execs : x.task # NoTask
    BY TasksAssumption DEF TasksAssumption, Executions
  <2>6. SingleExecution'
    BY <2>1, <2>2, <2>5 DEF SingleExecution, vars
  <2>7. QED
    BY <2>3, <2>4, <2>6 DEF Owners
<1>3. ASSUME NEW status \in {"waiting", "running"}, NEW pc \in {"waiting", "busy"},
             Executes(n, status, pc)
      PROVE  Locks'
  <2> DEFINE t == hand[n]
             new == [turn |-> limits.runs, node |-> n, task |-> t, done |-> task[t].done, pc |-> pc]
  <2>1. /\ t # NoTask /\ t \in Tasks
        /\ execs' = execs \union {new}
        /\ Save(t, Row(status, n, task[t].done))
        /\ hand' = [hand EXCEPT ![n] = NoTask]
        /\ UNCHANGED <<vars, sched, listen>>
    BY <1>3 DEF Executes, letGo
  <2>2. \A m \in Nodes : hand'[m] = IF m = n THEN NoTask ELSE hand[m]
    BY <2>1
  <2>3. task[t].worker = n
    BY <2>1 DEF Owners, HandsAreOwners
  <2>4. /\ \A m \in Nodes \ {n} : hand[m] # t
        /\ \A x \in execs : x.task # t /\ x.task \in Tasks
    BY <2>1, <2>3 DEF Owners, HandsAreOwners, SingleExecution, Executions
  <2>5. /\ \A u \in Tasks \ {t} : task'[u] = task[u]
        /\ task'[t].worker = n /\ task'[t].status \in {"waiting", "running"}
    BY <2>1 DEF Save, Row
  <2>6. WorkersAreKnown'
    BY <2>1, <2>3, <2>5 DEF Owners, WorkersAreKnown, vars, recorded
  <2>7. CopiesAreFree'
    <3>1. \A m \in Nodes : \A u \in DOMAIN sched[m].copies : u \in Tasks /\ u # t
      BY <2>3, CopiesTypes, NodesAssumption DEF NodesAssumption, Schedulers, Owners, CopiesAreFree
    <3>2. QED
      BY <2>1, <2>5, <3>1 DEF Owners, CopiesAreFree
  <2>8. HandsAreOwners'
    BY <2>2, <2>4, <2>5 DEF Owners, HandsAreOwners
  <2>9. new.task = t /\ new.node = n
    OBVIOUS
  <2>10. ExecutionsAreOwners'
    BY <2>1, <2>4, <2>5, <2>9 DEF Owners, ExecutionsAreOwners
  <2>11. SingleExecution'
    <3>1. \A x, y \in execs' : x.task = y.task => x = y
      BY <2>1, <2>4, <2>9 DEF SingleExecution
    <3>2. \A m \in Nodes : hand'[m] # t
      BY <2>1, <2>2, <2>4
    <3>3. \A x \in execs, m \in Nodes : hand'[m] # x.task
      BY <2>2, <2>4, TasksAssumption DEF TasksAssumption, SingleExecution
    <3>4. QED
      BY <2>1, <2>9, <3>1, <3>2, <3>3 DEF SingleExecution
  <2>12. QED
    BY <2>6, <2>7, <2>8, <2>10, <2>11 DEF Owners
<1>4. QED
  BY <1>1, <1>2, <1>3 DEF Dispatch, saveWaiting, beginInline

\* An execution writes the record of its own task only, and names its node.
LEMMA ExecuteLocks ==
  ASSUME TasksTypes, Calm, Locks, NEW x \in execs, Execute(x)
  PROVE  Locks'
<1> USE DEF TasksTypes, Locks, Calm
<1>1. x \in Executions /\ x.task \in Tasks /\ x.node \in Nodes /\ task[x.task].worker = x.node
  BY DEF Executions, Owners, ExecutionsAreOwners
<1>2. UNCHANGED <<vars, hand, sched, listen>>
  BY DEF Execute, begin, lookupFails, setProgress, restored, complete, setProgressDone, fail,
     noticeCancel, interrupt, ExecutorStep
<1>3. \A u \in Tasks \ {x.task} : task'[u] = task[u]
  BY DEF Execute, begin, lookupFails, setProgress, restored, complete, setProgressDone, fail,
     noticeCancel, interrupt, ExecutorStep, Save
<1>4. task'[x.task].worker \in {x.node, NoNode}
  BY <1>1 DEF Execute, begin, lookupFails, setProgress, restored, complete, setProgressDone,
     fail, noticeCancel, interrupt,
     ExecutorStep, Save, Row
<1>5. PICK pc \in {"busy", "ending", "failed", "over"} :
        \/ ends(x)
        \/ /\ execs' = execs \/ becomes(x, pc)
           /\ task'[x.task].worker = x.node
           /\ task'[x.task].status \in {"running", "complete", "error"}
  <2>1. CASE begin(x)
    BY <1>1, <2>1 DEF begin, firstStage, ExecutorStep, Save, Row
  <2>2. CASE Execute(x) /\ ~begin(x)
    BY <1>1, <2>2 DEF Execute, lookupFails, setProgress, restored, complete, setProgressDone, fail,
       noticeCancel, interrupt, ExecutorStep, Save, Row
  <2>3. QED
    BY <2>1, <2>2
<1>6. /\ \A y \in execs' : y \in execs \/ (y.task = x.task /\ y.node = x.node /\ y = [x EXCEPT !.pc = pc])
      /\ x \in execs' => execs' = execs \/ x = [x EXCEPT !.pc = pc]
      /\ \A y \in execs' : y.task # x.task \/ ~ends(x)
  <2>1. \A y \in execs : y.task = x.task => y = x
    BY DEF SingleExecution
  <2>2. QED
    BY <1>1, <1>5, <2>1 DEF ends, becomes, Executions
<1>7. WorkersAreKnown'
  BY <1>1, <1>2, <1>3, <1>4 DEF Owners, WorkersAreKnown, vars, recorded
<1>8. CopiesAreFree'
  <2>1. \A m \in Nodes : \A u \in DOMAIN sched[m].copies : u \in Tasks /\ u # x.task
    BY <1>1, CopiesTypes, NodesAssumption DEF NodesAssumption, Schedulers, Owners, CopiesAreFree
  <2>2. QED
    BY <1>2, <1>3, <2>1 DEF Owners, CopiesAreFree
<1>9. HandsAreOwners'
  BY <1>2, <1>3 DEF Owners, HandsAreOwners, SingleExecution
<1>10. ExecutionsAreOwners'
  <2>1. ASSUME NEW y \in execs', y.task = x.task
        PROVE  /\ task'[y.task].worker = y.node
               /\ task'[y.task].status \in
                    {"waiting", "running", "canceled", "complete", "error", "deleted"}
    BY <1>1, <1>5, <1>6, <2>1 DEF SingleExecution
  <2>2. ASSUME NEW y \in execs', y.task # x.task
        PROVE  /\ task'[y.task].worker = y.node
               /\ task'[y.task].status \in
                    {"waiting", "running", "canceled", "complete", "error", "deleted"}
    <3>1. y \in execs /\ y.task \in Tasks
      BY <1>6, <2>2 DEF Executions
    <3>2. QED
      BY <1>3, <2>2, <3>1 DEF Owners, ExecutionsAreOwners
  <2>3. QED
    BY <2>1, <2>2 DEF ExecutionsAreOwners
<1>11. SingleExecution'
  <2>1. \A y, z \in execs' : y.task = z.task => y = z
    BY <1>5, <1>6 DEF SingleExecution, becomes, ends
  <2>2. \A y \in execs' : \E z \in execs : y.task = z.task
    BY <1>6
  <2>3. QED
    BY <1>2, <2>1, <2>2 DEF SingleExecution
<1>12. QED
  BY <1>7, <1>8, <1>9, <1>10, <1>11 DEF Owners

\* A restart drops what the node works on and releases its tasks, without
\* changing their worker; the membership gives no task to anybody.
LEMMA NodeLocks ==
  ASSUME TasksTypes, Calm, Locks, recorded \subseteq recorded', Calm', NEW n \in Nodes,
         restartNode(n) \/ Membership(n)
  PROVE  Locks'
<1> USE DEF TasksTypes, Locks, Calm
<1>1. CASE Membership(n)
  <2>1. UNCHANGED taskVars
    BY <1>1 DEF Membership
  <2>2. WorkersAreKnown'
    BY <2>1 DEF taskVars, Owners, WorkersAreKnown
  <2>3. QED
    BY <2>1, <2>2 DEF taskVars, Owners, CopiesAreFree, HandsAreOwners, ExecutionsAreOwners,
       SingleExecution
<1>2. CASE restartNode(n)
  <2>1. /\ \A m \in Nodes : hand'[m] = IF m = n THEN NoTask ELSE hand[m]
        /\ \A m \in Nodes : sched'[m] = IF m = n THEN Idle ELSE sched[m]
        /\ \A m \in Nodes : listen'[m] = IF m = n THEN NotListening ELSE listen[m]
        /\ execs' = {x \in execs : x.node # n}
    BY <1>2 DEF restartNode, forgetTasks
  <2>2. /\ \A t \in Tasks : task'[t].worker = task[t].worker
        /\ \A t \in Tasks : task[t].worker # n => task'[t] = task[t]
    BY <1>2 DEF restartNode, Records
  <2>3. /\ Idle.pc = "idle" /\ DOMAIN Idle.copies = {} /\ DOMAIN Idle.free = {} /\ Idle.ids = {}
        /\ NotListening.pc = "idle"
    BY DEF Idle, NotListening, NoCopies, copies
  <2>4. WorkersAreKnown'
    BY <2>1, <2>2, <2>3 DEF Owners, WorkersAreKnown
  <2>5. CopiesAreFree'
    <3>1. \A m \in Nodes : \A u \in DOMAIN sched[m].copies : u \in Tasks
      BY HeldCopies
    <3>2. QED
      BY <2>1, <2>2, <2>3, <3>1 DEF Owners, CopiesAreFree
  <2>6. HandsAreOwners'
    BY <2>1, <2>2 DEF Owners, HandsAreOwners
  <2>7. ExecutionsAreOwners'
    BY <2>1, <2>2 DEF Owners, ExecutionsAreOwners, Executions
  <2>8. \A x \in execs : x.task # NoTask
    BY TasksAssumption DEF TasksAssumption, Executions
  <2>9. SingleExecution'
    BY <2>1, <2>8 DEF SingleExecution
  <2>10. QED
    BY <2>4, <2>5, <2>6, <2>7, <2>9 DEF Owners
<1>3. QED
  BY <1>1, <1>2

\* The invariant holds at the start ...
LEMMA InitCInv == TasksInit => CInv
<1> SUFFICES ASSUME TasksInit
             PROVE  CInv
  OBVIOUS
<1>1. Init
  BY DEF TasksInit
<1>2. IInv /\ TasksTypes /\ OnlyRunningWork
  BY <1>1, InitIInv, InitTasksTypes
<1>3. MembershipIsCalm
  BY <1>1, MembersAssumption DEF MembersAssumption, Init, MembershipIsCalm, NotPublishing,
     NotHandling
<1>4. Owners /\ SingleExecution
  BY DEF TasksInit, Owners, WorkersAreKnown, CopiesAreFree, HandsAreOwners, ExecutionsAreOwners,
     SingleExecution, Row, Idle, NotListening, NoCopies, copies
<1>5. QED
  BY <1>2, <1>3, <1>4 DEF CInv

\* ... and every step keeps it.
LEMMA NextCInv == CInv /\ [TasksNext]_allVars => CInv'
<1> SUFFICES ASSUME CInv, [TasksNext]_allVars
             PROVE  CInv'
  OBVIOUS
<1> USE DEF CInv
<1>1. [Next]_vars /\ TypeOK
  BY NextIsMembership DEF IInv
<1>2. IInv'
  BY <1>1, NextTypeOK, NextTables, NextFirstLeads, NextElectedAfterFirst, NextLeadersAreLow
     DEF IInv, Tables
<1>3. TasksTypes' /\ OnlyRunningWork'
  BY <1>1, NextTasksTypes
<1>4. ASSUME Calm'
      PROVE  MembershipIsCalm' /\ Locks'
  <2>1. Calm /\ \A n \in Nodes : ~terminate(n)
    BY <1>1, <1>4, CalmBefore
  <2>2. MembershipIsCalm /\ Locks
    BY <2>1 DEF Locks
  <2>3. MembershipIsCalm' /\ recorded \subseteq recorded'
    BY <1>1, <1>4, <2>2, NextMembershipIsCalm
  <2>4. CASE UNCHANGED allVars
    <3>1. UNCHANGED <<task, hand, execs, sched, listen>> /\ recorded' = recorded
      BY <2>4 DEF allVars, taskVars, vars, recorded
    <3>2. WorkersAreKnown' /\ CopiesAreFree'
      BY <2>2, <3>1 DEF Locks, Owners, WorkersAreKnown, CopiesAreFree
    <3>3. HandsAreOwners' /\ ExecutionsAreOwners'
      BY <2>2, <3>1 DEF Locks, Owners, HandsAreOwners, ExecutionsAreOwners
    <3>4. SingleExecution'
      BY <2>1, <2>2, <3>1 DEF Calm, Locks, SingleExecution
    <3>5. QED
      BY <2>3, <3>2, <3>3, <3>4 DEF Locks, Owners
  <2>5. \A n \in Nodes : ~Listen(n) /\ ~terminateNode(n)
    BY <2>1, <2>2 DEF Listen, readOrphans, saveOrphan, handledByListeners, handled, terminateNode,
       MembershipIsCalm, Locks, Owners, WorkersAreKnown
  <2>6. CASE TasksNext
    BY <1>4, <2>1, <2>2, <2>3, <2>5, <2>6, RequestLocks, SchedulerLocks, DispatchLocks,
       ExecuteLocks, NodeLocks
       DEF TasksNext
  <2>7. QED
    BY <2>3, <2>4, <2>6
<1>5. QED
  BY <1>2, <1>3, <1>4 DEF Locks

\* The inductive invariant of the cluster and its tasks.
THEOREM TasksInvariance == TasksSpec => []CInv
BY InitCInv, NextCInv, PTL DEF TasksSpec

\* Every state is well typed; work is under way on nodes only that run, and
\* the master's jobs on nodes only that have them.
THEOREM TasksTypesHold == TasksSpec => []TasksTypeOK
<1>1. CInv => TasksTypeOK
  <2> SUFFICES ASSUME CInv
               PROVE  TasksTypeOK
    OBVIOUS
  <2>1. ASSUME NEW x \in execs
        PROVE  x.task \in Tasks \ Regular /\ x.node \in up /\ x.turn \in 0 .. MaxRuns - 1
    <3>1. x.task \in Tasks \ Regular /\ x.turn \in Nat /\ x.node \in up /\ x.turn < limits.runs
      BY DEF CInv, TasksTypes, OnlyRunningWork, Executions
    <3>2. limits.runs \in 0 .. MaxRuns
      BY DEF CInv, TasksTypes
    <3>3. QED
      BY <3>1, <3>2, BoundAssumption DEF BoundAssumption
  <2>2. QED
    BY <2>1 DEF CInv, IInv, TasksTypes, OnlyRunningWork, TasksTypeOK
<1>2. QED
  BY <1>1, TasksInvariance, PTL

\* While no instance is lost, no two nodes execute one task, nor one twice.
THEOREM ExecutionsAreSingle == TasksSpec => []SingleExecution
<1>1. CInv => SingleExecution
  BY DEF CInv, Calm, SingleExecution
<1>2. QED
  BY <1>1, TasksInvariance, PTL

\* The election of the master is as good with tasks as without.
THEOREM MastersAreUniqueWithTasks == TasksSpec => []OneMaster
BY MembershipIsImplemented, MastersAreUnique, PTL

-----------------------------------------------------------------------------
(* The load of the nodes                                                   *)

\* Sets of tasks are finite: what is left of one is not larger, and one more
\* task counts one at most.
LEMMA TaskSets ==
  \A S \in SUBSET Tasks :
    /\ Cardinality(S) \in Nat
    /\ \A T \in SUBSET S : Cardinality(T) <= Cardinality(S)
    /\ \A t \in Tasks : Cardinality(S \union {t}) <= Cardinality(S) + 1
<1> SUFFICES ASSUME NEW S \in SUBSET Tasks
             PROVE  /\ Cardinality(S) \in Nat
                    /\ \A T \in SUBSET S : Cardinality(T) <= Cardinality(S)
                    /\ \A t \in Tasks : Cardinality(S \union {t}) <= Cardinality(S) + 1
  OBVIOUS
<1>1. IsFiniteSet(S)
  BY FiniteAssumption, FS_Subset DEF FiniteAssumption
<1>2. Cardinality(S) \in Nat
  BY <1>1, FS_CardinalityType
<1>3. \A T \in SUBSET S : Cardinality(T) <= Cardinality(S)
  BY <1>1, FS_Subset
<1>4. ASSUME NEW t \in Tasks
      PROVE  Cardinality(S \union {t}) <= Cardinality(S) + 1
  <2>1. Cardinality(S \union {t}) = IF t \in S THEN Cardinality(S) ELSE Cardinality(S) + 1
    BY <1>1, FS_AddElement
  <2>2. QED
    BY <1>2, <2>1
<1>5. QED
  BY <1>2, <1>3, <1>4

\* Nobody but the scheduler gives unfinished work to a node.
NothingIsAdded ==
  \A t \in Tasks : exists(t)' /\ ~task'[t].done /\ task'[t].worker # NoNode =>
    exists(t) /\ ~task[t].done /\ task'[t].worker = task[t].worker

\* What holds while no instance is lost and nothing removed, before a step.
QuietNow == /\ TasksTypes /\ OnlyRunningWork /\ Calm /\ limits.removals = 0
            /\ MembershipIsCalm /\ Locks /\ NothingIsRemoved /\ FreeIsFree /\ NoOverload

\* A request adds no work to a node, and changes no task that anybody holds.
LEMMA RequestAdds ==
  ASSUME QuietNow, Requests, Quiet'
  PROVE  NothingIsAdded /\ NothingIsRemoved' /\ UNCHANGED sched
<1> USE DEF QuietNow, TasksTypes
<1>1. PICK t \in Tasks : createTask(t)
  <2>1. ASSUME NEW t \in Tasks, removeTask(t)
        PROVE  FALSE
    <3>1. limits' = [limits EXCEPT !.removals = @ + 1]
      BY <2>1 DEF removeTask
    <3>2. limits'.removals = 1
      BY <3>1
    <3>3. QED
      BY <3>2 DEF Quiet
  <2>2. QED
    BY <2>1 DEF Requests
<1>2. /\ task' = [task EXCEPT ![t] = Row("queued", NoNode, FALSE)] /\ task[t].status = "new"
      /\ UNCHANGED <<vars, hand, execs, sched, listen, limits>>
  BY <1>1 DEF createTask, Save
<1>3. /\ \A u \in Tasks \ {t} : task'[u] = task[u]
      /\ task'[t].worker = NoNode /\ task'[t].status = "queued"
  BY <1>2 DEF Row
<1>4. NothingIsAdded
  BY <1>3 DEF NothingIsAdded, exists
<1>5. \A x \in execs : x.task \in Tasks /\ x.task # t
  BY <1>2 DEF Executions, Locks, Owners, ExecutionsAreOwners
<1>6. \A n \in Nodes : \A u \in DOMAIN sched[n].copies : u \in Tasks /\ u # t
  BY <1>2, HeldCopies DEF NothingIsRemoved, exists
<1>7. NothingIsRemoved'
  <2>1. \A n \in Nodes : hand'[n] # NoTask => exists(hand[n])'
    BY <1>2, <1>3 DEF NothingIsRemoved, exists
  <2>2. \A x \in execs' : /\ exists(x.task)' /\ task'[x.task] = task[x.task] /\ x \in execs
    BY <1>2, <1>3, <1>5 DEF NothingIsRemoved, exists
  <2>3. \A n \in Nodes : \A u \in DOMAIN sched[n].copies :
          task'[u] = task[u] /\ exists(u) /\ sched[n].copies[u] = task[u]
    BY <1>3, <1>6 DEF NothingIsRemoved
  <2>4. \A n \in Nodes : \A u \in DOMAIN sched'[n].copies :
          exists(u)' /\ sched'[n].copies[u] = task'[u]
    BY <1>2, <2>3 DEF exists
  <2>5. QED
    BY <2>1, <2>2, <2>4 DEF NothingIsRemoved
<1>8. QED
  BY <1>2, <1>4, <1>7

\* A dispatcher claims a task that the node already has.
LEMMA DispatchAdds ==
  ASSUME QuietNow, NEW n \in Nodes, Dispatch(n)
  PROVE  NothingIsAdded /\ NothingIsRemoved' /\ UNCHANGED sched
<1> USE DEF QuietNow, TasksTypes
<1>1. CASE pollAssigned(n) \/ skipRemoved(n)
  <2>1. UNCHANGED <<task, execs, sched>>
    BY <1>1 DEF pollAssigned, skipRemoved
  <2>2. \A m \in Nodes : hand'[m] # NoTask => exists(hand[m])'
    BY <1>1, <2>1 DEF pollAssigned, skipRemoved, letGo, getAssignedTasks, exists, NothingIsRemoved
  <2>3. QED
    BY <2>1, <2>2 DEF NothingIsAdded, NothingIsRemoved, exists
<1>2. ASSUME NEW status \in {"waiting", "running"}, NEW pc \in {"waiting", "busy"},
             Executes(n, status, pc), pc = "busy" => TypeOf[hand[n]] \notin Pools
      PROVE  NothingIsAdded /\ NothingIsRemoved' /\ UNCHANGED sched
  <2> DEFINE t == hand[n]
             new == [turn |-> limits.runs, node |-> n, task |-> t, done |-> task[t].done, pc |-> pc]
  <2>1. /\ t \in Tasks /\ exists(t) /\ task[t].worker = n
        /\ execs' = execs \union {new}
        /\ Save(t, Row(status, n, task[t].done))
        /\ UNCHANGED sched
        /\ hand' = [hand EXCEPT ![n] = NoTask]
    BY <1>2 DEF Executes, letGo, Locks, Owners, HandsAreOwners, NothingIsRemoved
  <2>2. /\ \A u \in Tasks \ {t} : task'[u] = task[u]
        /\ task'[t] = Row(status, n, task[t].done)
    BY <2>1 DEF Save
  <2>3. task'[t].worker = n /\ task'[t].status = status /\ task'[t].done = task[t].done
    BY <2>2 DEF Row
  <2>4. NothingIsAdded
    BY <2>1, <2>2, <2>3 DEF NothingIsAdded, exists
  <2>5. \A x \in execs : x.task \in Tasks /\ x.task # t
    BY DEF Executions, Locks, SingleExecution, Calm
  <2>6. \A m \in Nodes : \A u \in DOMAIN sched[m].copies : u \in Tasks /\ u # t
    BY <2>1, CopiesTypes, NodesAssumption
       DEF NodesAssumption, Schedulers, Locks, Owners, CopiesAreFree
  <2>7. new.pc = pc /\ new.task = t /\ new.done = task[t].done
    OBVIOUS
  <2>8. \A m \in Nodes : hand'[m] # NoTask => exists(hand[m])'
    BY <2>1, <2>2, <2>3 DEF NothingIsRemoved, exists
  <2> HIDE DEF new
  <2>9. \A x \in execs' :
          /\ exists(x.task)'
          /\ x.pc \in {"waiting", "busy"} /\ task'[x.task].done => x.done
          /\ x.pc = "busy" /\ TypeOf[x.task] \in Pools => ~x.done
    BY <1>2, <2>1, <2>2, <2>3, <2>5, <2>7 DEF NothingIsRemoved, exists
  <2>10. \A m \in Nodes : \A u \in DOMAIN sched'[m].copies : exists(u)' /\ sched'[m].copies[u] = task'[u]
    BY <2>1, <2>2, <2>6 DEF NothingIsRemoved, exists
  <2>11. QED
    BY <2>1, <2>4, <2>8, <2>9, <2>10 DEF NothingIsRemoved
<1>3. CASE saveWaiting(n)
  <2>1. Executes(n, "waiting", "waiting")
    BY <1>3 DEF saveWaiting
  <2>2. QED
    BY <1>2, <2>1
<1>4. CASE beginInline(n)
  <2>1. Executes(n, "running", "busy") /\ TypeOf[hand[n]] \notin Pools
    BY <1>4 DEF beginInline
  <2>2. QED
    BY <1>2, <2>1
<1>5. QED
  BY <1>1, <1>3, <1>4 DEF Dispatch

\* An execution adds nothing: while it is busy its task is not done anyway.
LEMMA ExecuteAdds ==
  ASSUME QuietNow, NEW x \in execs, Execute(x)
  PROVE  NothingIsAdded /\ NothingIsRemoved' /\ UNCHANGED sched
<1> USE DEF QuietNow, TasksTypes
<1>1. /\ x \in Executions /\ x.task \in Tasks /\ x.node \in Nodes
      /\ task[x.task].worker = x.node /\ exists(x.task)
  BY DEF Executions, Locks, Owners, ExecutionsAreOwners, NothingIsRemoved
<1>2. UNCHANGED sched
  BY DEF Execute, begin, lookupFails, setProgress, restored, complete, setProgressDone, fail,
     noticeCancel, interrupt, ExecutorStep
<1>3. \A u \in Tasks \ {x.task} : task'[u] = task[u]
  BY DEF Execute, begin, lookupFails, setProgress, restored, complete, setProgressDone, fail,
     noticeCancel, interrupt, ExecutorStep, Save
<1>4. /\ x.pc \in {"waiting", "busy"} /\ task[x.task].done => x.done
      /\ x.pc = "busy" /\ TypeOf[x.task] \in Pools => ~x.done
      /\ x.done \in BOOLEAN /\ task[x.task] \in Records
  BY DEF NothingIsRemoved, Executions
<1>5. /\ exists(x.task)' /\ ~task'[x.task].done => ~task[x.task].done
      /\ exists(x.task)' => task'[x.task].worker = x.node
  <2>1. CASE UNCHANGED task
    BY <1>1, <2>1
  <2>2. CASE begin(x) \/ setProgress(x)
    BY <1>1, <1>4, <2>2 DEF begin, setProgress, ExecutorStep, Save, Row, Records
  <2>3. CASE restored(x) \/ complete(x) \/ fail(x)
    BY <1>1, <1>4, <2>3 DEF restored, complete, fail, ExecutorStep, Save, Row, Records
  <2>4. CASE setProgressDone(x) \/ noticeCancel(x) \/ interrupt(x)
    BY <1>1, <1>4, <2>4 DEF setProgressDone, noticeCancel, interrupt, ExecutorStep, Save, Row,
       exists
  <2>5. lookupFails(x) => UNCHANGED task
    BY DEF lookupFails
  <2>6. QED
    BY <2>1, <2>2, <2>3, <2>4, <2>5 DEF Execute
<1>6. NothingIsAdded
  BY <1>1, <1>3, <1>5 DEF NothingIsAdded, exists
<1>7. \A y \in execs' : y.task = x.task =>
        /\ exists(x.task)'
        /\ y.pc \in {"waiting", "busy"} /\ task'[x.task].done => y.done
        /\ y.pc = "busy" /\ TypeOf[y.task] \in Pools => ~y.done
  <2>1. \A y \in execs : y.task = x.task => y = x
    BY DEF Locks, SingleExecution, Calm
  <2>2. ends(x) => \A y \in execs' : y.task # x.task
    BY <2>1 DEF ends
  <2>3. ASSUME NEW pc, becomes(x, pc), NEW y \in execs', y.task = x.task
        PROVE  y.pc = pc /\ y.done = x.done
    BY <1>1, <2>1, <2>3 DEF becomes, Executions
  <2>4. CASE begin(x)
    <3>1. becomes(x, firstStage(x)) /\ task'[x.task].status = "running" /\ task'[x.task].done = x.done
      BY <1>1, <2>4 DEF begin, ExecutorStep, Save, Row
    <3>2. firstStage(x) = "busy" => ~x.done
      BY DEF firstStage
    <3>3. QED
      BY <2>3, <3>1, <3>2 DEF exists
  <2>5. CASE setProgress(x)
    <3>1. execs' = execs /\ task'[x.task].status = "running" /\ ~task'[x.task].done
          /\ x.pc = "busy"
      BY <1>1, <2>5 DEF setProgress, ExecutorStep, Save, Row
    <3>2. QED
      BY <1>4, <2>1, <3>1 DEF exists
  <2>6. CASE restored(x) \/ complete(x) \/ fail(x)
    <3>1. \/ ends(x)
          \/ /\ becomes(x, "ending") \/ becomes(x, "failed")
             /\ task'[x.task].status \in {"running", "complete", "error"}
      BY <1>1, <2>6 DEF restored, complete, fail, ExecutorStep, Save, Row
    <3>2. QED
      BY <2>2, <2>3, <3>1 DEF exists
  <2>7. lookupFails(x) \/ setProgressDone(x) \/ noticeCancel(x) \/ interrupt(x) => ends(x)
    BY DEF lookupFails, setProgressDone, noticeCancel, interrupt
  <2>8. QED
    BY <2>2, <2>4, <2>5, <2>6, <2>7 DEF Execute
<1>8. \A y \in execs' :
        /\ exists(y.task)'
        /\ y.pc \in {"waiting", "busy"} /\ task'[y.task].done => y.done
        /\ y.pc = "busy" /\ TypeOf[y.task] \in Pools => ~y.done
  <2>1. \A y \in execs' : y.task # x.task => y \in execs /\ y.task \in Tasks
    <3>1. execs' = execs \/ ends(x) \/ \E pc \in {"busy", "ending", "failed", "over"} : becomes(x, pc)
      BY DEF firstStage, Execute, begin, lookupFails, setProgress, restored, complete,
         setProgressDone, fail, noticeCancel, interrupt
    <3>2. QED
      BY <1>1, <3>1 DEF ends, becomes, Executions
  <2>2. QED
    BY <1>3, <1>7, <2>1 DEF NothingIsRemoved, exists
<1>11. \A m \in Nodes : hand'[m] # NoTask => exists(hand[m])'
  <2>1. UNCHANGED hand
    BY DEF Execute, begin, lookupFails, setProgress, restored, complete, setProgressDone, fail,
       noticeCancel, interrupt, ExecutorStep
  <2>2. \A m \in Nodes : hand[m] # x.task
    BY DEF Locks, SingleExecution, Calm
  <2>3. QED
    BY <1>3, <2>1, <2>2 DEF NothingIsRemoved, exists
<1>9. \A m \in Nodes : \A u \in DOMAIN sched'[m].copies : exists(u)' /\ sched'[m].copies[u] = task'[u]
  <2>1. \A m \in Nodes : \A u \in DOMAIN sched[m].copies : u \in Tasks /\ u # x.task
    BY <1>1, CopiesTypes, NodesAssumption
       DEF NodesAssumption, Schedulers, Locks, Owners, CopiesAreFree
  <2>2. QED
    BY <1>2, <1>3, <2>1 DEF NothingIsRemoved, exists
<1>10. QED
  BY <1>2, <1>6, <1>8, <1>9, <1>11 DEF NothingIsRemoved

\* A restart ends executions, and leaves the tasks to their nodes.
LEMMA NodeAdds ==
  ASSUME QuietNow, NEW n \in Nodes, restartNode(n) \/ Membership(n)
  PROVE  /\ NothingIsAdded /\ NothingIsRemoved'
         /\ \A m \in Nodes : sched'[m].pc # "idle" => sched'[m] = sched[m]
<1> USE DEF QuietNow, TasksTypes
<1>1. CASE Membership(n)
  <2>1. UNCHANGED <<task, hand, execs, sched>>
    BY <1>1 DEF Membership, taskVars
  <2>2. QED
    BY <2>1 DEF NothingIsAdded, NothingIsRemoved, exists
<1>2. CASE restartNode(n)
  <2>1. /\ \A m \in Nodes : sched'[m] = IF m = n THEN Idle ELSE sched[m]
        /\ \A m \in Nodes : hand'[m] = IF m = n THEN NoTask ELSE hand[m]
        /\ execs' = {x \in execs : x.node # n}
    BY <1>2 DEF restartNode, forgetTasks
  <2>2. /\ \A t \in Tasks : task'[t].worker = task[t].worker /\ task'[t].done = task[t].done
        /\ \A t \in Tasks : task'[t].status = task[t].status
                            \/ (task[t].status = "running" /\ task'[t].status = "partially_finished")
        /\ \A t \in Tasks : task[t].worker # n => task'[t] = task[t]
    BY <1>2 DEF restartNode, Records
  <2>3. Idle.pc = "idle" /\ DOMAIN Idle.copies = {}
    BY DEF Idle, NoCopies, copies
  <2>4. NothingIsAdded
    BY <2>2 DEF NothingIsAdded, exists
  <2>5. \A m \in Nodes : hand'[m] # NoTask => exists(hand[m])'
    BY <2>1, <2>2 DEF NothingIsRemoved, exists
  <2>6. \A x \in execs' : /\ x \in execs /\ x.task \in Tasks /\ exists(x.task)'
                         /\ task'[x.task].done = task[x.task].done
    BY <2>1, <2>2 DEF NothingIsRemoved, Executions, exists
  <2>7. \A m \in Nodes : \A u \in DOMAIN sched'[m].copies : exists(u)' /\ sched'[m].copies[u] = task'[u]
    <3>1. \A m \in Nodes : \A u \in DOMAIN sched[m].copies : u \in Tasks /\ task[u].worker # n
      BY CopiesTypes, NodesAssumption DEF NodesAssumption, Schedulers, Locks, Owners, CopiesAreFree
    <3>2. QED
      BY <2>1, <2>2, <2>3, <3>1 DEF NothingIsRemoved, exists
  <2>8. QED
    BY <2>1, <2>3, <2>4, <2>5, <2>6, <2>7 DEF NothingIsRemoved
<1>3. QED
  BY <1>1, <1>2

\* What a scheduler takes for free it took for free before, or has just counted.
CountsFollow ==
  \A j \in Nodes : sched'[j].pc \in Distributing =>
    \A k \in DOMAIN sched'[j].free :
      \/ /\ sched[j].pc \in Distributing
         /\ k \in DOMAIN sched[j].free /\ sched'[j].free[k] = sched[j].free[k]
      \/ k \in Nodes /\ sched'[j].free[k] = freeWorkers(k)

\* The scheduler copies and counts before it assigns.
LEMMA ReadsAdd ==
  ASSUME QuietNow, NEW n \in Nodes, Distribute(n) \/ Reassign(n), ~assign(n)
  PROVE  NothingIsAdded /\ NothingIsRemoved' /\ CountsFollow
<1> USE DEF QuietNow, TasksTypes
<1>1. /\ sched[n] \in Schedulers /\ Idle \in Schedulers /\ Idle.pc = "idle"
      /\ DOMAIN Idle.copies = {} /\ DOMAIN Idle.free = {}
  BY IdleTypes DEF Idle, NoCopies, copies
<1>2. ~giveBack(n)
  BY DEF giveBack, Locks, Owners, WorkersAreKnown
<1>3. UNCHANGED <<task, hand, execs>>
  BY <1>2 DEF Distribute, Reassign, readUnassigned, readNodes, countWorkers, readNodeIds,
     readUnknown, SchedulerStep
<1>4. NothingIsAdded
  BY <1>3 DEF NothingIsAdded, exists
<1>5. ASSUME NEW s \in Schedulers, SchedulerStep(n, s),
             \A t \in DOMAIN s.copies : exists(t) /\ s.copies[t] = task[t],
             s.pc \in Distributing =>
               \A k \in DOMAIN s.free :
                 \/ /\ sched[n].pc \in Distributing
                    /\ k \in DOMAIN sched[n].free /\ s.free[k] = sched[n].free[k]
                 \/ k \in Nodes /\ s.free[k] = freeWorkers(k)
      PROVE  NothingIsRemoved' /\ CountsFollow
  <2>1. \A m \in Nodes : sched'[m] = IF m = n THEN s ELSE sched[m]
    BY <1>5 DEF SchedulerStep
  <2>2. NothingIsRemoved'
    BY <1>3, <1>5, <2>1 DEF NothingIsRemoved, exists
  <2>3. CountsFollow
    BY <1>5, <2>1 DEF CountsFollow
  <2>4. QED
    BY <2>2, <2>3
<1>6. CASE readUnassigned(n)
  <2> DEFINE s == [Idle EXCEPT !.pc = "nodes", !.copies = copies(unassigned)]
  <2>1. copies(unassigned) \in Copies
    BY CopiesTypes DEF unassigned
  <2>2. s \in Schedulers /\ s.copies = copies(unassigned) /\ DOMAIN s.free = {}
    BY <1>1, <2>1 DEF Schedulers
  <2>3. \A t \in DOMAIN s.copies : exists(t) /\ s.copies[t] = task[t]
    BY <2>2 DEF copies, unassigned
  <2>4. SchedulerStep(n, s)
    BY <1>6 DEF readUnassigned
  <2> HIDE DEF s
  <2>5. QED
    BY <1>4, <1>5, <2>2, <2>3, <2>4
<1>7. CASE countWorkers(n)
  <2>1. PICK m \in Nodes, s \in Schedulers :
          /\ m \in sched[n].ids /\ SchedulerStep(n, s) /\ UNCHANGED task
          /\ sched[n].pc = "counting" /\ s.pc \in {"counting", "assigning"}
          /\ s.copies = sched[n].copies
          /\ s.free = withNode(sched[n].free, m)
          /\ s.ids = sched[n].ids \ {m}
    BY <1>7, CountStep
  <2>2. \A k \in DOMAIN s.free :
          \/ k \in DOMAIN sched[n].free /\ s.free[k] = sched[n].free[k]
          \/ k = m /\ s.free[k] = freeWorkers(k)
    BY <2>1 DEF withNode
  <2>3. \A t \in DOMAIN s.copies : exists(t) /\ s.copies[t] = task[t]
    BY <2>1 DEF NothingIsRemoved
  <2>4. sched[n].pc \in Distributing
    BY <2>1 DEF Distributing
  <2>5. QED
    BY <1>4, <1>5, <2>1, <2>2, <2>3, <2>4
<1>8. CASE readNodeIds(n)
  <2> DEFINE s == [Idle EXCEPT !.pc = "reassign", !.ids = recorded]
  <2>1. s \in Schedulers /\ s.pc = "reassign" /\ DOMAIN s.copies = {}
    BY <1>1 DEF Schedulers, recorded
  <2>2. SchedulerStep(n, s)
    BY <1>8 DEF readNodeIds
  <2>3. s.pc \notin Distributing
    BY <2>1 DEF Distributing
  <2> HIDE DEF s
  <2>4. QED
    BY <1>4, <1>5, <2>1, <2>2, <2>3
<1>9. CASE readUnknown(n)
  <2>1. {t \in Tasks \ Regular : /\ exists(t) /\ task[t].status # "complete"
                                 /\ task[t].worker \notin sched[n].ids \union {NoNode}} = {}
    BY <1>9 DEF readUnknown, Locks, Owners, WorkersAreKnown
  <2>2. SchedulerStep(n, Idle)
    BY <1>9, <2>1 DEF readUnknown
  <2>3. QED
    BY <1>1, <1>4, <1>5, <2>2
<1>10. CASE readNodes(n)
  <2> DEFINE s == [sched[n] EXCEPT !.pc = "counting", !.ids = recorded]
  <2>1. s \in Schedulers /\ s.copies = sched[n].copies /\ s.free = sched[n].free
    BY <1>1 DEF Schedulers, recorded
  <2>2. SchedulerStep(n, s) /\ sched[n].pc \in Distributing
    BY <1>10 DEF readNodes, Distributing
  <2>3. \A t \in DOMAIN s.copies : exists(t) /\ s.copies[t] = task[t]
    BY <2>1 DEF NothingIsRemoved
  <2> HIDE DEF s
  <2>4. QED
    BY <1>4, <1>5, <2>1, <2>2, <2>3
<1>11. QED
  BY <1>2, <1>6, <1>7, <1>8, <1>9, <1>10 DEF Distribute, Reassign

\* Where nothing is added the load of every node shrinks.
LEMMA LoadsShrink ==
  ASSUME QuietNow, NothingIsAdded
  PROVE  \A m \in Nodes, p \in Pools : /\ Load(m, p) \in SUBSET Tasks
                                       /\ Load(m, p)' \in SUBSET Load(m, p)
<1> SUFFICES ASSUME NEW m \in Nodes, NEW p \in Pools
             PROVE  Load(m, p) \subseteq Tasks /\ Load(m, p)' \subseteq Load(m, p)
  OBVIOUS
<1>1. m # NoNode
  BY NodesAssumption DEF NodesAssumption
<1>2. QED
  BY <1>1 DEF NothingIsAdded, Load, unfinished

\* Then what is free stays free, and no node is overloaded.
LEMMA ShrinkingKeepsLoad ==
  ASSUME QuietNow, NothingIsAdded, CountsFollow
  PROVE  FreeIsFree' /\ NoOverload'
<1> USE DEF QuietNow
<1>1. \A p \in Pools : Threads(p) \in Nat
  BY PoolsAssumption DEF PoolsAssumption, Threads
<1>2. ASSUME NEW m \in Nodes, NEW p \in Pools
      PROVE  /\ Cardinality(Load(m, p)) \in Nat /\ Cardinality(Load(m, p)') \in Nat
             /\ Cardinality(Load(m, p)') <= Cardinality(Load(m, p))
             /\ Cardinality(Load(m, p)) <= Threads(p)
  <2>1. Load(m, p) \in SUBSET Tasks /\ Load(m, p)' \in SUBSET Load(m, p)
    BY LoadsShrink
  <2>2. CASE m \in recorded
    <3>1. Cardinality(Load(m, p)) <= Threads(p)
      BY <2>2 DEF NoOverload, Load, Calm
    <3>2. QED
      BY <2>1, <3>1, TaskSets
  <2>3. CASE m \notin recorded
    <3>1. Load(m, p) = {}
      BY <2>3, NodesAssumption DEF NodesAssumption, Load, unfinished, Locks, Owners,
         WorkersAreKnown
    <3>2. QED
      BY <1>1, <2>1, <3>1, TaskSets, FS_EmptySet
  <2>4. QED
    BY <2>2, <2>3
<1>3. NoOverload'
  <2>1. \A m \in recorded' : m \in Nodes
    BY DEF recorded
  <2>2. ASSUME NEW m \in Nodes, NEW p \in Pools
        PROVE  Cardinality(Load(m, p)') <= Threads(p)
    BY <1>1, <1>2
  <2>3. QED
    BY <2>1, <2>2 DEF NoOverload, Load
<1>4. FreeIsFree'
  <2> SUFFICES ASSUME NEW n \in Nodes, sched'[n].pc \in Distributing,
                      NEW m \in DOMAIN sched'[n].free, NEW p \in Pools
               PROVE  /\ sched'[n].free[m][p] >= 0
                      /\ sched'[n].free[m][p] <= Threads(p) - Cardinality(Load(m, p)')
    BY DEF FreeIsFree
  <2>1. CASE /\ sched[n].pc \in Distributing
             /\ m \in DOMAIN sched[n].free /\ sched'[n].free[m] = sched[n].free[m]
    <3>1. PICK S \in SUBSET Nodes : sched[n].free \in [S -> [Pools -> Int]]
      <4>1. sched[n].free \in Frees
        BY DEF TasksTypes, Schedulers
      <4>2. QED
        BY <4>1 DEF Frees
    <3>2. m \in Nodes /\ sched[n].free[m][p] \in Int
      BY <2>1, <3>1
    <3>3. sched[n].free[m][p] >= 0 /\ sched[n].free[m][p] <= Threads(p) - Cardinality(Load(m, p))
      BY <2>1 DEF FreeIsFree
    <3>4. QED
      BY <1>1, <1>2, <2>1, <3>2, <3>3
  <2>2. CASE m \in Nodes /\ sched'[n].free[m] = freeWorkers(m)
    <3>1. sched'[n].free[m][p] = Threads(p) - Cardinality(Load(m, p))
      BY <2>2, FreeTypes
    <3>2. QED
      BY <1>1, <1>2, <2>2, <3>1
  <2>3. QED
    BY <2>1, <2>2 DEF CountsFollow
<1>5. QED
  BY <1>3, <1>4

\* What one assignment does: the copy is current, so it only sets the worker,
\* and what the node has free goes down with it.
LEMMA AssignStep ==
  ASSUME QuietNow, NEW n \in Nodes, assign(n)
  PROVE  \E t \in Tasks, m \in recorded, s \in Schedulers :
           /\ SchedulerStep(n, s)
           /\ t \in DOMAIN sched[n].copies /\ m \in DOMAIN sched[n].free
           /\ \/ s.pc = "idle" /\ DOMAIN s.copies = {}
              \/ /\ s.pc = "assigning" /\ s.copies = rest(sched[n].copies, t)
           /\ \/ UNCHANGED task /\ (s.pc = "assigning" => s.free = sched[n].free)
              \/ /\ task' = [task EXCEPT ![t].worker = m]
                 /\ sched[n].free[m][PoolOf(t)] # 0
                 /\ s.pc = "assigning" => s.free =
                      IF TypeOf[t] = PoolOf(t) THEN [sched[n].free EXCEPT ![m][PoolOf(t)] = @ - 1]
                      ELSE sched[n].free
<1> USE DEF QuietNow, TasksTypes
<1> DEFINE free == sched[n].free
<1>1. /\ sched[n] \in Schedulers /\ Idle \in Schedulers /\ Idle.pc = "idle" /\ DOMAIN Idle.copies = {}
      /\ sched[n].pc = "assigning" /\ sched[n].copies \in Copies /\ free \in Frees
  BY IdleTypes DEF Idle, NoCopies, copies, assign, Schedulers
<1>2. PICK t \in DOMAIN sched[n].copies, m \in DOMAIN free :
        LET p    == PoolOf(t)
            left == rest(sched[n].copies, t)
            used == IF TypeOf[t] = p THEN [free EXCEPT ![m][p] = @ - 1] ELSE free
            next == IF left = NoCopies THEN Idle
                    ELSE [sched[n] EXCEPT !.copies = left, !.free = used]
        IN IF free[m][p] = 0
           THEN /\ Save(t, sched[n].copies[t])
                /\ SchedulerStep(n, IF left = NoCopies THEN Idle
                                    ELSE [sched[n] EXCEPT !.copies = left])
           ELSE /\ Save(t, [sched[n].copies[t] EXCEPT !.worker = m])
                /\ SchedulerStep(n, next)
  BY DEF assign
<1> DEFINE left == rest(sched[n].copies, t)
           used == IF TypeOf[t] = PoolOf(t) THEN [free EXCEPT ![m][PoolOf(t)] = @ - 1] ELSE free
<1>3. t \in Tasks /\ m \in recorded /\ sched[n].copies[t] = task[t] /\ task[t] \in Records
  BY <1>1, CopiesTypes DEF Locks, Owners, WorkersAreKnown, NothingIsRemoved
<1>4. left \in Copies
  BY <1>1, CopiesTypes
<1>5. used \in Frees
  <2>1. PoolOf(t) \in Pools
    BY DEF PoolOf, Pools
  <2>2. PICK S \in SUBSET Nodes : free \in [S -> [Pools -> Int]]
    BY <1>1 DEF Frees
  <2>3. [free EXCEPT ![m][PoolOf(t)] = @ - 1] \in [S -> [Pools -> Int]]
    BY <2>1, <2>2
  <2>4. QED
    BY <1>1, <2>3 DEF Frees
<1>6. /\ [sched[n] EXCEPT !.copies = left] \in Schedulers
      /\ [sched[n] EXCEPT !.copies = left].pc = "assigning"
      /\ [sched[n] EXCEPT !.copies = left].copies = left
      /\ [sched[n] EXCEPT !.copies = left].free = free
  BY <1>1, <1>4 DEF Schedulers
<1>7. /\ [sched[n] EXCEPT !.copies = left, !.free = used] \in Schedulers
      /\ [sched[n] EXCEPT !.copies = left, !.free = used].pc = "assigning"
      /\ [sched[n] EXCEPT !.copies = left, !.free = used].copies = left
      /\ [sched[n] EXCEPT !.copies = left, !.free = used].free = used
  BY <1>1, <1>4, <1>5 DEF Schedulers
<1>8. CASE free[m][PoolOf(t)] = 0
  <2>1. UNCHANGED task
    BY <1>2, <1>3, <1>8 DEF Save
  <2>2. SchedulerStep(n, Idle) \/ SchedulerStep(n, [sched[n] EXCEPT !.copies = left])
    BY <1>2, <1>8
  <2>3. QED
    BY <1>1, <1>3, <1>6, <2>1, <2>2
<1>9. CASE free[m][PoolOf(t)] # 0
  <2>1. task' = [task EXCEPT ![t].worker = m]
    BY <1>2, <1>3, <1>9 DEF Save
  <2>2. SchedulerStep(n, Idle) \/ SchedulerStep(n, [sched[n] EXCEPT !.copies = left, !.free = used])
    BY <1>2, <1>9
  <2>3. CASE SchedulerStep(n, Idle)
    BY <1>1, <1>3, <1>9, <2>1, <2>3
  <2>4. CASE SchedulerStep(n, [sched[n] EXCEPT !.copies = left, !.free = used])
    <3> DEFINE s == [sched[n] EXCEPT !.copies = left, !.free = used]
    <3>1. s \in Schedulers /\ s.pc = "assigning" /\ s.copies = left /\ s.free = used
      BY <1>7
    <3>2. SchedulerStep(n, s)
      BY <2>4
    <3> HIDE DEF s
    <3>3. QED
      BY <1>3, <1>9, <2>1, <3>1, <3>2
  <2>5. QED
    BY <2>2, <2>3, <2>4
<1>10. QED
  BY <1>8, <1>9

\* An assignment overloads nobody: what it takes was free.
LEMMA AssignKeepsLoad ==
  ASSUME QuietNow, NEW n \in Nodes, assign(n)
  PROVE  NothingIsRemoved' /\ FreeIsFree' /\ NoOverload'
<1> USE DEF QuietNow, TasksTypes
<1>1. PICK t \in Tasks, m \in recorded, s \in Schedulers :
        /\ SchedulerStep(n, s)
        /\ t \in DOMAIN sched[n].copies /\ m \in DOMAIN sched[n].free
        /\ \/ s.pc = "idle" /\ DOMAIN s.copies = {}
           \/ /\ s.pc = "assigning" /\ s.copies = rest(sched[n].copies, t)
        /\ \/ UNCHANGED task /\ (s.pc = "assigning" => s.free = sched[n].free)
           \/ /\ task' = [task EXCEPT ![t].worker = m]
              /\ sched[n].free[m][PoolOf(t)] # 0
              /\ s.pc = "assigning" => s.free =
                   IF TypeOf[t] = PoolOf(t) THEN [sched[n].free EXCEPT ![m][PoolOf(t)] = @ - 1]
                   ELSE sched[n].free
  BY AssignStep
<1>2. /\ \A k \in Nodes : sched'[k] = IF k = n THEN s ELSE sched[k]
      /\ UNCHANGED <<vars, hand, execs, listen, limits>>
      /\ sched[n].pc = "assigning"
  BY <1>1 DEF SchedulerStep, assign
<1>3. \A k \in Nodes \ {n} : DOMAIN sched[k].copies = {} /\ sched[k].pc = "idle"
  <2>1. n \in jobs
    BY <1>2 DEF OnlyRunningWork
  <2>2. QED
    BY <2>1 DEF MembershipIsCalm, OnlyRunningWork, Locks, Owners, CopiesAreFree
<1>4. \A u \in DOMAIN s.copies : u \in Tasks /\ u # t /\ u \in DOMAIN sched[n].copies /\ s.copies[u] = sched[n].copies[u]
  <2>1. \A u \in DOMAIN sched[n].copies : u \in Tasks
    BY CopiesTypes DEF Schedulers
  <2>2. QED
    BY <1>1, <2>1 DEF rest
<1>5. /\ \A u \in Tasks \ {t} : task'[u] = task[u]
      /\ task'[t].status = task[t].status /\ task'[t].done = task[t].done
      /\ task[t].worker = NoNode
  BY <1>1 DEF Locks, Owners, CopiesAreFree, Records
<1>6. NothingIsRemoved'
  <2>1. \A u \in Tasks : exists(u)' = exists(u)
    BY <1>5 DEF exists
  <2>2. /\ \A k \in Nodes : hand'[k] # NoTask => exists(hand[k])'
        /\ \A x \in execs' : /\ x \in execs /\ exists(x.task)'
                             /\ task'[x.task].done = task[x.task].done
    <3>1. \A k \in Nodes : hand[k] # NoTask => hand[k] \in Tasks
      OBVIOUS
    <3>2. \A x \in execs : x.task \in Tasks
      BY DEF Executions
    <3>3. UNCHANGED <<hand, execs>>
      BY <1>2
    <3>4. \A u \in Tasks : task'[u].done = task[u].done
      BY <1>5
    <3>5. \A u \in Tasks : exists(u) => exists(u)'
      BY <2>1
    <3>6. \A k \in Nodes : hand'[k] # NoTask => exists(hand[k])'
      BY <1>2, <1>5, <3>1 DEF NothingIsRemoved, exists
    <3>7. \A x \in execs' : x \in execs /\ exists(x.task)'
      BY <1>2, <1>5, <3>2 DEF NothingIsRemoved, exists
    <3>8. QED
      BY <3>2, <3>4, <3>6, <3>7
  <2>3. \A k \in Nodes : \A u \in DOMAIN sched'[k].copies : exists(u)' /\ sched'[k].copies[u] = task'[u]
    BY <1>2, <1>3, <1>4, <1>5 DEF NothingIsRemoved, exists
  <2>4. QED
    BY <2>1, <2>2, <2>3 DEF NothingIsRemoved
<1>7. CASE UNCHANGED task /\ (s.pc = "assigning" => s.free = sched[n].free)
  <2>1. \A k \in Nodes, p \in Pools : Load(k, p)' = Load(k, p)
    BY <1>7 DEF Load, unfinished, exists
  <2>2. FreeIsFree'
    <3>1. \A k \in DOMAIN sched[n].free : k \in Nodes
      BY DEF Locks, Owners, WorkersAreKnown, recorded
    <3>2. \A j \in Nodes : sched'[j].pc \in Distributing => j = n /\ sched'[j].free = sched[n].free
      BY <1>1, <1>2, <1>3, <1>7 DEF Distributing
    <3>3. \A j \in Nodes : sched'[j].pc \in Distributing =>
            \A k \in DOMAIN sched'[j].free, p \in Pools :
              /\ sched'[j].free[k][p] >= 0
              /\ sched'[j].free[k][p] <= Threads(p) - Cardinality(Load(k, p)')
      BY <1>2, <2>1, <3>1, <3>2 DEF FreeIsFree, Distributing
    <3>4. QED
      BY <3>3 DEF FreeIsFree
  <2>3. NoOverload'
    <3>1. recorded' = recorded /\ Calm /\ \A k \in recorded : k \in Nodes
      BY <1>2 DEF vars, recorded
    <3>2. QED
      BY <2>1, <3>1 DEF NoOverload, Load, Calm
  <2>4. QED
    BY <1>6, <2>2, <2>3
<1>8. CASE /\ task' = [task EXCEPT ![t].worker = m]
           /\ sched[n].free[m][PoolOf(t)] # 0
           /\ s.pc = "assigning" => s.free =
                IF TypeOf[t] = PoolOf(t) THEN [sched[n].free EXCEPT ![m][PoolOf(t)] = @ - 1]
                ELSE sched[n].free
  <2> DEFINE free == sched[n].free
  <2>1. PICK S \in SUBSET Nodes : free \in [S -> [Pools -> Int]]
    <3>1. free \in Frees
      BY DEF Schedulers
    <3>2. QED
      BY <3>1 DEF Frees
  <2>2. \A p \in Pools : Threads(p) \in Nat
    BY PoolsAssumption DEF PoolsAssumption, Threads
  <2>3. PoolOf(t) \in Pools /\ (TypeOf[t] \in Pools <=> TypeOf[t] = PoolOf(t))
    BY TasksAssumption DEF TasksAssumption, PoolOf, Pools, Types
  <2>4. ASSUME NEW k \in Nodes, NEW p \in Pools
        PROVE  /\ Load(k, p) \in SUBSET Tasks
               /\ k # m \/ p # TypeOf[t] => Load(k, p)' \in SUBSET Load(k, p)
               /\ Load(k, p)' \in SUBSET (Load(k, p) \union {t})
    <3>1. /\ task'[t].worker = m
          /\ k # NoNode
      BY <1>8, NodesAssumption DEF NodesAssumption, Records
    <3>2. QED
      BY <1>5, <3>1 DEF Load, unfinished, exists
  <2>5. ASSUME NEW k \in Nodes, NEW p \in Pools
        PROVE  /\ Cardinality(Load(k, p)) \in Nat /\ Cardinality(Load(k, p)') \in Nat
               /\ k # m \/ p # TypeOf[t] => Cardinality(Load(k, p)') <= Cardinality(Load(k, p))
               /\ Cardinality(Load(k, p)') <= Cardinality(Load(k, p)) + 1
    <3>1. Load(k, p) \in SUBSET Tasks /\ Load(k, p) \union {t} \in SUBSET Tasks /\ Load(k, p)' \in SUBSET Tasks
      BY <2>4
    <3>2. Cardinality(Load(k, p)) \in Nat /\ Cardinality(Load(k, p)') \in Nat
      BY <3>1, TaskSets
    <3>3. k # m \/ p # TypeOf[t] => Cardinality(Load(k, p)') <= Cardinality(Load(k, p))
      BY <2>4, <3>1, TaskSets
    <3>4. Cardinality(Load(k, p)') <= Cardinality(Load(k, p) \union {t})
      BY <2>4, <3>1, TaskSets
    <3>5. Cardinality(Load(k, p) \union {t}) <= Cardinality(Load(k, p)) + 1 /\ Cardinality(Load(k, p) \union {t}) \in Nat
      BY <3>1, TaskSets
    <3>6. QED
      BY <3>2, <3>3, <3>4, <3>5
  <2>6. \A k \in DOMAIN free, p \in Pools :
          /\ k \in Nodes /\ free[k][p] \in Int
          /\ free[k][p] >= 0 /\ free[k][p] <= Threads(p) - Cardinality(Load(k, p))
    BY <1>2, <2>1 DEF FreeIsFree, Distributing
  <2>7. NoOverload'
    <3>1. recorded' = recorded /\ \A k \in recorded : k \in Nodes
      BY <1>2 DEF vars, recorded
    <3>2. ASSUME NEW k \in recorded, NEW p \in Pools
          PROVE  Cardinality(Load(k, p)') <= Threads(p)
      <4>1. Cardinality(Load(k, p)) <= Threads(p) /\ k \in Nodes
        BY <3>1 DEF NoOverload, Load, Calm
      <4>2. CASE k # m \/ p # TypeOf[t]
        BY <2>2, <2>5, <4>1, <4>2
      <4>3. CASE k = m /\ p = TypeOf[t]
        <5>1. p = PoolOf(t) /\ free[m][p] # 0
          BY <1>8, <2>3, <4>3
        <5>2. free[m][p] \in Int /\ free[m][p] >= 1 /\ free[m][p] <= Threads(p) - Cardinality(Load(m, p))
          BY <1>1, <2>6, <5>1
        <5>3. QED
          BY <2>2, <2>5, <4>1, <4>3, <5>2
      <4>4. QED
        BY <4>2, <4>3
    <3>3. QED
      BY <3>1, <3>2 DEF NoOverload, Load
  <2>8. FreeIsFree'
    <3> SUFFICES ASSUME NEW j \in Nodes, sched'[j].pc \in Distributing,
                        NEW k \in DOMAIN sched'[j].free, NEW p \in Pools
                 PROVE  /\ sched'[j].free[k][p] >= 0
                        /\ sched'[j].free[k][p] <= Threads(p) - Cardinality(Load(k, p)')
      BY DEF FreeIsFree
    <3>1. j = n /\ sched'[j] = s /\ s.pc = "assigning"
      BY <1>1, <1>2, <1>3 DEF Distributing
    <3>2. k \in DOMAIN free /\ k \in Nodes
      BY <1>8, <2>6, <3>1
    <3>3. CASE k = m /\ p = TypeOf[t]
      <4>1. p = PoolOf(t) /\ free[m][p] # 0
        BY <1>8, <2>3, <3>3
      <4>2. s.free[k][p] = free[k][p] - 1
        BY <1>1, <1>8, <2>1, <3>1, <3>3, <4>1
      <4>3. free[k][p] \in Int /\ free[k][p] >= 1 /\ free[k][p] <= Threads(p) - Cardinality(Load(k, p))
        BY <2>6, <3>2, <3>3, <4>1
      <4>4. QED
        BY <2>2, <2>5, <3>1, <3>2, <4>2, <4>3
    <3>4. CASE k # m \/ p # TypeOf[t]
      <4>1. s.free[k][p] = free[k][p]
        BY <1>1, <1>8, <2>1, <3>1, <3>2, <3>4
      <4>2. QED
        BY <2>2, <2>5, <2>6, <3>1, <3>2, <3>4, <4>1
    <3>5. QED
      BY <3>3, <3>4
  <2>9. QED
    BY <1>6, <2>7, <2>8
<1>9. QED
  BY <1>1, <1>7, <1>8

\* The invariant of the load holds at the start ...
LEMMA InitQInv == TasksInit => QInv
<1> SUFFICES ASSUME TasksInit
             PROVE  QInv
  OBVIOUS
<1>1. \A n \in Nodes : unfinished(n) = {}
  BY DEF TasksInit, unfinished, exists, Row
<1>2. NoOverload
  <2>1. \A n \in recorded, p \in Pools : {t \in unfinished(n) : TypeOf[t] = p} = {}
    BY <1>1 DEF recorded
  <2>2. \A p \in Pools : Threads(p) >= 0
    BY PoolsAssumption DEF PoolsAssumption, Threads
  <2>3. QED
    BY <2>1, <2>2, FS_EmptySet DEF NoOverload
<1>3. NothingIsRemoved /\ FreeIsFree
  BY DEF TasksInit, NothingIsRemoved, FreeIsFree, Row, Idle, NoCopies, copies
<1>4. QED
  BY <1>2, <1>3, InitCInv DEF QInv

\* ... and every step keeps it.
LEMMA NextQInv == QInv /\ [TasksNext]_allVars => QInv'
<1> SUFFICES ASSUME QInv, [TasksNext]_allVars
             PROVE  QInv'
  OBVIOUS
<1>1. CInv /\ CInv' /\ TypeOK /\ [Next]_vars
  BY NextCInv, NextIsMembership DEF QInv, CInv, IInv
<1>2. CASE ~Quiet'
  BY <1>1, <1>2 DEF QInv, NoOverload, Quiet, Calm
<1>3. CASE Quiet'
  <2>1. Calm /\ \A n \in Nodes : ~terminate(n)
    BY <1>1, <1>3, CalmBefore DEF Quiet
  <2>2. limits.removals = 0
    <3>1. limits.removals \in Nat /\ limits \in [runs : 0 .. MaxRuns, removals : Nat, failures : Nat]
      BY <1>1 DEF CInv, TasksTypes
    <3>2. limits'.removals = 0
      BY <1>3 DEF Quiet
    <3>3. CASE limits' = limits
      BY <3>2, <3>3
    <3>4. CASE limits' = [limits EXCEPT !.removals = @ + 1]
      BY <3>1, <3>2, <3>4
    <3>5. CASE limits' = [limits EXCEPT !.failures = @ + 1] \/ limits' = [limits EXCEPT !.runs = @ + 1]
      BY <3>1, <3>2, <3>5
    <3>6. \/ limits' = limits \/ limits' = [limits EXCEPT !.removals = @ + 1]
          \/ limits' = [limits EXCEPT !.failures = @ + 1]
          \/ limits' = [limits EXCEPT !.runs = @ + 1]
      <4>1. CASE Requests
        BY <4>1 DEF Requests, createTask, removeTask
      <4>2. ASSUME NEW n \in Nodes, Distribute(n) \/ Reassign(n)
            PROVE  UNCHANGED limits
        BY <4>2 DEF Distribute, readUnassigned, readNodes, countWorkers, assign, Reassign,
           readNodeIds, readUnknown,
           giveBack, SchedulerStep
      <4>3. ASSUME NEW n \in Nodes, Listen(n) \/ terminateNode(n) \/ restartNode(n) \/ Membership(n)
            PROVE  UNCHANGED limits
        BY <4>3 DEF Listen, readOrphans, saveOrphan, ListenerStep, handledByListeners,
           terminateNode,
           restartNode, Membership, taskVars
      <4>4. ASSUME NEW n \in Nodes, Dispatch(n)
            PROVE  limits' = limits \/ limits' = [limits EXCEPT !.runs = @ + 1]
        BY <4>4 DEF Dispatch, pollAssigned, skipRemoved, saveWaiting, beginInline, Executes, letGo
      <4>5. ASSUME NEW x \in execs, Execute(x)
            PROVE  limits' = limits \/ limits' = [limits EXCEPT !.failures = @ + 1]
        BY <4>5 DEF Execute, begin, lookupFails, setProgress, restored, complete,
           setProgressDone, fail, noticeCancel, interrupt
      <4>6. QED
        BY <4>1, <4>2, <4>3, <4>4, <4>5 DEF TasksNext, taskVars, allVars
    <3>7. QED
      BY <3>3, <3>4, <3>5, <3>6
  <2>3. QuietNow
    BY <1>1, <2>1, <2>2 DEF QuietNow, QInv, CInv, Quiet, Locks
  <2>4. CASE UNCHANGED allVars
    <3>1. NothingIsAdded /\ NothingIsRemoved' /\ UNCHANGED sched
      BY <2>3, <2>4 DEF allVars, taskVars, NothingIsAdded, exists, QuietNow, NothingIsRemoved
    <3>2. CountsFollow
      BY <3>1 DEF CountsFollow
    <3>3. QED
      BY <1>1, <2>3, <3>1, <3>2, ShrinkingKeepsLoad DEF QInv
  <2>5. ASSUME NEW n \in Nodes, assign(n)
        PROVE  QInv'
    BY <1>1, <2>3, <2>5, AssignKeepsLoad DEF QInv
  <2>6. CASE TasksNext /\ \A n \in Nodes : ~assign(n)
    <3>1. \A n \in Nodes : ~Listen(n) /\ ~terminateNode(n)
      BY <2>1, <2>3 DEF Listen, readOrphans, saveOrphan, handledByListeners, handled,
         terminateNode, MembershipIsCalm, QuietNow, Locks, Owners, WorkersAreKnown
    <3>2. NothingIsAdded /\ NothingIsRemoved' /\ CountsFollow
      <4>1. CASE Requests
        BY <1>3, <2>3, <4>1, RequestAdds DEF CountsFollow
      <4>2. ASSUME NEW n \in Nodes, Distribute(n) \/ Reassign(n)
            PROVE  NothingIsAdded /\ NothingIsRemoved' /\ CountsFollow
        BY <2>3, <2>6, <4>2, ReadsAdd
      <4>3. ASSUME NEW n \in Nodes, Dispatch(n)
            PROVE  NothingIsAdded /\ NothingIsRemoved' /\ UNCHANGED sched
        BY <2>3, <4>3, DispatchAdds
      <4>4. ASSUME NEW n \in Nodes, restartNode(n) \/ Membership(n)
            PROVE  /\ NothingIsAdded /\ NothingIsRemoved'
                   /\ \A m \in Nodes : sched'[m].pc # "idle" => sched'[m] = sched[m]
        BY <2>3, <4>4, NodeAdds
      <4>5. ASSUME NEW x \in execs, Execute(x)
            PROVE  NothingIsAdded /\ NothingIsRemoved' /\ UNCHANGED sched
        BY <2>3, <4>5, ExecuteAdds
      <4>6. ASSUME \A m \in Nodes : sched'[m].pc # "idle" => sched'[m] = sched[m]
            PROVE  CountsFollow
        BY <4>6 DEF CountsFollow, Distributing
      <4>7. QED
        BY <2>6, <3>1, <4>1, <4>2, <4>3, <4>4, <4>5, <4>6 DEF TasksNext
    <3>3. QED
      BY <1>1, <2>3, <3>2, ShrinkingKeepsLoad DEF QInv
  <2>7. QED
    BY <2>4, <2>5, <2>6
<1>4. QED
  BY <1>2, <1>3

\* While no instance is lost and no task removed, no node has more unfinished
\* tasks in a pool than the pool has threads.
THEOREM NodesAreNotOverloaded == TasksSpec => []NoOverload
<1>1. QInv => NoOverload
  BY DEF QInv
<1>2. QED
  BY <1>1, InitQInv, NextQInv, PTL DEF TasksSpec

-----------------------------------------------------------------------------
(* Whose tasks are given back                                              *)

\* The instance runs, or its end was reported.
Seen(m) == m \in up \/ Gone(m)

\* An instance that was never launched is named nowhere, and a distribution
\* starts from records without a worker.
NamedWereSeen ==
  /\ \A m \in recorded : Seen(m)
  /\ \A t \in Tasks : task[t].worker # NoNode => Seen(task[t].worker)
  /\ \A n \in Nodes : \A m \in DOMAIN sched[n].free \union sched[n].ids : Seen(m)
  /\ \A n \in Nodes : sched[n].pc \in Distributing =>
       \A t \in DOMAIN sched[n].copies : sched[n].copies[t].worker = NoNode

\* The terminations that a node handles were reported.
OrphansAreGone ==
  /\ \A n \in Nodes : handler[n].pc # "idle" => Gone(handler[n].node)
  /\ \A n \in Nodes : \A e \in todo[n] : e.kind = "terminated" => Gone(e.node)
  /\ \A n \in Nodes : \A t \in DOMAIN listen[n].copies : Gone(listen[n].copies[t].worker)

\* The node has no task, and none is about to name it.
Unused(m) ==
  /\ \A t \in Tasks : task[t].worker # m
  /\ hand[m] = NoTask
  /\ \A x \in execs : x.node # m

\* Who joined since the identifiers of the nodes were read has no task, and the
\* tasks that were found to have unknown nodes belong to nodes that are gone.
NewcomersAreUnused ==
  \A n \in Nodes : sched[n].pc = "reassign" => \A m \in up \ sched[n].ids : Unused(m)

ForeignersAreGone ==
  \A n \in Nodes : sched[n].pc = "giveBack" =>
    \A t \in DOMAIN sched[n].copies : Gone(sched[n].copies[t].worker)

\* No two nodes run the jobs of the master.
OneScheduler == \A n, m \in jobs : n = m

NamedInv == CInv /\ NamedWereSeen /\ OrphansAreGone
OrphansInv == NamedInv /\ NewcomersAreUnused /\ ForeignersAreGone

\* Where the copies, the free workers and the identifiers of a scheduler come
\* from.
Follows(s, r) ==
  /\ DOMAIN r.free \subseteq DOMAIN s.free \union s.ids
  /\ r.ids \subseteq s.ids \union recorded
  /\ r.pc \in Distributing => \A t \in DOMAIN r.copies :
       \/ r.copies[t].worker = NoNode
       \/ s.pc \in Distributing /\ t \in DOMAIN s.copies /\ r.copies[t] = s.copies[t]
  /\ r.pc = "reassign" => r.ids = recorded \/ (s.pc = "reassign" /\ r.ids = s.ids)
  /\ r.pc = "giveBack" => \A t \in DOMAIN r.copies :
       \/ s.pc = "giveBack" /\ t \in DOMAIN s.copies /\ r.copies[t] = s.copies[t]
       \/ /\ s.pc = "reassign" /\ t \in Tasks /\ r.copies[t] = task[t]
          /\ task[t].worker \notin s.ids \union {NoNode}

\* A reset scheduler, and one that does not move, follow from any and itself.
LEMMA IdleFollows ==
  ASSUME NEW s
  PROVE  Follows(s, Idle) /\ Follows(s, s)
BY DEF Follows, Distributing, Idle

\* The steps of a scheduler follow.
LEMMA SchedulerFollows ==
  ASSUME TasksTypes, OnlyRunningWork, NEW n \in Nodes, Distribute(n) \/ Reassign(n)
  PROVE  \A k \in Nodes : Follows(sched[k], sched'[k])
<1> USE DEF TasksTypes
<1>1. sched[n] \in Schedulers /\ Idle \in Schedulers
  BY IdleTypes
<1>2. ASSUME NEW s, SchedulerStep(n, s), Follows(sched[n], s)
      PROVE  \A k \in Nodes : Follows(sched[k], sched'[k])
  BY <1>2, IdleFollows DEF SchedulerStep
<1>3. CASE readUnassigned(n)
  <2> DEFINE s == [Idle EXCEPT !.pc = "nodes", !.copies = copies(unassigned)]
  <2>1. s.pc = "nodes" /\ s.copies = copies(unassigned) /\ DOMAIN s.free = {} /\ s.ids = {}
    BY DEF Idle
  <2>2. SchedulerStep(n, s)
    BY <1>3 DEF readUnassigned
  <2> HIDE DEF s
  <2>3. Follows(sched[n], s)
    BY <2>1 DEF Follows, copies, unassigned
  <2>4. QED
    BY <1>2, <2>2, <2>3
<1>10. CASE readNodes(n)
  <2> DEFINE s == [sched[n] EXCEPT !.pc = "counting", !.ids = recorded]
  <2>1. s.pc = "counting" /\ s.copies = sched[n].copies /\ s.free = sched[n].free /\ s.ids = recorded
    BY <1>1 DEF Schedulers
  <2>2. SchedulerStep(n, s) /\ sched[n].pc = "nodes"
    BY <1>10 DEF readNodes
  <2> HIDE DEF s
  <2>3. Follows(sched[n], s)
    BY <2>1, <2>2 DEF Follows, Distributing
  <2>4. QED
    BY <1>2, <2>2, <2>3
<1>4. CASE countWorkers(n)
  <2>1. PICK m \in Nodes, s \in Schedulers :
          /\ m \in sched[n].ids /\ SchedulerStep(n, s) /\ UNCHANGED task
          /\ sched[n].pc = "counting" /\ s.pc \in {"counting", "assigning"}
          /\ s.copies = sched[n].copies
          /\ s.free = withNode(sched[n].free, m)
          /\ s.ids = sched[n].ids \ {m}
    BY <1>4, CountStep
  <2>2. DOMAIN s.free = DOMAIN sched[n].free \union {m}
    BY <2>1 DEF withNode
  <2>3. Follows(sched[n], s)
    BY <2>1, <2>2 DEF Follows, Distributing
  <2>4. QED
    BY <1>2, <2>1, <2>3
<1>5. CASE assign(n)
  <2> DEFINE free == sched[n].free
  <2>1. PICK t \in DOMAIN sched[n].copies, m \in DOMAIN free :
          \/ SchedulerStep(n, Idle)
          \/ SchedulerStep(n, [sched[n] EXCEPT !.copies = rest(sched[n].copies, t)])
          \/ \E f \in {free, [free EXCEPT ![m][PoolOf(t)] = @ - 1]} :
               SchedulerStep(n, [sched[n] EXCEPT !.copies = rest(sched[n].copies, t), !.free = f])
    BY <1>5 DEF assign
  <2>2. sched[n].pc = "assigning"
    BY <1>5, SchedulerIsMaster, ZenonT(60)
  <2>3. ASSUME NEW s, s.pc = "assigning", s.copies = rest(sched[n].copies, t),
               DOMAIN s.free = DOMAIN free, s.ids = sched[n].ids
        PROVE  Follows(sched[n], s)
    BY <2>2, <2>3 DEF Follows, Distributing, rest
  <2>4. Follows(sched[n], [sched[n] EXCEPT !.copies = rest(sched[n].copies, t)])
    BY <1>1, <2>2, <2>3 DEF Schedulers
  <2>5. ASSUME NEW f \in {free, [free EXCEPT ![m][PoolOf(t)] = @ - 1]}
        PROVE  Follows(sched[n], [sched[n] EXCEPT !.copies = rest(sched[n].copies, t), !.free = f])
    <3>1. DOMAIN f = DOMAIN free
      OBVIOUS
    <3> DEFINE s == [sched[n] EXCEPT !.copies = rest(sched[n].copies, t), !.free = f]
    <3>2. /\ s.pc = "assigning" /\ s.copies = rest(sched[n].copies, t)
          /\ s.free = f /\ s.ids = sched[n].ids
      BY <1>1, <2>2 DEF Schedulers
    <3> HIDE DEF s
    <3>3. Follows(sched[n], s)
      BY <2>3, <3>1, <3>2
    <3>4. QED
      BY <3>3 DEF s
  <2>6. QED
    BY <1>2, <2>1, <2>4, <2>5, IdleFollows
<1>6. CASE readNodeIds(n)
  <2> DEFINE s == [Idle EXCEPT !.pc = "reassign", !.ids = recorded]
  <2>1. s.pc = "reassign" /\ s.ids = recorded /\ DOMAIN s.free = {}
    BY DEF Idle
  <2>2. Follows(sched[n], s)
    BY <2>1 DEF Follows, Distributing
  <2>3. SchedulerStep(n, s)
    BY <1>6 DEF readNodeIds
  <2>4. QED
    BY <1>2, <2>2, <2>3
<1>7. CASE readUnknown(n)
  <2> DEFINE found == {t \in Tasks \ Regular :
                         /\ exists(t) /\ task[t].status # "complete"
                         /\ task[t].worker \notin sched[n].ids \union {NoNode}}
             s == [Idle EXCEPT !.pc = "giveBack", !.copies = copies(found)]
  <2>1. s.pc = "giveBack" /\ s.copies = copies(found) /\ DOMAIN s.free = {} /\ s.ids = {}
    BY DEF Idle
  <2>2. Follows(sched[n], s)
    BY <1>7, <2>1 DEF Follows, Distributing, copies, readUnknown
  <2>3. SchedulerStep(n, Idle) \/ SchedulerStep(n, s)
    BY <1>7 DEF readUnknown
  <2>4. QED
    BY <1>2, <2>2, <2>3, IdleFollows
<1>8. CASE giveBack(n)
  <2>1. PICK t \in DOMAIN sched[n].copies :
          \/ SchedulerStep(n, Idle)
          \/ SchedulerStep(n, [sched[n] EXCEPT !.copies = rest(sched[n].copies, t)])
    BY <1>8 DEF giveBack
  <2> DEFINE s == [sched[n] EXCEPT !.copies = rest(sched[n].copies, t)]
  <2>2. Follows(sched[n], s)
    <3>1. /\ s.pc = "giveBack" /\ s.copies = rest(sched[n].copies, t)
          /\ s.free = sched[n].free /\ s.ids = sched[n].ids
      BY <1>1, <1>8 DEF Schedulers, giveBack
    <3>2. QED
      BY <1>8, <3>1 DEF Follows, Distributing, rest, giveBack
  <2>3. QED
    BY <1>2, <2>1, <2>2, IdleFollows
<1>9. QED
  BY <1>3, <1>4, <1>5, <1>6, <1>7, <1>8, <1>10 DEF Distribute, Reassign

\* So does every step: the others do not touch the schedulers, or reset them.
LEMMA NextFollows ==
  ASSUME TasksTypes, OnlyRunningWork, [TasksNext]_allVars
  PROVE  \A k \in Nodes : Follows(sched[k], sched'[k])
<1>1. ASSUME UNCHANGED sched
      PROVE  \A k \in Nodes : Follows(sched[k], sched'[k])
  BY <1>1, IdleFollows
<1>2. CASE UNCHANGED allVars \/ Requests \/ \E x \in execs : Execute(x)
  <2>1. UNCHANGED sched
    BY <1>2 DEF allVars, taskVars, Requests, createTask, removeTask, Execute, begin, lookupFails,
       setProgress, restored, complete, setProgressDone, fail, noticeCancel, interrupt,
       ExecutorStep
  <2>2. QED
    BY <1>1, <2>1
<1>3. ASSUME NEW n \in Nodes, Listen(n) \/ Dispatch(n) \/ Membership(n)
      PROVE  UNCHANGED sched
  BY <1>3 DEF Listen, readOrphans, saveOrphan, handledByListeners, ListenerStep, Dispatch,
     pollAssigned, skipRemoved, saveWaiting, beginInline, Executes, letGo, Membership, taskVars
<1>4. ASSUME NEW n \in Nodes, terminateNode(n) \/ restartNode(n)
      PROVE  \A k \in Nodes : Follows(sched[k], sched'[k])
  BY <1>4, IdleFollows DEF TasksTypes, terminateNode, restartNode, forgetTasks
<1>5. QED
  BY <1>1, <1>2, <1>3, <1>4, SchedulerFollows DEF TasksNext

\* The worker of a record is replaced by nobody, by a node that the
\* distribution has counted, or by one that is working on the task.
LEMMA WorkerOrigin ==
  ASSUME TasksTypes, OnlyRunningWork, NamedWereSeen, [TasksNext]_allVars, NEW t \in Tasks
  PROVE  \/ task'[t].worker \in {task[t].worker, NoNode}
         \/ \E k \in Nodes : /\ sched[k].pc = "assigning" /\ k \in jobs
                             /\ task'[t].worker \in DOMAIN sched[k].free
         \/ task'[t].worker \in Nodes /\ hand[task'[t].worker] # NoTask
         \/ \E x \in execs : task'[t].worker = x.node
<1> USE DEF TasksTypes
<1>1. task[t] \in Records
  OBVIOUS
<1>2. CASE UNCHANGED task
  BY <1>2
<1>3. ASSUME NEW u \in Tasks, NEW r, Save(u, r)
      PROVE  task'[t] = IF t = u THEN r ELSE task[t]
  BY <1>3 DEF Save
<1>4. CASE Requests
  <2>1. ASSUME NEW u \in Tasks, createTask(u)
        PROVE  task'[t].worker \in {task[t].worker, NoNode}
    BY <2>1 DEF createTask, Save, Row
  <2>2. ASSUME NEW u \in Tasks, removeTask(u)
        PROVE  task'[t].worker = task[t].worker
    BY <1>1, <2>2 DEF removeTask, Records
  <2>3. QED
    BY <1>4, <2>1, <2>2 DEF Requests
<1>5. ASSUME NEW n \in Nodes, assign(n)
      PROVE  task'[t].worker \in {task[t].worker, NoNode} \union DOMAIN sched[n].free
  <2>1. PICK u \in DOMAIN sched[n].copies, m \in DOMAIN sched[n].free :
          Save(u, sched[n].copies[u]) \/ Save(u, [sched[n].copies[u] EXCEPT !.worker = m])
    BY <1>5 DEF assign
  <2>2. sched[n].pc = "assigning"
    BY <1>5, SchedulerIsMaster, ZenonT(60) DEF Distribute
  <2>3. u \in Tasks /\ sched[n].copies[u] \in Records /\ sched[n].copies[u].worker = NoNode
    BY <2>2, HeldCopies DEF NamedWereSeen, Distributing
  <2>4. CASE Save(u, sched[n].copies[u])
    BY <1>3, <2>3, <2>4
  <2>5. CASE Save(u, [sched[n].copies[u] EXCEPT !.worker = m])
    <3>1. [sched[n].copies[u] EXCEPT !.worker = m].worker = m
      BY <2>3 DEF Records
    <3>2. task'[t] = task[t] \/ task'[t] = [sched[n].copies[u] EXCEPT !.worker = m]
      BY <1>3, <2>3, <2>5
    <3>3. task'[t].worker = task[t].worker \/ task'[t].worker = m
      BY <3>1, <3>2
    <3>4. QED
      BY <3>3
  <2>6. QED
    BY <2>1, <2>4, <2>5
<1>6. ASSUME NEW n \in Nodes, giveBack(n)
      PROVE  task'[t].worker \in {task[t].worker, NoNode}
  <2>1. PICK u \in DOMAIN sched[n].copies : Save(u, givenBack(sched[n].copies[u]))
    BY <1>6 DEF giveBack
  <2>2. u \in Tasks /\ sched[n].copies[u] \in Records
    BY HeldCopies
  <2>3. givenBack(sched[n].copies[u]).worker = NoNode
    BY <2>2 DEF givenBack, Records
  <2>4. QED
    BY <1>3, <2>1, <2>2, <2>3
<1>7. ASSUME NEW n \in Nodes, saveOrphan(n)
      PROVE  task'[t].worker \in {task[t].worker, NoNode}
  <2>1. PICK u \in DOMAIN listen[n].copies : Save(u, givenBack(listen[n].copies[u]))
    BY <1>7 DEF saveOrphan
  <2>2. u \in Tasks /\ listen[n].copies[u] \in Records
    BY CopiesTypes DEF Listeners
  <2>3. givenBack(listen[n].copies[u]).worker = NoNode
    BY <2>2 DEF givenBack, Records
  <2>4. QED
    BY <1>3, <2>1, <2>2, <2>3
<1>8. ASSUME NEW n \in Nodes, NEW status, NEW pc, Executes(n, status, pc)
      PROVE  task'[t].worker = task[t].worker \/ (task'[t].worker = n /\ hand[n] # NoTask)
  <2>1. hand[n] \in Tasks /\ hand[n] # NoTask /\ Save(hand[n], Row(status, n, task[hand[n]].done))
    BY <1>8 DEF Executes
  <2>2. Row(status, n, task[hand[n]].done).worker = n
    BY DEF Row
  <2>3. QED
    BY <1>3, <2>1, <2>2
<1>9. ASSUME NEW x \in execs, Execute(x)
      PROVE  task'[t].worker \in {task[t].worker, NoNode, x.node}
  <2>3. x.done \in BOOLEAN
    BY DEF Executions
  <2>1. UNCHANGED task \/ \E w \in {NoNode, x.node}, s \in Statuses, d \in BOOLEAN : Save(x.task, Row(s, w, d))
    BY <1>9, <2>3 DEF Execute, begin, lookupFails, setProgress, restored, complete,
       setProgressDone, fail, noticeCancel, interrupt, ExecutorStep, Statuses
  <2>2. x.task \in Tasks /\ \A s, w, d : Row(s, w, d).worker = w
    BY DEF Executions, Row
  <2>4. QED
    BY <1>3, <2>1, <2>2
<1>10. ASSUME NEW n \in Nodes, restartNode(n)
       PROVE  task'[t].worker = task[t].worker
  BY <1>1, <1>10 DEF restartNode, Records
<1>11. ASSUME NEW n \in Nodes,
              \/ readUnassigned(n) \/ readNodes(n) \/ countWorkers(n) \/ readNodeIds(n)
              \/ readUnknown(n) \/ readOrphans(n) \/ handledByListeners(n) \/ pollAssigned(n)
              \/ skipRemoved(n) \/ terminateNode(n)
              \/ Membership(n)
       PROVE  UNCHANGED task
  BY <1>11 DEF readUnassigned, readNodes, countWorkers, readNodeIds, readUnknown, readOrphans,
     handledByListeners, pollAssigned, skipRemoved, terminateNode, Membership, taskVars
<1>12. ASSUME NEW n \in Nodes, assign(n)
       PROVE  sched[n].pc = "assigning" /\ n \in jobs
  <2>1. sched[n].pc = "assigning"
    BY <1>12, SchedulerIsMaster, ZenonT(60) DEF Distribute
  <2>2. QED
    BY <2>1 DEF OnlyRunningWork
<1>13. CASE UNCHANGED allVars
  BY <1>2, <1>13 DEF allVars, taskVars
<1>14. CASE \E x \in execs : Execute(x)
  BY <1>9, <1>14
<1>15. ASSUME NEW n \in Nodes, Distribute(n) \/ Reassign(n)
       PROVE  \/ task'[t].worker \in {task[t].worker, NoNode}
              \/ sched[n].pc = "assigning" /\ n \in jobs /\ task'[t].worker \in DOMAIN sched[n].free
  BY <1>5, <1>6, <1>11, <1>12, <1>15 DEF Distribute, Reassign
<1>16. ASSUME NEW n \in Nodes, Listen(n) \/ Dispatch(n) \/ terminateNode(n) \/ restartNode(n) \/ Membership(n)
       PROVE  \/ task'[t].worker \in {task[t].worker, NoNode}
              \/ task'[t].worker = n /\ hand[n] # NoTask
  BY <1>7, <1>8, <1>10, <1>11, <1>16 DEF Listen, Dispatch, saveWaiting, beginInline
<1>17. QED
  BY <1>4, <1>13, <1>14, <1>15, <1>16 DEF TasksNext

\* A dispatcher takes tasks of its node only, and starts what it has taken.
LEMMA WorkOrigin ==
  ASSUME TasksTypes, [TasksNext]_allVars, NEW m \in Nodes
  PROVE  /\ hand'[m] # NoTask => hand[m] # NoTask \/ \E t \in Tasks : task[t].worker = m
         /\ (\E x \in execs' : x.node = m) => hand[m] # NoTask \/ \E x \in execs : x.node = m
<1> USE DEF TasksTypes
<1>1. CASE UNCHANGED <<hand, execs>>
  BY <1>1
<1>2. ASSUME NEW n \in Nodes, pollAssigned(n)
      PROVE  /\ UNCHANGED execs
             /\ hand'[m] # NoTask => hand[m] # NoTask \/ \E t \in Tasks : task[t].worker = m
  BY <1>2 DEF pollAssigned, getAssignedTasks
<1>3. ASSUME NEW n \in Nodes, NEW status, NEW pc, Executes(n, status, pc)
      PROVE  /\ hand'[m] # NoTask => hand[m] # NoTask
             /\ \A x \in execs' : x \in execs \/ (x.node = n /\ hand[n] # NoTask)
  BY <1>3 DEF Executes, letGo
<1>9. ASSUME NEW n \in Nodes, skipRemoved(n)
      PROVE  UNCHANGED execs /\ (hand'[m] # NoTask => hand[m] # NoTask)
  BY <1>9 DEF skipRemoved, letGo
<1>4. ASSUME NEW n \in Nodes, terminateNode(n) \/ restartNode(n)
      PROVE  execs' \subseteq execs /\ (hand'[m] # NoTask => hand[m] # NoTask)
  BY <1>4 DEF terminateNode, restartNode, forgetTasks
<1>5. ASSUME NEW x \in execs, Execute(x)
      PROVE  UNCHANGED hand /\ \A y \in execs' : \E z \in execs : y.node = z.node
  <2>1. execs' = execs \/ ends(x) \/ \E pc : becomes(x, pc)
    BY <1>5 DEF Execute, begin, lookupFails, setProgress, restored, complete, setProgressDone,
       fail, noticeCancel, interrupt
  <2>2. \A pc : [x EXCEPT !.pc = pc].node = x.node
    BY DEF Executions
  <2>3. UNCHANGED hand
    BY <1>5 DEF Execute, begin, lookupFails, setProgress, restored, complete, setProgressDone,
       fail, noticeCancel, interrupt, ExecutorStep
  <2>4. QED
    BY <2>1, <2>2, <2>3 DEF ends, becomes
<1>6. ASSUME NEW n \in Nodes, Distribute(n) \/ Reassign(n) \/ Listen(n) \/ Membership(n)
      PROVE  UNCHANGED <<hand, execs>>
  BY <1>6 DEF Distribute, Reassign, readUnassigned, readNodes, countWorkers, assign, readNodeIds,
     readUnknown, giveBack, SchedulerStep, Listen, readOrphans, saveOrphan, handledByListeners,
     ListenerStep, Membership, taskVars
<1>7. CASE UNCHANGED allVars \/ Requests
  BY <1>1, <1>7 DEF allVars, taskVars, Requests, createTask, removeTask
<1>8. QED
  BY <1>1, <1>2, <1>3, <1>4, <1>5, <1>6, <1>7, <1>9 DEF TasksNext, Dispatch, saveWaiting,
     beginInline

\* A listener works on tasks of the instance whose end its node handles.
LEMMA ListenerOrigin ==
  ASSUME TasksTypes, [TasksNext]_allVars, NEW n \in Nodes, NEW t \in DOMAIN listen'[n].copies
  PROVE  \/ t \in DOMAIN listen[n].copies /\ listen'[n].copies[t] = listen[n].copies[t]
         \/ handler[n].pc # "idle" /\ listen'[n].copies[t].worker = handler[n].node
<1> USE DEF TasksTypes
<1>1. listen[n] \in Listeners /\ DOMAIN NotListening.copies = {}
  BY DEF NotListening, NoCopies, copies
<1>2. CASE UNCHANGED listen
  BY <1>2
<1>3. ASSUME NEW m \in Nodes, readOrphans(m)
      PROVE  \/ listen'[n] = listen[n]
             \/ handler[n].pc # "idle" /\ listen'[n].copies[t].worker = handler[n].node
  BY <1>3 DEF readOrphans, ListenerStep, copies, unfinished
<1>4. ASSUME NEW m \in Nodes, saveOrphan(m)
      PROVE  t \in DOMAIN listen[n].copies /\ listen'[n].copies[t] = listen[n].copies[t]
  <2>1. PICK u \in DOMAIN listen[m].copies : ListenerStep(m, [listen[m] EXCEPT !.copies = rest(@, u)])
    BY <1>4 DEF saveOrphan
  <2>2. CASE m = n
    <3>1. listen'[n].copies = rest(listen[n].copies, u)
      BY <1>1, <2>1, <2>2 DEF ListenerStep, Listeners
    <3>2. QED
      BY <3>1 DEF rest
  <2>3. CASE m # n
    BY <2>1, <2>3 DEF ListenerStep
  <2>4. QED
    BY <2>2, <2>3
<1>5. ASSUME NEW m \in Nodes, handledByListeners(m) \/ terminateNode(m) \/ restartNode(m)
      PROVE  listen'[n] = listen[n]
  <2>1. listen' = [listen EXCEPT ![m] = NotListening]
    BY <1>5 DEF handledByListeners, terminateNode, restartNode, forgetTasks
  <2>2. QED
    BY <1>1, <2>1
<1>6. ASSUME NEW m \in Nodes, Distribute(m) \/ Reassign(m) \/ Dispatch(m) \/ Membership(m)
      PROVE  UNCHANGED listen
  BY <1>6 DEF Distribute, Reassign, readUnassigned, readNodes, countWorkers, assign, readNodeIds,
     readUnknown, giveBack, SchedulerStep, Dispatch, pollAssigned, skipRemoved, saveWaiting,
     beginInline, Executes, letGo, Membership, taskVars
<1>7. CASE UNCHANGED allVars \/ Requests \/ \E x \in execs : Execute(x)
  BY <1>2, <1>7 DEF allVars, taskVars, Requests, createTask, removeTask, Execute, begin,
     lookupFails, setProgress, restored, complete, setProgressDone, fail, noticeCancel,
     interrupt, ExecutorStep
<1>8. QED
  BY <1>2, <1>3, <1>4, <1>5, <1>6, <1>7 DEF TasksNext, Listen

\* A terminated instance is what the event says that a handler works on.
LEMMA HandlerOrigin ==
  ASSUME TypeOK, [Next]_vars, NEW n \in Nodes
  PROVE  /\ todo'[n] \subseteq todo[n] \union events
         /\ handler'[n].pc # "idle" =>
              \/ handler[n].pc # "idle" /\ handler'[n].node = handler[n].node
              \/ \E e \in todo[n] : e.kind = "terminated" /\ handler'[n].node = e.node
<1> USE DEF TypeOK
<1>1. CASE UNCHANGED <<todo, handler>>
  BY <1>1
<1>2. ASSUME NEW m \in Nodes, terminate(m) \/ restart(m)
      PROVE  /\ todo'[n] \subseteq todo[n]
             /\ handler'[n] = handler[n] \/ handler'[n].pc = "idle"
  BY <1>2 DEF terminate, restart, forget, NotHandling
<1>3. ASSUME NEW m \in Nodes, poll(m) \/ handleOther(m)
      PROVE  UNCHANGED handler /\ todo'[n] \subseteq todo[n] \union events
  BY <1>3 DEF poll, handleOther
<1>4. ASSUME NEW m \in Nodes, handleTerminated(m)
      PROVE  /\ todo'[n] \subseteq todo[n]
             /\ \/ handler'[n] = handler[n]
                \/ \E e \in todo[n] : e.kind = "terminated" /\ handler'[n].node = e.node
  BY <1>4 DEF handleTerminated
<1>5. ASSUME NEW m \in Nodes, elect(m) \/ saveMaster(m) \/ masterNodeChanged(m)
      PROVE  /\ UNCHANGED todo
             /\ handler'[n].node = handler[n].node
             /\ handler[n].pc = "idle" => handler'[n].pc = "idle"
  BY <1>5 DEF elect, saveMaster, masterNodeChanged, HandlerStep
<1>6. ASSUME NEW m \in Nodes, handled(m)
      PROVE  UNCHANGED todo /\ (handler'[n] = handler[n] \/ handler'[n].pc = "idle")
  BY <1>6 DEF handled, NotHandling
<1>7. \/ UNCHANGED <<todo, handler>>
      \/ \E m \in Nodes : \/ terminate(m) \/ restart(m) \/ poll(m) \/ handleOther(m)
                          \/ handleTerminated(m) \/ elect(m) \/ saveMaster(m)
                          \/ masterNodeChanged(m) \/ handled(m)
  BY DEF Next, Environment, joinCluster, Publisher, receive, saveTerminated, deleteNode, Handler,
     Dispatcher, readNode, saveNode, masterStatusCheck, vars
<1>8. QED
  BY <1>1, <1>2, <1>3, <1>4, <1>5, <1>6, <1>7

\* An instance that ran has run, or its end is reported.
LEMMA SeenStays ==
  ASSUME TypeOK, GoneIsDown, [Next]_vars, NEW m \in Nodes, Seen(m)
  PROVE  Seen(m)'
<1>1. CASE Gone(m)
  BY <1>1, GoneStays DEF Seen
<1>2. CASE m \in up /\ m \notin up'
  <2>1. terminate(m)
    BY <1>2, UpChanges
  <2>2. QED
    BY <2>1 DEF terminate, Gone, Seen
<1>3. QED
  BY <1>1, <1>2 DEF Seen

\* Records are written by nodes that run.
LEMMA RecordOrigin ==
  ASSUME TypeOK, OnlyRunningAct, [Next]_vars, NEW m \in recorded'
  PROVE  m \in recorded \/ m \in up'
<1> USE DEF TypeOK, recorded
<1>1. CASE UNCHANGED row
  BY <1>1
<1>2. ASSUME NEW n \in Nodes, joinCluster(n) \/ deleteNode(n)
      PROVE  m \in recorded \/ m \in up'
  BY <1>2 DEF joinCluster, deleteNode
<1>3. ASSUME NEW n \in Nodes, saveMaster(n) \/ saveNode(n)
      PROVE  m \in recorded \/ m \in up'
  BY <1>3 DEF saveMaster, saveNode, HandlerStep, OnlyRunningAct
<1>4. \/ UNCHANGED row
      \/ \E n \in Nodes : joinCluster(n) \/ deleteNode(n) \/ saveMaster(n) \/ saveNode(n)
  BY DEF Next, Environment, terminate, restart, Publisher, receive, saveTerminated, Handler, poll,
     handleOther, handleTerminated, elect, masterNodeChanged, handled, Dispatcher, readNode,
     masterStatusCheck, tableVars, vars
<1>5. QED
  BY <1>1, <1>2, <1>3, <1>4

\* Whatever is named was seen, and is not forgotten.
LEMMA NextNamedWereSeen ==
  CInv /\ NamedWereSeen /\ [TasksNext]_allVars => NamedWereSeen'
<1> SUFFICES ASSUME CInv, NamedWereSeen, [TasksNext]_allVars
             PROVE  NamedWereSeen'
  OBVIOUS
<1>1. /\ TypeOK /\ GoneIsDown /\ OnlyRunningAct /\ [Next]_vars
      /\ TasksTypes /\ OnlyRunningWork /\ up \subseteq Nodes
  BY NextIsMembership DEF CInv, IInv, Tables, TypeOK
<1>2. \A m \in Nodes : Seen(m) => Seen(m)'
  BY <1>1, SeenStays
<1>3. ASSUME NEW m \in recorded'
      PROVE  Seen(m)'
  <2>1. m \in Nodes
    BY DEF recorded
  <2>2. QED
    BY <1>1, <1>2, <2>1, RecordOrigin DEF NamedWereSeen, Seen
<1>4. ASSUME NEW t \in Tasks, task'[t].worker # NoNode
      PROVE  Seen(task[t].worker)'
  <2> DEFINE w == task'[t].worker
  <2>1. PICK m : m = task'[t].worker
    OBVIOUS
  <2>2. TasksTypes'
    BY <1>1, NextTasksTypes
  <2>3. m \in Nodes
    BY <1>4, <2>1, <2>2 DEF TasksTypes, Records
  <2>4. Seen(m)
    <3>1. \/ m = task[t].worker
          \/ \E k \in Nodes : m \in DOMAIN sched[k].free
          \/ m \in up
      BY <1>1, <1>4, <2>1, WorkerOrigin DEF OnlyRunningWork
    <3>2. QED
      BY <1>4, <2>1, <3>1 DEF NamedWereSeen, Seen
  <2>5. Seen(m)'
    BY <1>2, <2>3, <2>4
  <2>6. QED
    BY <2>1, <2>5 DEF Seen, Gone, wasPublished
<1>5. ASSUME NEW n \in Nodes
      PROVE  /\ \A m \in DOMAIN sched'[n].free \union sched'[n].ids : Seen(m)'
             /\ sched'[n].pc \in Distributing =>
                  \A t \in DOMAIN sched'[n].copies : sched'[n].copies[t].worker = NoNode
  <2>1. Follows(sched[n], sched'[n])
    BY <1>1, NextFollows
  <2>2. DOMAIN sched[n].free \union sched[n].ids \subseteq Nodes /\ recorded \subseteq Nodes
    BY <1>1 DEF TasksTypes, Schedulers, Frees, recorded
  <2>3. \A m \in DOMAIN sched'[n].free \union sched'[n].ids : m \in Nodes /\ Seen(m)
    BY <2>1, <2>2 DEF Follows, NamedWereSeen
  <2>4. QED
    BY <1>2, <2>1, <2>3 DEF Follows, NamedWereSeen
<1>6. QED
  BY <1>3, <1>4, <1>5 DEF NamedWereSeen

\* What is handled is gone, and so are those whose tasks the listeners hold.
LEMMA NextOrphansAreGone ==
  CInv /\ OrphansAreGone /\ [TasksNext]_allVars => OrphansAreGone'
<1> SUFFICES ASSUME CInv, OrphansAreGone, [TasksNext]_allVars
             PROVE  OrphansAreGone'
  OBVIOUS
<1>1. TypeOK /\ GoneIsDown /\ [Next]_vars /\ TasksTypes
  BY NextIsMembership DEF CInv, IInv, Tables
<1>2. \A m : Gone(m) => m \in Nodes
  BY <1>1 DEF Gone, wasPublished, TypeOK, Events
<1>3. \A m : Gone(m) => Gone(m)'
  BY <1>1, <1>2, GoneStays
<1>4. ASSUME NEW n \in Nodes
      PROVE  /\ handler'[n].pc # "idle" => Gone(handler[n].node)'
             /\ \A e \in todo'[n] : e.kind = "terminated" => Gone(e.node)'
  <2>1. PICK m : m = handler'[n].node
    OBVIOUS
  <2>2. \A e \in events : e.kind = "terminated" => Gone(e.node)
    BY DEF Gone, wasPublished
  <2>3. handler'[n].pc # "idle" => Gone(m)
    BY <1>1, <2>1, HandlerOrigin DEF OrphansAreGone
  <2>4. handler'[n].pc # "idle" => Gone(m)'
    BY <1>3, <2>3
  <2>5. \A e \in todo'[n] : e.kind = "terminated" => Gone(e.node)
    BY <1>1, <2>2, HandlerOrigin DEF OrphansAreGone
  <2>6. QED
    BY <1>3, <2>1, <2>4, <2>5 DEF Gone, wasPublished
<1>5. ASSUME NEW n \in Nodes, NEW t \in DOMAIN listen'[n].copies
      PROVE  Gone(listen[n].copies[t].worker)'
  <2>1. PICK m : m = listen'[n].copies[t].worker
    OBVIOUS
  <2>2. Gone(m)
    BY <1>1, <2>1, ListenerOrigin DEF OrphansAreGone
  <2>3. Gone(m)'
    BY <1>3, <2>2
  <2>4. QED
    BY <2>1, <2>3 DEF Gone, wasPublished
<1>6. QED
  BY <1>4, <1>5 DEF OrphansAreGone, Gone, wasPublished

\* A node that joins, or that joined since the identifiers were read, is given
\* no task by a scheduler that is busy giving back.
LEMMA NextNewcomersAreUnused ==
  ASSUME OrphansInv, OneScheduler, [TasksNext]_allVars
  PROVE  NewcomersAreUnused'
<1>1. /\ TypeOK /\ GoneIsDown /\ UpIsRecorded /\ [Next]_vars
      /\ TasksTypes /\ OnlyRunningWork /\ NamedWereSeen
  BY NextIsMembership DEF OrphansInv, NamedInv, CInv, IInv, Tables
<1>2. ASSUME NEW n \in Nodes, sched'[n].pc = "reassign", NEW m \in up' \ sched'[n].ids
      PROVE  Unused(m)'
  <2>1. m \in Nodes
    BY <1>1, NextTypeOK DEF TypeOK
  <2>2. /\ Unused(m)
        /\ \A k \in Nodes : sched[k].pc = "assigning" /\ k \in jobs => m \notin DOMAIN sched[k].free
    <3>1. CASE m \notin up
      <4>1. joinCluster(m)
        BY <1>1, <2>1, <3>1, UpChanges
      <4>2. ~Seen(m)
        BY <3>1, <4>1 DEF Seen, Gone, wasPublished, joinCluster
      <4>3. m # NoNode
        BY <2>1, NodesAssumption DEF NodesAssumption
      <4>4. Unused(m)
        BY <1>1, <2>1, <3>1, <4>2, <4>3 DEF Unused, NamedWereSeen, OnlyRunningWork
      <4>5. QED
        BY <1>1, <4>2, <4>4 DEF NamedWereSeen
    <3>2. CASE m \in up
      <4>1. m \in recorded
        BY <1>1, <2>1, <3>2 DEF UpIsRecorded, recorded
      <4>2. sched[n].pc = "reassign" /\ sched'[n].ids = sched[n].ids
        BY <1>1, <1>2, <4>1, NextFollows DEF Follows
      <4>3. Unused(m)
        BY <1>2, <3>2, <4>2 DEF OrphansInv, NewcomersAreUnused
      <4>4. n \in jobs
        BY <1>1, <4>2 DEF OnlyRunningWork
      <4>5. QED
        BY <4>2, <4>3, <4>4 DEF OneScheduler
    <3>3. QED
      BY <3>1, <3>2
  <2>3. \A t \in Tasks : task'[t].worker # m
    <3>1. m # NoNode
      BY <2>1, NodesAssumption DEF NodesAssumption
    <3>2. QED
      BY <1>1, <2>2, <3>1, WorkerOrigin DEF Unused
  <2>4. hand'[m] = NoTask /\ \A x \in execs' : x.node # m
    BY <1>1, <2>1, <2>2, WorkOrigin DEF Unused
  <2>5. QED
    BY <2>3, <2>4 DEF Unused
<1>3. QED
  BY <1>2 DEF NewcomersAreUnused

\* A task with an unknown node belongs to one that is gone, or the node would
\* have joined and could have no task.
LEMMA NextForeignersAreGone ==
  ASSUME OrphansInv, [TasksNext]_allVars
  PROVE  ForeignersAreGone'
<1>1. TypeOK /\ GoneIsDown /\ [Next]_vars /\ TasksTypes /\ OnlyRunningWork
  BY NextIsMembership DEF OrphansInv, NamedInv, CInv, IInv, Tables
<1>2. \A m : Gone(m) => m \in Nodes
  BY <1>1 DEF Gone, wasPublished, TypeOK, Events
<1>3. ASSUME NEW n \in Nodes, sched'[n].pc = "giveBack", NEW t \in DOMAIN sched'[n].copies
      PROVE  Gone(sched[n].copies[t].worker)'
  <2>1. PICK m : m = sched'[n].copies[t].worker
    OBVIOUS
  <2>2. Gone(m)
    <3>1. CASE sched[n].pc = "giveBack" /\ t \in DOMAIN sched[n].copies /\ m = sched[n].copies[t].worker
      BY <3>1 DEF OrphansInv, ForeignersAreGone
    <3>2. CASE /\ sched[n].pc = "reassign" /\ t \in Tasks /\ m = task[t].worker
               /\ m \notin sched[n].ids \union {NoNode}
      <4>1. Seen(m)
        BY <3>2 DEF OrphansInv, NamedInv, NamedWereSeen
      <4>2. ~Unused(m)
        BY <3>2 DEF Unused
      <4>3. m \notin up
        BY <3>2, <4>2 DEF OrphansInv, NewcomersAreUnused
      <4>4. QED
        BY <4>1, <4>3 DEF Seen
    <3>3. QED
      BY <1>1, <1>3, <2>1, <3>1, <3>2, NextFollows DEF Follows
  <2>3. Gone(m)'
    BY <1>1, <1>2, <2>2, GoneStays
  <2>4. QED
    BY <2>1, <2>3 DEF Gone, wasPublished
<1>4. QED
  BY <1>3 DEF ForeignersAreGone, Gone, wasPublished

\* At the start no task has a worker, and only members have records.
LEMMA InitOrphansInv == TasksInit => OrphansInv
<1> SUFFICES ASSUME TasksInit
             PROVE  OrphansInv
  OBVIOUS
<1>1. CInv
  BY InitCInv
<1>2. \A n \in Nodes : /\ sched[n].pc = "idle" /\ DOMAIN sched[n].free = {}
                       /\ DOMAIN listen[n].copies = {}
  BY DEF TasksInit, Idle, NotListening, NoCopies, copies
<1>6. \A n \in Nodes : sched[n].ids = {}
  BY DEF TasksInit, Idle
<1>3. NamedWereSeen
  BY <1>2, <1>6, MembersAssumption
     DEF MembersAssumption, Distributing, NamedWereSeen, Seen, TasksInit, Init, recorded, Row
<1>4. OrphansAreGone
  BY <1>2 DEF OrphansAreGone, TasksInit, Init, NotHandling
<1>5. QED
  BY <1>1, <1>2, <1>3, <1>4 DEF OrphansInv, NamedInv, NewcomersAreUnused, ForeignersAreGone

\* What a node that is gone left is given back, and it is not running.
LEMMA GivenBackIsOrphaned ==
  ASSUME NamedInv
  PROVE  /\ \A n \in Nodes : \A t \in DOMAIN listen[n].copies : listen[n].copies[t].worker \notin up
         /\ ForeignersAreGone => OnlyOrphansGivenBack
<1>1. \A m : Gone(m) => m \notin up
  BY DEF NamedInv, CInv, IInv, Tables, TypeOK, GoneIsDown, Gone, wasPublished
<1>2. \A n \in Nodes : \A t \in DOMAIN listen[n].copies : listen[n].copies[t].worker \notin up
  BY <1>1 DEF NamedInv, OrphansAreGone
<1>3. QED
  BY <1>1, <1>2 DEF ForeignersAreGone, OnlyOrphansGivenBack

\* What holds whoever has the jobs of the master is inductive.
LEMMA NextNamedInv == NamedInv /\ [TasksNext]_allVars => NamedInv'
BY NextCInv, NextNamedWereSeen, NextOrphansAreGone DEF NamedInv

\* As long as no two nodes run the jobs of the master, only tasks of instances
\* that are gone are given back, by the master and by the listeners.  With two
\* it is not so: while one has read the identifiers of the nodes, the other may
\* give a task to a node that joined since.
THEOREM OneSchedulerFreesOrphansOnly == TasksSpec /\ []OneScheduler => []OnlyOrphansGivenBack
<1>1. OrphansInv /\ OneScheduler /\ [TasksNext]_allVars => OrphansInv'
  BY NextNamedInv, NextNewcomersAreUnused, NextForeignersAreGone DEF OrphansInv
<1>2. OrphansInv => OnlyOrphansGivenBack
  BY GivenBackIsOrphaned DEF OrphansInv
<1>3. QED
  BY <1>1, <1>2, InitOrphansInv, PTL DEF TasksSpec

\* The listeners give back tasks of instances that are gone only, whoever has
\* the jobs of the master.
ListenersFreeOrphansOnly ==
  \A n \in Nodes : \A t \in DOMAIN listen[n].copies : listen[n].copies[t].worker \notin up

\* No listener takes a task from a node that runs.
THEOREM ListenersAreRight == TasksSpec => []ListenersFreeOrphansOnly
<1>1. TasksInit => NamedInv
  BY InitOrphansInv DEF OrphansInv
<1>2. NamedInv => ListenersFreeOrphansOnly
  BY GivenBackIsOrphaned DEF ListenersFreeOrphansOnly
<1>3. QED
  BY <1>1, <1>2, NextNamedInv, PTL DEF TasksSpec

\* The first node has not been lost, or no instance was launched.
FirstOrAlone == FirstNode \in up \/ faults.launches = 0

\* Without launches, the identifiers that were read are those of all nodes.
IdsAreAll ==
  faults.launches = 0 =>
    \A n \in Nodes : sched[n].pc = "reassign" => up \subseteq sched[n].ids

\* Before a launch there was none, and without one no instance is added.
LEMMA LaunchesBefore ==
  ASSUME TypeOK, [Next]_vars, faults'.launches = 0
  PROVE  faults.launches = 0 /\ up' \subseteq up
<1> USE DEF TypeOK
<1>1. ASSUME NEW n \in Nodes, joinCluster(n)
      PROVE  FALSE
  BY <1>1 DEF joinCluster
<1>2. ASSUME NEW n \in Nodes, terminate(n) \/ restart(n)
      PROVE  faults'.launches = faults.launches
  BY <1>2 DEF terminate, restart
<1>3. UNCHANGED faults \/ \E n \in Nodes : Environment(n)
  BY DEF Next, Publisher, receive, saveTerminated, deleteNode, Handler, poll, handleOther,
     handleTerminated, elect, HandlerStep, saveMaster, masterNodeChanged, handled, Dispatcher,
     readNode, saveNode, masterStatusCheck, vars
<1>4. faults.launches = 0
  BY <1>1, <1>2, <1>3 DEF Environment
<1>5. up' \subseteq up
  BY <1>1, NextTypeOK, UpChanges
<1>6. QED
  BY <1>4, <1>5

\* The record of a running node is there when the identifiers are read.
LEMMA NextIdsAreAll ==
  ASSUME NamedInv, IdsAreAll, [TasksNext]_allVars
  PROVE  IdsAreAll'
<1>1. TypeOK /\ UpIsRecorded /\ [Next]_vars /\ TasksTypes /\ OnlyRunningWork
  BY NextIsMembership DEF NamedInv, CInv, IInv, Tables
<1>2. up \subseteq recorded
  BY <1>1 DEF UpIsRecorded, recorded, TypeOK
<1>3. ASSUME faults'.launches = 0, NEW n \in Nodes, sched'[n].pc = "reassign"
      PROVE  up' \subseteq sched'[n].ids
  <2>1. faults.launches = 0 /\ up' \subseteq up
    BY <1>1, <1>3, LaunchesBefore
  <2>2. sched'[n].ids = recorded \/ (sched[n].pc = "reassign" /\ sched'[n].ids = sched[n].ids)
    BY <1>1, <1>3, NextFollows DEF Follows
  <2>3. QED
    BY <1>2, <2>1, <2>2 DEF IdsAreAll
<1>4. QED
  BY <1>3 DEF IdsAreAll

\* The invariant of OneSchedulerFreesOrphansOnly holds until the first node is
\* lost in a cluster that has grown.
LEMMA NextFirstOrAlone ==
  ASSUME NamedInv, IdsAreAll, FirstOrAlone => OrphansInv, [TasksNext]_allVars, FirstOrAlone'
  PROVE  OrphansInv'
<1>1. TypeOK /\ MembersAreKnown /\ LeadersAreLow /\ [Next]_vars
  BY NextIsMembership DEF NamedInv, CInv, IInv, Tables
<1>2. OrphansInv
  BY <1>1, LaunchesBefore, MembersOnlyLeave DEF FirstOrAlone
<1>3. NamedInv' /\ ForeignersAreGone'
  BY <1>2, NextNamedInv, NextForeignersAreGone
<1>4. NewcomersAreUnused'
  <2>1. CASE FirstNode \in up
    <3>1. \A n \in jobs : n = FirstNode
      BY <1>1, <2>1 DEF LeadersAreLow, Leading, TypeOK
    <3>2. QED
      BY <1>2, <3>1, NextNewcomersAreUnused DEF OneScheduler
  <2>2. CASE faults'.launches = 0
    BY <2>2, NextIdsAreAll DEF IdsAreAll, NewcomersAreUnused
  <2>3. QED
    BY <1>1, <2>1, <2>2, MembersOnlyLeave DEF FirstOrAlone
<1>5. QED
  BY <1>3, <1>4 DEF OrphansInv

\* Until the first node is lost in a cluster that has grown, only tasks of
\* instances that are gone are given back.
THEOREM OrphansOnlyAreFreed == TasksSpec => [](FirstOrAlone => OnlyOrphansGivenBack)
<1>1. TasksInit => NamedInv /\ IdsAreAll /\ OrphansInv
  <2>1. TasksInit => IdsAreAll
    BY DEF TasksInit, IdsAreAll, Idle
  <2>2. QED
    BY <2>1, InitOrphansInv DEF OrphansInv
<1>2. NamedInv /\ IdsAreAll /\ (FirstOrAlone => OrphansInv) /\ [TasksNext]_allVars =>
        NamedInv' /\ IdsAreAll' /\ (FirstOrAlone => OrphansInv)'
  BY NextNamedInv, NextIdsAreAll, NextFirstOrAlone
<1>3. OrphansInv => OnlyOrphansGivenBack
  BY GivenBackIsOrphaned DEF OrphansInv
<1>4. QED
  BY <1>1, <1>2, <1>3, PTL DEF TasksSpec
=============================================================================
