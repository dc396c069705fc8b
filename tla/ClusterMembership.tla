------------------------- MODULE ClusterMembership -------------------------
(***************************************************************************)
(* The nodes of a cluster: the Nodes table, the Events table, the SQS      *)
(* queue in which AutoScaling reports terminated instances, and the four   *)
(* threads of every node that work on them:                                *)
(*   - AutoScalingEventListener takes messages and publishes terminations; *)
(*   - ClusterEventService polls the events and elects a new master;       *)
(*   - WorkersDispatcher rewrites the record of its own node;              *)
(*   - MasterServiceImpl's masterStatusCheck starts the master's jobs.     *)
(* Every access to a table is a step of its own, every save overwrites the *)
(* whole record.  What the listeners of an event do to tasks is the        *)
(* subject of module ClusterTasks, which composes with this one.           *)
(***************************************************************************)
EXTENDS Integers, FiniteSets

CONSTANTS
  Nodes,            \* instance identifiers, as numbers: the election orders them
  FirstNode,        \* the node that configured the cluster
  Members,          \* the nodes that are in the cluster at the start
  NoNode,           \* no node at all
  MaxTerminations,  \* bound: instances that AutoScaling terminates
  MaxLaunches,      \* bound: instances that AutoScaling adds
  MaxRestarts       \* bound: restarts of the program on some instance

ASSUME NodesAssumption   == Nodes \subseteq Nat /\ NoNode \notin Nodes
ASSUME MembersAssumption == FirstNode \in Members /\ Members \subseteq Nodes
ASSUME LimitsAssumption  == MaxTerminations \in Nat /\ MaxLaunches \in Nat /\ MaxRestarts \in Nat

VARIABLES
  up,           \* the instances that run
  row,          \* the Nodes table: whether a record exists, and its field master
  copy,         \* the record of its own node that a dispatcher is about to save
  jobs,         \* the nodes whose schedulers run the master's jobs
  inbox,        \* terminated instances with a message in the queue
  events,       \* the Events table
  clock,        \* System.currentTimeMillis, in steps
  publisher,    \* AutoScalingEventListener of each node
  lastCheck,    \* lastCheckTime of each ClusterEventService
  todo,         \* the events it has read and not handled yet
  handler,      \* where it is with the event it handles
  faults        \* terminations, launches and restarts so far

tableVars == <<row, events>>
vars == <<up, row, copy, jobs, inbox, events, clock, publisher, lastCheck, todo,
          handler, faults>>

Rows       == {"none", "member", "master"}
Kinds      == {"launched", "terminated", "masterChanged"}
Events     == [kind : Kinds, node : Nodes, time : Nat]
HandlerPcs == {"idle", "noMaster", "elected", "saved", "listeners"}

NotPublishing == [pc |-> "idle", node |-> NoNode, time |-> 0]
NotHandling   == [pc |-> "idle", node |-> NoNode, time |-> 0]

masters   == {n \in Nodes : row[n] = "master"}
recorded  == {n \in Nodes : row[n] # "none"}
lowest(n) == n \in recorded /\ \A m \in recorded : n <= m

-----------------------------------------------------------------------------
Init ==
  /\ up        = Members
  /\ row       = [n \in Nodes |-> IF n = FirstNode THEN "master"
                                  ELSE IF n \in Members THEN "member" ELSE "none"]
  /\ copy      = [n \in Nodes |-> "none"]
  /\ jobs      = {FirstNode}
  /\ inbox     = {}
  /\ events    = {}
  /\ clock     = 1
  /\ publisher = [n \in Nodes |-> NotPublishing]
  /\ lastCheck = [n \in Nodes |-> 0]
  /\ todo      = [n \in Nodes |-> {}]
  /\ handler   = [n \in Nodes |-> NotHandling]
  /\ faults    = [terminations |-> 0, launches |-> 0, restarts |-> 0]

-----------------------------------------------------------------------------
(* Instances come and go                                                   *)

\* Everything in the memory of the node is lost.
forget(n) ==
  /\ copy'      = [copy EXCEPT ![n] = "none"]
  /\ publisher' = [publisher EXCEPT ![n] = NotPublishing]
  /\ todo'      = [todo EXCEPT ![n] = {}]
  /\ handler'   = [handler EXCEPT ![n] = NotHandling]

\* AutoScaling terminates an instance and reports it.
terminate(n) ==
  /\ n \in up
  /\ faults.terminations < MaxTerminations
  /\ faults' = [faults EXCEPT !.terminations = @ + 1]
  /\ up'     = up \ {n}
  /\ jobs'   = jobs \ {n}
  /\ inbox'  = inbox \union {n}
  /\ forget(n)
  /\ UNCHANGED <<row, events, clock, lastCheck>>

\* ClusterEventService starts with the events of the last five minutes: what
\* is in the table is younger than that, or older.
startsAt == {0, clock}

\* ClusterConfigurationServiceImpl.joinCluster
joinCluster(n) ==
  /\ n \notin up
  /\ row[n] = "none"
  /\ n \notin inbox
  /\ \A e \in events : e.kind = "terminated" => e.node # n
  /\ faults.launches < MaxLaunches
  /\ faults' = [faults EXCEPT !.launches = @ + 1]
  /\ up'     = up \union {n}
  /\ row'    = [row EXCEPT ![n] = "member"]
  /\ clock'  = clock + 1
  /\ events' = events \union {[kind |-> "launched", node |-> n, time |-> clock]}
  /\ \E since \in startsAt : lastCheck' = [lastCheck EXCEPT ![n] = since]
  /\ UNCHANGED <<copy, jobs, inbox, publisher, todo, handler>>

\* The program starts again on an instance that has its record: init of
\* ClusterConfigurationServiceImpl changes nothing, MasterServiceImpl.init
\* starts the jobs if the record says so.
restart(n) ==
  /\ n \in up
  /\ faults.restarts < MaxRestarts
  /\ faults' = [faults EXCEPT !.restarts = @ + 1]
  /\ forget(n)
  /\ jobs' = IF row[n] = "master" THEN jobs \union {n} ELSE jobs \ {n}
  /\ \E since \in startsAt : lastCheck' = [lastCheck EXCEPT ![n] = since]
  /\ UNCHANGED <<up, row, inbox, events, clock>>

-----------------------------------------------------------------------------
(* AutoScalingEventListener and ClusterEventPublisherImpl.nodeTerminated   *)

wasPublished(d) == \E e \in events : e.kind = "terminated" /\ e.node = d

\* A message whose event is not in the table yet: the time is taken first.
\* A message that was published is left in the queue and changes nothing.
receive(n, d) ==
  /\ n \in up
  /\ d \in inbox
  /\ publisher[n].pc = "idle"
  /\ ~wasPublished(d)
  /\ row[d] # "none"
  /\ clock'     = clock + 1
  /\ publisher' = [publisher EXCEPT ![n] = [pc |-> "timed", node |-> d, time |-> clock]]
  /\ UNCHANGED <<up, row, copy, jobs, inbox, events, lastCheck, todo, handler, faults>>

\* The event's key is the id of the message: a second save replaces the first.
saveTerminated(n) ==
  /\ publisher[n].pc = "timed"
  /\ LET d == publisher[n].node IN
       events' = {e \in events : ~(e.kind = "terminated" /\ e.node = d)}
                 \union {[kind |-> "terminated", node |-> d, time |-> publisher[n].time]}
  /\ publisher' = [publisher EXCEPT ![n].pc = "saved"]
  /\ UNCHANGED <<up, row, copy, jobs, inbox, clock, lastCheck, todo, handler, faults>>

\* The record of the node goes, and the message.
deleteNode(n) ==
  /\ publisher[n].pc = "saved"
  /\ row'       = [row EXCEPT ![publisher[n].node] = "none"]
  /\ inbox'     = inbox \ {publisher[n].node}
  /\ publisher' = [publisher EXCEPT ![n] = NotPublishing]
  /\ UNCHANGED <<up, copy, jobs, events, clock, lastCheck, todo, handler, faults>>

-----------------------------------------------------------------------------
(* ClusterEventService.iterate                                             *)

\* Deviation: only the newest event is read.
pollNewest(n) ==
  /\ n \in up
  /\ handler[n].pc = "idle"
  /\ todo[n] = {}
  /\ \E e \in events :
       /\ e.time > lastCheck[n]
       /\ \A f \in events : f.time <= e.time
       /\ todo' = [todo EXCEPT ![n] = {e}]
  /\ UNCHANGED <<up, row, copy, jobs, inbox, events, clock, publisher, lastCheck,
                 handler, faults>>

poll(n) ==
  /\ n \in up
  /\ handler[n].pc = "idle"
  /\ todo[n] = {}
  /\ todo' = [todo EXCEPT ![n] = {e \in events : e.time > lastCheck[n]}]
  /\ todo'[n] # {}
  /\ UNCHANGED <<up, row, copy, jobs, inbox, events, clock, publisher, lastCheck,
                 handler, faults>>

later(s, t) == IF t > s THEN t ELSE s

advance(n, t) == lastCheck' = [lastCheck EXCEPT ![n] = later(@, t)]

\* Events that touch neither the tables nor the election.
handleOther(n) ==
  /\ n \in up
  /\ handler[n].pc = "idle"
  /\ \E e \in todo[n] :
       /\ e.kind # "terminated"
       /\ todo' = [todo EXCEPT ![n] = @ \ {e}]
       /\ advance(n, e.time)
  /\ UNCHANGED <<up, row, copy, jobs, inbox, events, clock, publisher, handler, faults>>

\* Deviation: the masters are not looked up.
mastersUnread(n, pc) == pc = "noMaster"

\* Whether the table names a master is read first.
mastersRead(n, pc) == pc = IF masters = {} THEN "noMaster" ELSE "listeners"

handleTerminated(n) ==
  /\ n \in up
  /\ handler[n].pc = "idle"
  /\ \E e \in todo[n], pc \in HandlerPcs :
       /\ e.kind = "terminated"
       /\ mastersRead(n, pc)
       /\ todo'    = [todo EXCEPT ![n] = @ \ {e}]
       /\ handler' = [handler EXCEPT ![n] = [pc |-> pc, node |-> e.node, time |-> e.time]]
  /\ UNCHANGED <<up, row, copy, jobs, inbox, events, clock, publisher, lastCheck, faults>>

HandlerStep(n, from, to) ==
  /\ handler[n].pc = from
  /\ handler' = [handler EXCEPT ![n].pc = to]
  /\ UNCHANGED <<up, copy, jobs, inbox, publisher, lastCheck, todo, faults>>

\* The node with the lowest identifier becomes the master.  masterService.init
\* runs before the record is saved: it reads a member and starts nothing.
elect(n) ==
  /\ \/ HandlerStep(n, "noMaster", "elected") /\ lowest(n)
     \/ HandlerStep(n, "noMaster", "listeners") /\ ~lowest(n)
  /\ UNCHANGED <<tableVars, clock>>

\* Deviation: the record is saved as it was read.
saveMasterUnset(n) ==
  /\ HandlerStep(n, "elected", "saved")
  /\ row' = [row EXCEPT ![n] = "member"]
  /\ UNCHANGED <<events, clock>>

saveMaster(n) ==
  /\ HandlerStep(n, "elected", "saved")
  /\ row' = [row EXCEPT ![n] = "master"]
  /\ UNCHANGED <<events, clock>>

masterNodeChanged(n) ==
  /\ HandlerStep(n, "saved", "listeners")
  /\ clock'  = clock + 1
  /\ events' = events \union {[kind |-> "masterChanged", node |-> n, time |-> clock]}
  /\ UNCHANGED row

\* The listeners have run, and the event counts as seen.
handled(n) ==
  /\ handler[n].pc = "listeners"
  /\ advance(n, handler[n].time)
  /\ handler' = [handler EXCEPT ![n] = NotHandling]
  /\ UNCHANGED <<up, row, copy, jobs, inbox, events, clock, publisher, todo, faults>>

-----------------------------------------------------------------------------
(* The dispatcher's update of its node, and the check of the master        *)

readNode(n) ==
  /\ n \in up
  /\ copy[n] = "none"
  /\ copy' = [copy EXCEPT ![n] = row[n]]
  /\ UNCHANGED <<up, row, jobs, inbox, events, clock, publisher, lastCheck, todo,
                 handler, faults>>

saveNode(n) ==
  /\ copy[n] # "none"
  /\ row'  = [row EXCEPT ![n] = copy[n]]
  /\ copy' = [copy EXCEPT ![n] = "none"]
  /\ UNCHANGED <<up, jobs, inbox, events, clock, publisher, lastCheck, todo,
                 handler, faults>>

\* masterStatusCheck calls MasterServiceImpl.init once the record says master.
masterStatusCheck(n) ==
  /\ n \in up
  /\ n \notin jobs
  /\ row[n] = "master"
  /\ jobs' = jobs \union {n}
  /\ UNCHANGED <<up, row, copy, inbox, events, clock, publisher, lastCheck, todo,
                 handler, faults>>

-----------------------------------------------------------------------------
Environment(n) == terminate(n) \/ joinCluster(n) \/ restart(n)
Publisher(n)   == (\E d \in Nodes : receive(n, d)) \/ saveTerminated(n) \/ deleteNode(n)
Handler(n)     == \/ poll(n) \/ handleOther(n) \/ handleTerminated(n) \/ elect(n)
                  \/ saveMaster(n) \/ masterNodeChanged(n) \/ handled(n)
Dispatcher(n)  == readNode(n) \/ saveNode(n)

Next ==
  \E n \in Nodes :
    Environment(n) \/ Publisher(n) \/ Handler(n) \/ Dispatcher(n) \/ masterStatusCheck(n)

Spec == Init /\ [][Next]_vars

\* The polling loops of a node that runs go on; AutoScaling owes nothing.
Fairness ==
  \A n \in Nodes :
    WF_vars(Publisher(n)) /\ WF_vars(Handler(n)) /\ WF_vars(masterStatusCheck(n))

FairSpec == Spec /\ Fairness

-----------------------------------------------------------------------------
(* Properties                                                              *)

TypeOK ==
  /\ up \subseteq Nodes
  /\ row \in [Nodes -> Rows]
  /\ copy \in [Nodes -> Rows]
  /\ jobs \subseteq up
  /\ inbox \subseteq Nodes \ up
  /\ events \subseteq Events
  /\ clock \in Nat
  /\ publisher \in [Nodes -> [pc : {"idle", "timed", "saved"}, node : Nodes \union {NoNode}, time : Nat]]
  /\ \A n \in Nodes : publisher[n].pc = "idle" <=> publisher[n].node = NoNode
  /\ lastCheck \in [Nodes -> Nat]
  /\ todo \in [Nodes -> SUBSET Events]
  /\ handler \in [Nodes -> [pc : HandlerPcs, node : Nodes \union {NoNode}, time : Nat]]
  /\ faults \in [terminations : Nat, launches : Nat, restarts : Nat]

\* A node acts as master, or is about to.
Leading(n) ==
  n \in up /\ (n \in jobs \/ row[n] = "master" \/ copy[n] = "master" \/ handler[n].pc = "elected")

\* The cluster has one master at a time (ClusterEventService warns of more):
\* whatever elections, stale rewrites of node records and restarts do, two
\* running nodes lead only if the lower one was launched after the start.
OneMaster ==
  \A n, m \in Nodes : Leading(n) /\ Leading(m) /\ n < m => n \notin Members

\* An event that is newer than the last one an idle node has handled is read by
\* that node: handling its batch never lets lastCheckTime jump over it.
EventIsRead ==
  \A n, d \in Nodes, k \in {"launched", "terminated"} :
    LET Of(S) == \E e \in S : e.kind = k /\ e.node = d /\ e.time > lastCheck[n]
    IN (n \in up /\ handler[n].pc = "idle" /\ todo[n] = {} /\ Of(events))
         ~> (Of(todo[n]) \/ n \notin up \/ faults.restarts > 0)

\* The dead master is replaced: a node that finds a termination in its hands
\* while no record names a master and its own identifier is the lowest ends
\* up as the recorded master, although its own dispatcher may undo that later.
LowestTakesOver ==
  \A n \in Nodes :
    (n \in up /\ masters = {} /\ lowest(n) /\ handler[n].pc = "idle"
       /\ \E e \in todo[n] : e.kind = "terminated")
      ~> (masters # {} \/ n \notin up \/ ~lowest(n) \/ faults.restarts > 0)

\* What the election is for: a cluster whose master is gone gets another one
\* that has the jobs.  It does not hold: the dispatcher of the new master may
\* save a copy of the node's record that it read before the election.
MasterIsReplaced ==
  \A n \in Nodes : (n \in up /\ jobs = {}) ~> (jobs # {} \/ n \notin up)
=============================================================================
