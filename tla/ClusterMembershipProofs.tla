----------------------- MODULE ClusterMembershipProofs -----------------------
(***************************************************************************)
(* One master at a time, for every set of nodes, every choice of the first *)
(* node and of the members, and any number of terminations, launches and   *)
(* restarts.                                                               *)
(*                                                                         *)
(* OneMaster says nothing of how a node came to lead.  What carries the    *)
(* induction is LeadersAreLow: a node other than the first one leads only  *)
(* after the first one is gone, and no member that runs is below it.  It   *)
(* rests on three facts about the tables: a terminated instance never runs *)
(* again, a running one keeps its record, and while the first node runs    *)
(* its record and every copy of it say that it is the master, so that no   *)
(* election starts.                                                        *)
(***************************************************************************)
EXTENDS ClusterMembership, TLAPS

\* Its termination was reported: the message is in the queue, or the event is
\* in the table.
Gone(d) == d \in inbox \/ wasPublished(d)

\* Only a node that runs has copies, messages or events in its hands.
OnlyRunningAct ==
  \A n \in Nodes \ up :
    copy[n] = "none" /\ publisher[n].pc = "idle" /\ handler[n].pc = "idle"

\* What was reported terminated does not run, and only that is published.
GoneIsDown ==
  /\ \A d \in Nodes : Gone(d) => d \notin up
  /\ \A n \in Nodes : publisher[n].pc # "idle" => Gone(publisher[n].node)
  /\ \A n \in Nodes : publisher[n].pc = "saved" => wasPublished(publisher[n].node)

\* A member that stopped running was reported, so it is never launched again.
MembersAreKnown == \A n \in Members : n \in up \/ Gone(n)

\* No record of a running node is deleted, so the election sees all of them.
UpIsRecorded == \A n \in up : row[n] # "none"

\* While the first node runs, its record and the dispatcher's copy of it agree.
FirstLeads ==
  FirstNode \in up => row[FirstNode] = "master" /\ copy[FirstNode] \in {"none", "master"}

\* No election while the first node runs.
ElectedAfterFirst ==
  \A n \in Nodes : handler[n].pc \in {"noMaster", "elected"} => FirstNode \notin up

\* Whoever took over from the first node is below every member that runs.
LeadersAreLow ==
  \A n \in Nodes : n # FirstNode /\ Leading(n) =>
    FirstNode \notin up /\ \A m \in up \cap Members : n <= m

Tables == OnlyRunningAct /\ GoneIsDown /\ MembersAreKnown /\ UpIsRecorded

IInv == TypeOK /\ Tables /\ FirstLeads /\ ElectedAfterFirst /\ LeadersAreLow

-----------------------------------------------------------------------------
(* Type correctness                                                        *)

\* The initial state is of its type.
LEMMA InitTypeOK == Init => TypeOK
BY NodesAssumption, MembersAssumption
   DEF NodesAssumption, MembersAssumption, Init, TypeOK, Rows, NotPublishing, NotHandling, HandlerPcs

\* What the threads of a node keep in memory, apart from the rest of TypeOK.
MemoryTypes ==
  /\ copy \in [Nodes -> Rows]
  /\ publisher \in [Nodes -> [pc : {"idle", "timed", "saved"}, node : Nodes \union {NoNode}, time : Nat]]
  /\ \A n \in Nodes : publisher[n].pc = "idle" <=> publisher[n].node = NoNode
  /\ todo \in [Nodes -> SUBSET Events]
  /\ handler \in [Nodes -> [pc : HandlerPcs, node : Nodes \union {NoNode}, time : Nat]]

\* What an instance forgets when it ends or starts again is of its type.
LEMMA ForgetTypes ==
  ASSUME TypeOK, NEW n \in Nodes, forget(n)
  PROVE  MemoryTypes'
BY DEF TypeOK, MemoryTypes, forget, Rows, NotPublishing, NotHandling, HandlerPcs

\* Instances that come and go keep the types.
LEMMA EnvironmentTypeOK ==
  ASSUME TypeOK, NEW n \in Nodes, Environment(n)
  PROVE  TypeOK'
<1> USE DEF TypeOK
<1>1. CASE terminate(n)
  <2>1. MemoryTypes'
    BY <1>1, ForgetTypes DEF terminate
  <2>2. faults' \in [terminations : Nat, launches : Nat, restarts : Nat]
    BY <1>1 DEF terminate
  <2>3. up' \subseteq Nodes /\ jobs' \subseteq up' /\ inbox' \subseteq Nodes \ up'
    BY <1>1 DEF terminate
  <2>4. QED
    BY <1>1, <2>1, <2>2, <2>3 DEF terminate, MemoryTypes
<1>2. CASE joinCluster(n)
  BY <1>2 DEF joinCluster, startsAt, Rows, Events, Kinds
<1>3. CASE restart(n)
  <2>1. MemoryTypes'
    BY <1>3, ForgetTypes DEF restart
  <2>2. faults' \in [terminations : Nat, launches : Nat, restarts : Nat]
    BY <1>3 DEF restart
  <2>3. jobs' \subseteq up' /\ lastCheck' \in [Nodes -> Nat]
    BY <1>3 DEF restart, startsAt
  <2>4. QED
    BY <1>3, <2>1, <2>2, <2>3 DEF restart, MemoryTypes
<1>4. QED
  BY <1>1, <1>2, <1>3 DEF Environment

\* The listener of the queue keeps the types: it names a node while it works.
LEMMA PublisherTypeOK ==
  ASSUME TypeOK, NEW n \in Nodes, Publisher(n)
  PROVE  TypeOK'
<1> USE DEF TypeOK
<1>1. CASE \E d \in Nodes : receive(n, d)
  BY <1>1, NodesAssumption DEF NodesAssumption, receive
<1>2. CASE saveTerminated(n)
  <2>1. publisher[n].node \in Nodes /\ publisher[n].time \in Nat
    BY <1>2 DEF saveTerminated
  <2>2. events' \subseteq Events
    BY <1>2, <2>1 DEF saveTerminated, Events, Kinds
  <2>3. QED
    BY <1>2, <2>2 DEF saveTerminated
<1>3. CASE deleteNode(n)
  BY <1>3 DEF deleteNode, Rows, NotPublishing
<1>4. QED
  BY <1>1, <1>2, <1>3 DEF Publisher

\* Reading and handling events keeps the types.
LEMMA HandlerTypeOK ==
  ASSUME TypeOK, NEW n \in Nodes, Handler(n)
  PROVE  TypeOK'
<1> USE DEF TypeOK
<1>1. CASE poll(n)
  BY <1>1 DEF poll
<1>2. CASE handleOther(n)
  BY <1>2 DEF handleOther, advance, later, Events
<1>3. CASE handleTerminated(n)
  BY <1>3 DEF handleTerminated, Events
<1>4. CASE elect(n)
  BY <1>4, SMTT(30) DEF elect, HandlerStep, HandlerPcs, tableVars
<1>5. CASE saveMaster(n)
  BY <1>5 DEF saveMaster, HandlerStep, HandlerPcs, Rows
<1>6. CASE masterNodeChanged(n)
  BY <1>6 DEF masterNodeChanged, HandlerStep, HandlerPcs, Events, Kinds
<1>7. CASE handled(n)
  BY <1>7 DEF handled, advance, later, NotHandling, HandlerPcs
<1>8. QED
  BY <1>1, <1>2, <1>3, <1>4, <1>5, <1>6, <1>7 DEF Handler

\* Every step keeps the types.
LEMMA NextTypeOK == TypeOK /\ [Next]_vars => TypeOK'
<1> SUFFICES ASSUME TypeOK, [Next]_vars
             PROVE  TypeOK'
  OBVIOUS
<1>1. CASE UNCHANGED vars
  BY <1>1 DEF TypeOK, vars
<1>2. ASSUME NEW n \in Nodes, Dispatcher(n) \/ masterStatusCheck(n)
      PROVE  TypeOK'
  <2> USE DEF TypeOK
  <2>1. CASE readNode(n)
    BY <2>1 DEF readNode
  <2>2. CASE saveNode(n)
    BY <2>2 DEF saveNode, Rows
  <2>3. CASE masterStatusCheck(n)
    BY <2>3 DEF masterStatusCheck
  <2>4. QED
    BY <1>2, <2>1, <2>2, <2>3 DEF Dispatcher
<1>3. QED
  BY <1>1, <1>2, EnvironmentTypeOK, PublisherTypeOK, HandlerTypeOK DEF Next

\* Every state is well typed: only running nodes have the master's jobs, and
\* reported instances do not run.
THEOREM TypeCorrectness == Spec => []TypeOK
BY InitTypeOK, NextTypeOK, PTL DEF Spec

-----------------------------------------------------------------------------
(* What the tables say of the instances                                    *)

\* A published termination stays published: a second save of the event has the
\* same key, kind and node.
LEMMA PublishedStays ==
  ASSUME TypeOK, [Next]_vars, NEW d \in Nodes, wasPublished(d)
  PROVE  wasPublished(d)'
<1> USE DEF wasPublished
<1>1. CASE UNCHANGED events
  BY <1>1
<1>2. ASSUME NEW n \in Nodes, joinCluster(n) \/ masterNodeChanged(n)
      PROVE  wasPublished(d)'
  BY <1>2 DEF joinCluster, masterNodeChanged
<1>3. ASSUME NEW n \in Nodes, saveTerminated(n)
      PROVE  wasPublished(d)'
  <2> DEFINE new == [kind |-> "terminated", node |-> publisher[n].node, time |-> publisher[n].time]
  <2>1. new \in events' /\ new.kind = "terminated" /\ new.node = publisher[n].node
    BY <1>3 DEF saveTerminated
  <2>2. CASE publisher[n].node = d
    BY <2>1, <2>2
  <2>3. CASE publisher[n].node # d
    BY <1>3, <2>3 DEF saveTerminated
  <2>4. QED
    BY <2>2, <2>3
<1>4. QED
  <2>1. UNCHANGED events \/ \E n \in Nodes : joinCluster(n) \/ masterNodeChanged(n) \/ saveTerminated(n)
    BY DEF Next, Environment, terminate, restart, Publisher, receive, deleteNode, Handler, poll,
       handleOther, handleTerminated, elect, saveMaster, handled, Dispatcher, readNode, saveNode,
       masterStatusCheck, tableVars, vars
  <2>2. QED
    BY <1>1, <1>2, <1>3, <2>1

\* A reported termination stays reported: the message goes after the event.
LEMMA GoneStays ==
  ASSUME TypeOK, GoneIsDown, [Next]_vars, NEW d \in Nodes, Gone(d)
  PROVE  Gone(d)'
<1>1. CASE wasPublished(d)
  BY <1>1, PublishedStays DEF Gone
<1>2. CASE d \in inbox /\ ~wasPublished(d)
  <2>1. ASSUME NEW n \in Nodes, deleteNode(n)
        PROVE  d # publisher[n].node
    BY <1>2, <2>1 DEF deleteNode, GoneIsDown
  <2>2. inbox \subseteq inbox' \/ \E n \in Nodes : deleteNode(n)
    BY DEF Next, Environment, terminate, joinCluster, restart, Publisher, receive, saveTerminated,
       Handler, poll, handleOther, handleTerminated, elect, HandlerStep, saveMaster,
       masterNodeChanged, handled, Dispatcher, readNode, saveNode, masterStatusCheck, vars
  <2>3. QED
    BY <1>2, <2>1, <2>2 DEF Gone, deleteNode
<1>3. QED
  BY <1>1, <1>2 DEF Gone

\* Nothing is reported terminated but what is terminated in this step, or was
\* reported before.
LEMMA GoneOrigin ==
  ASSUME TypeOK, GoneIsDown, [Next]_vars, NEW d \in Nodes, Gone(d)'
  PROVE  Gone(d) \/ terminate(d)
<1>1. CASE d \in inbox'
  BY <1>1 DEF Gone, Next, Environment, terminate, joinCluster, restart, Publisher, receive,
     saveTerminated, deleteNode, Handler, poll, handleOther, handleTerminated, elect, HandlerStep,
     saveMaster, masterNodeChanged, handled, Dispatcher, readNode, saveNode, masterStatusCheck,
     vars
<1>2. CASE wasPublished(d)'
  <2>1. CASE UNCHANGED events
    BY <1>2, <2>1 DEF Gone, wasPublished
  <2>2. ASSUME NEW n \in Nodes, joinCluster(n) \/ masterNodeChanged(n)
        PROVE  Gone(d)
    BY <1>2, <2>2 DEF Gone, wasPublished, joinCluster, masterNodeChanged
  <2>3. ASSUME NEW n \in Nodes, saveTerminated(n)
        PROVE  Gone(d)
    <3>1. wasPublished(d) \/ d = publisher[n].node
      BY <1>2, <2>3 DEF wasPublished, saveTerminated
    <3>2. QED
      BY <2>3, <3>1 DEF Gone, GoneIsDown, saveTerminated
  <2>4. UNCHANGED events \/ \E n \in Nodes : joinCluster(n) \/ masterNodeChanged(n) \/ saveTerminated(n)
    BY DEF Next, Environment, terminate, restart, Publisher, receive, deleteNode, Handler, poll,
       handleOther, handleTerminated, elect, saveMaster, handled, Dispatcher, readNode, saveNode,
       masterStatusCheck, tableVars, vars
  <2>5. QED
    BY <2>1, <2>2, <2>3, <2>4
<1>3. QED
  BY <1>1, <1>2 DEF Gone

\* An instance starts to run in joinCluster only, and stops in terminate only.
LEMMA UpChanges ==
  ASSUME [Next]_vars, NEW n \in Nodes
  PROVE  /\ n \in up' \ up => joinCluster(n)
         /\ n \in up \ up' => terminate(n)
BY DEF Next, Environment, terminate, joinCluster, restart, Publisher, receive, saveTerminated,
   deleteNode, Handler, poll, handleOther, handleTerminated, elect, HandlerStep, saveMaster,
   masterNodeChanged, handled, Dispatcher, readNode, saveNode, masterStatusCheck, vars

\* What the listener of the queue works on was reported, and is published
\* before its record is deleted.
LEMMA PublisherOrigin ==
  ASSUME TypeOK, GoneIsDown, [Next]_vars, NEW n \in Nodes, publisher'[n].pc # "idle"
  PROVE  /\ Gone(publisher[n].node)'
         /\ publisher'[n].pc = "saved" => wasPublished(publisher[n].node)'
<1>1. CASE publisher'[n] = publisher[n]
  <2>1. publisher[n].node \in Nodes
    BY <1>1 DEF TypeOK
  <2>2. Gone(publisher[n].node) /\ (publisher[n].pc = "saved" => wasPublished(publisher[n].node))
    BY <1>1 DEF GoneIsDown
  <2>3. QED
    BY <1>1, <2>1, <2>2, GoneStays, PublishedStays DEF Gone, wasPublished
<1>2. CASE saveTerminated(n)
  <2> DEFINE new == [kind |-> "terminated", node |-> publisher[n].node, time |-> publisher[n].time]
  <2>1. new \in events' /\ new.kind = "terminated" /\ new.node = publisher[n].node
    BY <1>2 DEF saveTerminated
  <2>2. publisher'[n].node = publisher[n].node
    BY <1>2 DEF saveTerminated, TypeOK
  <2>3. QED
    BY <2>1, <2>2 DEF Gone, wasPublished
<1>3. ASSUME NEW d \in Nodes, receive(n, d)
      PROVE  publisher'[n].pc = "timed" /\ Gone(publisher[n].node)'
  BY <1>3 DEF receive, TypeOK, Gone
<1>4. \/ publisher'[n] = publisher[n]
      \/ saveTerminated(n)
      \/ \E d \in Nodes : receive(n, d)
  <2>1. CASE UNCHANGED publisher
    BY <2>1
  <2>2. ASSUME NEW m \in Nodes, terminate(m) \/ restart(m) \/ deleteNode(m)
        PROVE  publisher'[n] = publisher[n]
    BY <2>2 DEF terminate, restart, forget, deleteNode, NotPublishing, TypeOK
  <2>3. ASSUME NEW m \in Nodes, saveTerminated(m) \/ (\E d \in Nodes : receive(m, d))
        PROVE  m = n \/ publisher'[n] = publisher[n]
    BY <2>3 DEF saveTerminated, receive, TypeOK
  <2>4. \/ UNCHANGED publisher
        \/ \E m \in Nodes : \/ terminate(m) \/ restart(m) \/ deleteNode(m) \/ saveTerminated(m)
                            \/ \E d \in Nodes : receive(m, d)
    BY DEF Next, Environment, joinCluster, Publisher, Handler, poll, handleOther, handleTerminated,
       elect, HandlerStep, saveMaster, masterNodeChanged, handled, Dispatcher, readNode, saveNode,
       masterStatusCheck, vars
  <2>5. QED
    BY <2>1, <2>2, <2>3, <2>4
<1>5. QED
  BY <1>1, <1>2, <1>3, <1>4

\* Every step keeps what was reported terminated from running.
LEMMA NextGoneIsDown == TypeOK /\ GoneIsDown /\ [Next]_vars => GoneIsDown'
<1> SUFFICES ASSUME TypeOK, GoneIsDown, [Next]_vars
             PROVE  GoneIsDown'
  OBVIOUS
<1>1. ASSUME NEW d \in Nodes, Gone(d)'
      PROVE  d \notin up'
  <2>1. CASE terminate(d)
    BY <2>1 DEF terminate
  <2>2. CASE Gone(d)
    <3>1. ~joinCluster(d)
      BY <2>2 DEF joinCluster, Gone, wasPublished
    <3>2. QED
      BY <2>2, <3>1, UpChanges DEF GoneIsDown
  <2>3. QED
    BY <1>1, <2>1, <2>2, GoneOrigin
<1>2. QED
  BY <1>1, PublisherOrigin DEF GoneIsDown

\* A member that stops to run is reported at once, and stays reported.
LEMMA NextMembersAreKnown ==
  TypeOK /\ GoneIsDown /\ MembersAreKnown /\ [Next]_vars => MembersAreKnown'
<1> SUFFICES ASSUME TypeOK, GoneIsDown, MembersAreKnown, [Next]_vars, NEW n \in Members, n \notin up'
             PROVE  Gone(n)'
  BY DEF MembersAreKnown
<1>1. n \in Nodes
  BY MembersAssumption DEF MembersAssumption
<1>2. CASE n \in up
  BY <1>1, <1>2, UpChanges DEF terminate, Gone
<1>3. CASE n \notin up
  BY <1>1, <1>3, GoneStays DEF MembersAreKnown
<1>4. QED
  BY <1>2, <1>3

\* An instance that does not run has nothing in its hands: it forgets when it
\* is terminated, and its loops do not turn.
LEMMA NextOnlyRunningAct == TypeOK /\ OnlyRunningAct /\ [Next]_vars => OnlyRunningAct'
<1> SUFFICES ASSUME TypeOK, OnlyRunningAct, [Next]_vars, NEW n \in Nodes, n \notin up'
             PROVE  copy'[n] = "none" /\ publisher'[n].pc = "idle" /\ handler'[n].pc = "idle"
  BY DEF OnlyRunningAct
<1>1. CASE terminate(n)
  BY <1>1 DEF terminate, forget, NotPublishing, NotHandling, TypeOK
<1>2. CASE n \notin up
  <2> USE DEF TypeOK
  <2>1. copy[n] = "none" /\ publisher[n].pc = "idle" /\ handler[n].pc = "idle"
    BY <1>2 DEF OnlyRunningAct
  <2>2. CASE UNCHANGED vars
    BY <2>1, <2>2 DEF vars
  <2>3. ASSUME NEW m \in Nodes, Environment(m)
        PROVE  copy'[n] = "none" /\ publisher'[n].pc = "idle" /\ handler'[n].pc = "idle"
    <3>1. CASE terminate(m) \/ restart(m)
      <4>1. forget(m)
        BY <3>1 DEF terminate, restart
      <4>2. QED
        BY <2>1, <4>1 DEF forget, NotPublishing, NotHandling
    <3>2. CASE joinCluster(m)
      BY <2>1, <3>2 DEF joinCluster
    <3>3. QED
      BY <2>3, <3>1, <3>2 DEF Environment
  <2>4. ASSUME NEW m \in Nodes, Publisher(m)
        PROVE  copy'[n] = "none" /\ publisher'[n].pc = "idle" /\ handler'[n].pc = "idle"
    BY <1>2, <2>1, <2>4, SMTT(30) DEF Publisher, receive, saveTerminated, deleteNode, NotPublishing
  <2>5. ASSUME NEW m \in Nodes, Handler(m)
        PROVE  copy'[n] = "none" /\ publisher'[n].pc = "idle" /\ handler'[n].pc = "idle"
    <3>1. m # n
      BY <1>2, <2>1, <2>5 DEF Handler, poll, handleOther, handleTerminated, elect, HandlerStep,
         saveMaster, masterNodeChanged, handled
    <3>2. UNCHANGED <<copy, publisher>>
      BY <2>5 DEF Handler, poll, handleOther, handleTerminated, elect, HandlerStep, saveMaster,
         masterNodeChanged, handled
    <3>3. handler'[n] = handler[n]
      BY <2>5, <3>1 DEF Handler, poll, handleOther, handleTerminated, elect, HandlerStep,
         saveMaster,
         masterNodeChanged, handled
    <3>4. QED
      BY <2>1, <3>2, <3>3
  <2>6. ASSUME NEW m \in Nodes, Dispatcher(m) \/ masterStatusCheck(m)
        PROVE  copy'[n] = "none" /\ publisher'[n].pc = "idle" /\ handler'[n].pc = "idle"
    BY <1>2, <2>1, <2>6 DEF Dispatcher, readNode, saveNode, masterStatusCheck
  <2>7. QED
    BY <2>2, <2>3, <2>4, <2>5, <2>6 DEF Next
<1>3. QED
  BY <1>1, <1>2, UpChanges

\* The record of a node changes by its own hand, except that the record of a
\* terminated one is deleted.
LEMMA RowChanges ==
  ASSUME TypeOK, GoneIsDown, [Next]_vars, NEW n \in up
  PROVE  \/ row'[n] = row[n]
         \/ saveMaster(n) /\ row'[n] = "master"
         \/ saveNode(n) /\ row'[n] = copy[n] /\ copy[n] # "none"
<1> USE DEF TypeOK
<1>1. CASE UNCHANGED row
  BY <1>1
<1>2. ASSUME NEW m \in Nodes, joinCluster(m)
      PROVE  row'[n] = row[n]
  BY <1>2 DEF joinCluster
<1>3. ASSUME NEW m \in Nodes, deleteNode(m)
      PROVE  row'[n] = row[n]
  <2>1. publisher[m].node # n
    BY <1>3 DEF deleteNode, GoneIsDown
  <2>2. QED
    BY <1>3, <2>1 DEF deleteNode
<1>4. ASSUME NEW m \in Nodes, saveMaster(m)
      PROVE  row'[n] = row[n] \/ (m = n /\ row'[n] = "master")
  BY <1>4 DEF saveMaster
<1>5. ASSUME NEW m \in Nodes, saveNode(m)
      PROVE  row'[n] = row[n] \/ (m = n /\ row'[n] = copy[n] /\ copy[n] # "none")
  BY <1>5 DEF saveNode
<1>6. \/ UNCHANGED row
      \/ \E m \in Nodes : joinCluster(m) \/ deleteNode(m) \/ saveMaster(m) \/ saveNode(m)
  BY DEF Next, Environment, terminate, restart, Publisher, receive, saveTerminated, Handler, poll,
     handleOther, handleTerminated, elect, masterNodeChanged, handled, Dispatcher, readNode,
     masterStatusCheck, tableVars, vars
<1>7. QED
  BY <1>1, <1>2, <1>3, <1>4, <1>5, <1>6

\* A running node keeps its record.
LEMMA NextUpIsRecorded == TypeOK /\ GoneIsDown /\ UpIsRecorded /\ [Next]_vars => UpIsRecorded'
<1> SUFFICES ASSUME TypeOK, GoneIsDown, UpIsRecorded, [Next]_vars, NEW n \in up'
             PROVE  row'[n] # "none"
  BY DEF UpIsRecorded
<1>1. n \in Nodes
  BY NextTypeOK DEF TypeOK
<1>2. CASE n \in up
  BY <1>2, RowChanges DEF UpIsRecorded
<1>3. CASE n \notin up
  BY <1>1, <1>3, UpChanges DEF joinCluster, TypeOK
<1>4. QED
  BY <1>2, <1>3

\* What the tables say of the instances is kept together.
LEMMA NextTables == TypeOK /\ Tables /\ [Next]_vars => Tables'
BY NextGoneIsDown, NextMembersAreKnown, NextOnlyRunningAct, NextUpIsRecorded DEF Tables

-----------------------------------------------------------------------------
(* Who leads                                                               *)

\* A member that was lost is not launched again.
LEMMA MembersNeverJoin ==
  ASSUME MembersAreKnown, NEW n \in Members
  PROVE  ~joinCluster(n)
BY DEF MembersAreKnown, Gone, wasPublished, joinCluster

\* The members that run get fewer, and the first node does not come back.
LEMMA MembersOnlyLeave ==
  ASSUME MembersAreKnown, [Next]_vars
  PROVE  /\ up' \cap Members \subseteq up
         /\ FirstNode \in up' => FirstNode \in up
BY MembersNeverJoin, UpChanges, MembersAssumption DEF MembersAssumption

\* A dispatcher's copy is what the record said when it was read.
LEMMA CopyChanges ==
  ASSUME TypeOK, [Next]_vars, NEW n \in Nodes
  PROVE  copy'[n] \in {copy[n], "none", row[n]}
<1> USE DEF TypeOK
<1>1. CASE UNCHANGED copy
  BY <1>1
<1>2. ASSUME NEW m \in Nodes, terminate(m) \/ restart(m) \/ readNode(m) \/ saveNode(m)
      PROVE  copy'[n] \in {copy[n], "none", row[n]}
  BY <1>2 DEF terminate, restart, forget, readNode, saveNode
<1>3. UNCHANGED copy \/ \E m \in Nodes : terminate(m) \/ restart(m) \/ readNode(m) \/ saveNode(m)
  BY DEF Next, Environment, joinCluster, Publisher, receive, saveTerminated, deleteNode, Handler,
     poll, handleOther, handleTerminated, elect, HandlerStep, saveMaster, masterNodeChanged,
     handled, Dispatcher, masterStatusCheck, vars
<1>4. QED
  BY <1>1, <1>2, <1>3

\* The jobs start on a node whose record names it the master.
LEMMA JobsChange ==
  ASSUME [Next]_vars, NEW n \in jobs' \ jobs
  PROVE  row[n] = "master"
BY DEF Next, Environment, terminate, joinCluster, restart, Publisher, receive, saveTerminated,
   deleteNode, Handler, poll, handleOther, handleTerminated, elect, HandlerStep, saveMaster,
   masterNodeChanged, handled, Dispatcher, readNode, saveNode, masterStatusCheck, vars

\* A step within the handling of an event moves one node on.
LEMMA HandlerStepShape ==
  ASSUME TypeOK, NEW m \in Nodes, NEW n \in Nodes, NEW from \in HandlerPcs, NEW to \in HandlerPcs,
         HandlerStep(m, from, to)
  PROVE  handler'[n].pc = handler[n].pc \/ (n = m /\ handler[n].pc = from /\ handler'[n].pc = to)
BY DEF HandlerStep, TypeOK

\* A node goes for an election if it finds no master, and is elected if no
\* record is below its own.
LEMMA ElectionChanges ==
  ASSUME TypeOK, [Next]_vars, NEW n \in Nodes, handler'[n].pc # handler[n].pc
  PROVE  /\ handler'[n].pc = "noMaster" => masters = {}
         /\ handler'[n].pc = "elected" => handler[n].pc = "noMaster" /\ lowest(n)
<1> USE DEF TypeOK
<1>1. CASE UNCHANGED handler
  BY <1>1
<1>2. ASSUME NEW m \in Nodes, terminate(m) \/ restart(m)
      PROVE  handler'[n].pc \in {"idle", handler[n].pc}
  <2>1. forget(m)
    BY <1>2 DEF terminate, restart
  <2>2. QED
    BY <2>1 DEF forget, NotHandling
<1>3. ASSUME NEW m \in Nodes, saveMaster(m) \/ masterNodeChanged(m) \/ handled(m)
      PROVE  handler'[n].pc \in {"idle", "saved", "listeners", handler[n].pc}
  <2>1. CASE saveMaster(m) \/ masterNodeChanged(m)
    BY <2>1, HandlerStepShape DEF saveMaster, masterNodeChanged, HandlerPcs
  <2>2. CASE handled(m)
    BY <2>2 DEF handled, NotHandling
  <2>3. QED
    BY <1>3, <2>1, <2>2
<1>4. ASSUME NEW m \in Nodes, handleTerminated(m)
      PROVE  \/ handler'[n].pc \in {"listeners", handler[n].pc}
             \/ handler'[n].pc = "noMaster" /\ masters = {}
  BY <1>4 DEF handleTerminated, mastersRead
<1>5. ASSUME NEW m \in Nodes, elect(m)
      PROVE  \/ handler'[n].pc \in {"listeners", handler[n].pc}
             \/ handler'[n].pc = "elected" /\ handler[n].pc = "noMaster" /\ lowest(n)
  BY <1>5, HandlerStepShape DEF elect, HandlerPcs
<1>6. \/ UNCHANGED handler
      \/ \E m \in Nodes : \/ terminate(m) \/ restart(m) \/ handleTerminated(m) \/ elect(m)
                          \/ saveMaster(m) \/ masterNodeChanged(m) \/ handled(m)
  BY DEF Next, Environment, joinCluster, Publisher, receive, saveTerminated, deleteNode, Handler,
     poll, handleOther, Dispatcher, readNode, saveNode, masterStatusCheck, vars
<1>7. QED
  BY <1>1, <1>2, <1>3, <1>4, <1>5, <1>6

\* While the first node runs, nothing takes the field master from its record.
LEMMA NextFirstLeads ==
  TypeOK /\ GoneIsDown /\ MembersAreKnown /\ FirstLeads /\ [Next]_vars => FirstLeads'
<1> SUFFICES ASSUME TypeOK, GoneIsDown, MembersAreKnown, FirstLeads, [Next]_vars, FirstNode \in up'
             PROVE  row'[FirstNode] = "master" /\ copy'[FirstNode] \in {"none", "master"}
  BY DEF FirstLeads
<1>1. FirstNode \in up /\ FirstNode \in Nodes
  BY MembersOnlyLeave DEF TypeOK
<1>2. row[FirstNode] = "master" /\ copy[FirstNode] \in {"none", "master"}
  BY <1>1 DEF FirstLeads
<1>3. QED
  BY <1>1, <1>2, RowChanges, CopyChanges

\* An election starts only after the first node is gone.
LEMMA NextElectedAfterFirst ==
  TypeOK /\ MembersAreKnown /\ FirstLeads /\ ElectedAfterFirst /\ [Next]_vars => ElectedAfterFirst'
<1> SUFFICES ASSUME TypeOK, MembersAreKnown, FirstLeads, ElectedAfterFirst, [Next]_vars,
                    NEW n \in Nodes, handler'[n].pc \in {"noMaster", "elected"}
             PROVE  FirstNode \notin up'
  BY DEF ElectedAfterFirst
<1>1. CASE handler[n].pc \in {"noMaster", "elected"}
  BY <1>1, MembersOnlyLeave DEF ElectedAfterFirst
<1>2. CASE handler[n].pc \notin {"noMaster", "elected"}
  <2>1. masters = {}
    BY <1>2, ElectionChanges
  <2>2. FirstNode \notin up
    BY <2>1, MembersAssumption DEF masters, FirstLeads, MembersAssumption
  <2>3. QED
    BY <2>2, MembersOnlyLeave
<1>3. QED
  BY <1>1, <1>2

\* A node that leads did so before, or is elected now as the lowest of the
\* recorded nodes.
LEMMA LeadingOrigin ==
  ASSUME TypeOK, Tables, [Next]_vars, NEW n \in Nodes, Leading(n)'
  PROVE  Leading(n) \/ (n \in up /\ handler[n].pc = "noMaster" /\ lowest(n))
<1>1. n \in up
  <2>1. CASE joinCluster(n)
    <3>1. n \notin up /\ copy[n] = "none" /\ handler[n].pc = "idle"
      BY <2>1 DEF joinCluster, Tables, OnlyRunningAct
    <3>2. n \notin jobs' /\ row'[n] = "member" /\ copy'[n] = "none" /\ handler'[n].pc = "idle"
      BY <2>1, <3>1 DEF joinCluster, TypeOK
    <3>3. QED
      BY <3>2 DEF Leading
  <2>2. QED
    BY <2>1, UpChanges DEF Leading
<1>2. CASE n \in jobs'
  BY <1>1, <1>2, JobsChange DEF Leading
<1>3. CASE row'[n] = "master"
  BY <1>1, <1>3, RowChanges DEF Leading, Tables, saveMaster, HandlerStep
<1>4. CASE copy'[n] = "master"
  BY <1>1, <1>4, CopyChanges DEF Leading
<1>5. CASE handler'[n].pc = "elected"
  BY <1>1, <1>5, ElectionChanges DEF Leading
<1>6. QED
  BY <1>2, <1>3, <1>4, <1>5 DEF Leading

\* A node other than the first one leads only after it, below every member.
LEMMA NextLeadersAreLow == IInv /\ [Next]_vars => LeadersAreLow'
<1> SUFFICES ASSUME IInv, [Next]_vars, NEW n \in Nodes, n # FirstNode, Leading(n)'
             PROVE  FirstNode \notin up' /\ \A m \in up' \cap Members : n <= m
  BY DEF LeadersAreLow
<1> USE DEF IInv
<1>1. FirstNode \notin up /\ \A m \in up \cap Members : n <= m
  <2>1. CASE Leading(n)
    BY <2>1 DEF LeadersAreLow
  <2>2. CASE handler[n].pc = "noMaster" /\ lowest(n)
    <3>1. up \cap Members \subseteq recorded
      BY MembersAssumption DEF MembersAssumption, Tables, UpIsRecorded, recorded
    <3>2. QED
      BY <2>2, <3>1 DEF ElectedAfterFirst, lowest
  <2>3. QED
    BY <2>1, <2>2, LeadingOrigin
<1>2. up' \cap Members \subseteq up /\ (FirstNode \in up' => FirstNode \in up)
  BY MembersOnlyLeave DEF Tables
<1>3. QED
  BY <1>1, <1>2

\* At the start the first node leads, and nobody else.
LEMMA InitIInv == Init => IInv
<1> SUFFICES ASSUME Init
             PROVE  IInv
  OBVIOUS
<1> USE MembersAssumption DEF MembersAssumption, Init
<1>1. TypeOK
  BY InitTypeOK
<1>2. Tables
  BY DEF Tables, OnlyRunningAct, GoneIsDown, Gone, wasPublished, MembersAreKnown, UpIsRecorded,
     NotPublishing, NotHandling
<1>3. FirstLeads /\ ElectedAfterFirst
  BY DEF FirstLeads, ElectedAfterFirst, NotHandling
<1>4. LeadersAreLow
  BY DEF LeadersAreLow, Leading, NotHandling
<1>5. QED
  BY <1>1, <1>2, <1>3, <1>4 DEF IInv

\* The inductive invariant: the types, what the tables say of the instances,
\* and where the lead is.
THEOREM Invariance == Spec => []IInv
<1>1. IInv /\ [Next]_vars => IInv'
  BY NextTypeOK, NextTables, NextFirstLeads, NextElectedAfterFirst, NextLeadersAreLow
     DEF IInv, Tables
<1>2. QED
  BY <1>1, InitIInv, PTL DEF Spec

\* Two running nodes lead only if the lower one was launched after the start.
THEOREM MastersAreUnique == Spec => []OneMaster
<1>1. IInv => OneMaster
  <2> SUFFICES ASSUME IInv, NEW n \in Nodes, NEW m \in Nodes, Leading(n), Leading(m), n < m, n \in Members
               PROVE  FALSE
    BY DEF OneMaster
  <2>1. n \in up \cap Members /\ m \in up
    BY DEF Leading
  <2>2. n \in Nat /\ m \in Nat
    BY NodesAssumption DEF NodesAssumption
  <2>3. CASE m = FirstNode
    BY <2>1, <2>2, <2>3 DEF IInv, LeadersAreLow
  <2>4. CASE m # FirstNode
    BY <2>1, <2>2, <2>4 DEF IInv, LeadersAreLow
  <2>5. QED
    BY <2>3, <2>4
<1>2. QED
  BY <1>1, Invariance, PTL

\* A terminated instance has no part in the cluster any more: it is never
\* launched again, and nothing of it is left in a loop.
THEOREM TheLostStayDown == Spec => [](GoneIsDown /\ OnlyRunningAct)
<1>1. IInv => GoneIsDown /\ OnlyRunningAct
  BY DEF IInv, Tables
<1>2. QED
  BY <1>1, Invariance, PTL

=============================================================================
