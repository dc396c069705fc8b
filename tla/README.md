# Enhanced Snapshots: verification of its core

Enhanced Snapshots is a web application that backs up EBS volumes: it takes an
EC2 snapshot, creates a temporary volume from it, copies that volume to a
deduplicating SDFS mount, and lists the backup. It also restores volumes from
snapshots or backup files, deletes backups by hand or by retention rules, and
runs alone or as a cluster of nodes. This directory holds TLA+ models of its
core, the TLC configurations that check them, and proofs checked by TLAPS.

Paths below are relative to `src/src/com/sungardas/enhancedsnapshots/` unless
they begin with `src/`.

## 1. Inventory

| Component | State | Operations | Interacts with |
|---|---|---|---|
| `components/WorkersDispatcher` | two fixed pools and their queues; the entry in the dispatcher's hand | poll, check, mark waiting, submit; executes deletions and system backups itself | Tasks table, executors, SDFS state, node record |
| `service/impl/TaskServiceImpl` | Tasks table (DynamoDB), `canceledTasks` in memory | `createTask`, `removeTask`, `complete`, `isCanceled`, `updateCanceledTasks` (every 5 s), `init` at start, `terminated` in a cluster | requests, executors, dispatcher, scheduler |
| `service/impl/SpringSchedulerService` | registered schedules | a schedule adds a backup task | Tasks table, queue count |
| `tasks/executors/AWSBackupVolumeStrategyTaskExecutor` | its copy of the task entry; progress in the Tasks table | eleven steps, resume from each, two ways of cleaning up | EC2, SDFS mount, BackupList and Snapshots tables, retention |
| `tasks/executors/AWSRestoreVolumeStrategyTaskExecutor` | as above | restore from snapshot or file, move to another zone, cleaning | EC2, SDFS mount |
| `tasks/executors/AWSDeleteTaskExecutor` | – | delete file, snapshot, entry | SDFS mount, tables |
| `service/impl/SnapshotServiceImpl` | Snapshots table | read, save, delete the entry of a volume | EC2 |
| `service/impl/StorageServiceImpl` | backup files | copy (`cp` or Java), delete | executors, `isCanceled` |
| `service/impl/SDFSStateServiceImpl` | reconfiguration flag, the SDFS process | start, stop, reconfigure, availability | dispatcher, settings |
| `service/impl/RetentionServiceImpl` | Retention table | `apply`: select and delete old backups | backup service |
| `service/impl/MasterServiceImpl` | worker column of tasks, node records | distribute tasks, reassign those of dead nodes | cluster |
| `cluster/*` | Nodes and Events tables, an SQS queue | join, launch and termination events, election of a master | all nodes |
| `service/impl/UserServiceImpl` | Users table | create, update, remove; last-administrator rule | requests |
| `components/RetryInterceptor` | – | repeats AWS calls | AWS clients |
| `service/impl/SystemServiceImpl`, `src/src/com/sungardas/init/*` | configuration record, system backup archive | settings, system backup and restore, set-up, uninstall | everything |
| `src/WebContent/js` (Tasks page) | rows, timers and requests of a page, the loading flag, the subscription to notifications | load, refresh, reject, follow notifications | REST controllers, the message broker |
| other controllers, DTOs, mail, logs, security | none of their own that matters here | pass requests, format | services |

### What is hard here

* **Whole-record saves.** A task record is read once and then saved as a whole
  by the dispatcher, an executor, a request or a listener. A save overwrites
  what others wrote since, and re-creates a record that was deleted.
* **Two places for a cancel.** A cancel is a status in the table and a member of
  a set in memory, the set is rebuilt from the table every five seconds, and
  `isCanceled` takes the task out of it.
* **Resuming.** An executor saves its progress before each step and resumes
  from it after a restart. Identifiers of EC2 resources are saved after the
  call that created them. Steps are shared between the first run, the resumed
  run and the cleaning.
* **Exits.** A task can end complete, canceled, interrupted, failed, or because
  its volume is gone, and each exit makes several saves.
* **Clusters.** Master flag, worker column and node records are read, changed
  and saved by several nodes; events are found by time stamps.
* **Old pictures.** Retention and the distribution of tasks read tables, compute,
  and act on what they read, while three kinds of threads do the same.
* **Unordered messages.** The page hears of a task from notifications, from
  answers to several requests and from timers, which are not ordered.

What would make each part correct: a task is executed once at a time and is not
forgotten; a rejected task does not complete; a complete task has left a backup
that can be restored; temporary resources are removed; a restart loses nothing;
the queue respects its limit; retention deletes exactly what its rules say;
there is one master; tasks go to nodes that exist; an administrator remains.
`PROJECT.json` lists each hazard at its line, with the properties that cover it or
a note that says why none does.

## 2. Structure

| Module | Models | Abstract specification | Proofs |
|---|---|---|---|
| `TaskDispatch` | life of tasks on one node | `TaskOwnership` | `TaskDispatchProofs` |
| `TaskRejection` | the user's view of a rejection, over `TaskDispatch` | – | – |
| `BackupExecutor` | steps of a backup, crashes, resumption | – | `BackupExecutorProofs`, `BackupOutcomesProofs` |
| `RestoreExecutor` | steps of a restore beside the deletion of its backup | – | `RestoreExecutorProofs` |
| `ClusterMembership` | nodes, events, SQS messages, election | – | `ClusterMembershipProofs` |
| `ClusterTasks` | tasks of a cluster, composed with `ClusterMembership` | `ClusterMembership` | `ClusterTasksProofs` |
| `RetentionPolicy` | rules and their application by several threads | `Excess`, what a rule asks for | `RetentionPolicyProofs` |
| `TasksPage` | the Tasks page, an executor's notifications, HTTP | – | `TasksPageProofs` |

`MC…` modules give TLC its constants. `TaskRejection` observes `TaskDispatch`.
`ClusterTasks` extends `ClusterMembership`: every step of a node's threads is a
step of one of the two, and the handler of a termination runs the listeners
that rewrite tasks. `TaskDispatch`, `BackupExecutor` and `RestoreExecutor` look
at the same executions at three distances: the saves to the task record and the
hands that hold it, and every step within one execution.

## 3. Modules and code

### TaskDispatch

One stand-alone node. `status` is the status column of the Tasks table
("absent" for no record); a save by any actor is an unconditional assignment,
which is what `taskRepository.save` does. `disp` is the program counter of
`TaskWorker.run` with the entry in its hand; `queue` and `thread` are the two
pools; `req` is one `removeTask` request between its read and its write;
`canceled` is `canceledTasks`. `sdfs` is running, being reconfigured, or stopped
by a reconfiguration that failed. `stranded` is history: the tasks that were
waiting when the node restarted, or whose executor failed before its `try` block.

* Requests: `createTask`, `deleteBackup`, `scheduleBackup`, `removeTaskRead`
  followed by `removeTaskCancel` and `removeTaskRefresh` or by
  `removeTaskDelete`; `updateCanceledTasks` is the five-second job.
* Dispatcher: `pollAssigned`, `skipRemoved`, `breakWhenSdfsIsDown`,
  `sdfsCheckFails`, `acceptPooled`, `saveWaiting`, `submit` for backups and
  restores; the `inline…` actions and `deleteFails` for what the dispatcher
  executes itself.
* Pool threads: the saves an executor makes to the task record, in every order
  its code allows.
* `restart` is a crash and the next start in one action: memory is lost and
  `TaskServiceImpl.init` marks running tasks partially finished.
* `sdfsGoesDown`, then `sdfsComesBack` or `sdfsStaysDown`, is a reconfiguration,
  which may fail. `dispatcherEnds` is every way out of the loop of
  `TaskWorker.run`: its two `return`s and what is thrown outside its `try` block.

Left out here: cluster mode (see `ClusterTasks`), regular tasks (schedules are
never dispatched on a stand-alone node), tasks of unknown type, failing DynamoDB
calls. Tasks of equal priority are taken in any order, which covers every
`schedulerTime`. The count and the save of an admission are one step.
`removeTask` requests come one at a time.

### TaskOwnership

What the pools promise: a task is offered to the dispatcher, at most one hand
holds a submitted entry of it, and only a restart, which empties all hands,
offers it again. `TaskDispatch!ImplementsOwnership` instantiates it with the
refinement mapping `used = created`, `offered` = tasks the poll query returns,
`inFlight` = number of places in queues and threads that hold the entry.

### TaskRejection

`TaskDispatch` with two history variables: the running tasks whose cancel was
answered (`rejected`) and the others whose removal was answered (`removed`).
`RejectedDoesNotComplete` says that a rejected task completes only while the
cancel is on record, where the check after `complete` finds it. It is violated:
the executor's next save overwrites the canceled status, and the refresh that
ends the request forgets the task. `RemovedStaysRemoved` is about the rest of
`removeTask` and is broken by the saves of the dispatcher and of `execute`; a
finding describes it.

### BackupExecutor

Backups of one volume, each by its own thread. `rec` is the saved record,
`ent` the executor's copy, `pc` the place in `execute`; `volumes`, `snapshots`,
`file`, `backupList` and `snapshotTable` are EC2, the mount and two tables.
`execute` is given as a table: `ProgressSteps` lists the steps that begin with
`setProgress` (what they save and what follows), `CheckSteps` the calls of
`checkThreadInterruption`; every other step is an action. `firstStep` is the
resumption: the two `switch` statements at the head of `execute`.
`interruptedCleaning` and `failCleaning` share `deleteTempResources` and differ
in `exit`, which remembers the exception.

* Every save and every call with an effect outside the thread is a step; two
  checks with only reads between them are one; a second save of the progress
  that was just saved, which some resumptions make, is not repeated.
* `closing` is the destruction of the context: threads are interrupted. A sleep
  between two polls of AWS swallows the interrupt, so a check may also pass.
* EC2 is external: a volume that was asked for is "creating" until EC2 has made
  it (`volumeIsCreated`), and `waitForVolume` waits for that. A detach needs an
  attached volume, a delete an available one: the cleaning of a backup canceled
  at line 295 may ask for the deletion of a volume that is still created, is
  refused (`deletionIsRefused`, `refused`) and goes on. A question about a volume
  that is gone is answered with nothing or with an error. Waits for AWS end, with
  success or an exception, although `waitForCompleteState` may in fact wait for
  ever for a snapshot in error (`service/impl/AWSCommunicationServiceImpl.java:155`
  creates an exception and does not throw it).
* The source volume does not disappear after `volumeExists`; retention deletes
  nothing here; file names of different tasks differ (they hold the start
  time); mails and notifications have no effect.

### RestoreExecutor

One restore, in the same form as `BackupExecutor`. `request` chooses the source
(the snapshot or a backup file) and whether the volume has to move to another
zone. `volumes` says of each EC2 volume its state and whether it holds nothing,
a part or the whole of the backup; `restored` are the volumes that were given
the name of a restored one; `backup` is the file, the list entry, the snapshot
entry and the EC2 snapshot of the backup. Volumes are created in EC2's own time
here too (`volumeIsCreated`). `firstStep` and `ZoneSteps` are the
two `switch` statements of `restoreFromBackupFile`. `deletion` is a delete task
for the backup, executed by the dispatcher step by step (`deleteFile`,
`deleteKeptSnapshot`, `deleteSnapshotEntry`, `deleteEntry`), each of which may
fail and be skipped. `rollbackCut` is history: the process ended while a
cleaning or a rollback was under way; what goes wrong then is a finding, and
properties that it defeats except it by name. `events` counts crashes,
shutdowns, cancels, failing calls and deletions; the bound is on their sum.

### ClusterMembership

`row` is the Nodes table (no record, member, master), `events` the Events table,
`inbox` the SQS queue, `clock` the time of events. Four threads per node:
`AutoScalingEventListener` (`receive`, `saveTerminated`, `deleteNode`),
`ClusterEventService` (`poll`, `handleOther`, `handleTerminated`, `elect`,
`saveMaster`, `masterNodeChanged`, `handled`), the part of `TaskWorker.run` that
rewrites the node's record (`readNode`, `saveNode`), and `masterStatusCheck`.
Every table access is a step and every save is of a whole record. `terminate`
is AutoScaling, `joinCluster` a new instance, `restart` the program on an
instance. Instance identifiers are numbers, because the election orders them.
Left out: the events about settings and logs, SDFS volume identifiers, clocks
that differ between nodes, a publisher that ends between `saveTerminated` and
`deleteNode` unless its instance is lost (the last two are findings).

### ClusterTasks

`task` is the Tasks table with status, worker and whether the progress is DONE.
`sched` is the one scheduler thread of a node, on which `taskDistribution`
(`readUnassigned`, `countWorkers`, `assign`) and `terminatedNodeTaskReassign`
(`readNodeIds`, `readUnknown`, `giveBack`) take turns; `listen` is
`TaskServiceImpl.terminated` within the handler of an event; `hand` and `execs`
are dispatchers and executions. `taskDistribution` reads the list of tasks, then
the nodes, then the tasks of one node after the other, and assigns one task at a
time. The dispatcher's look for the record (`skipRemoved`), its save of waiting
(`saveWaiting`, or `beginInline` for what it executes itself) and the first save
of the execution (`begin`) are steps; the submission to a pool has no effect
outside the node and belongs to `saveWaiting`, and a pool queue is the set of
executions that wait. Tasks are assigned in any order. Of an execution only the
saves are here, in cluster mode: an interrupted one leaves its resources to
another node. A system backup's record is removed when it has been made.

### RetentionPolicy

One volume. `stored` is the Backups table, `rule` the Retention table, `queued`
and `history` are delete tasks to be executed and executed. `apply` runs on
several threads: the cron job (`cronApply`), a request that saves a rule
(`putRetention`) and an executor after a backup (`saveBackup`); its reads
(`getBackups`, `getRetentions`) and its effects (`deleteRule`, `deleteBackup`,
`saveTasks`) are steps. The three loops are operators on the sequence of the
backups, newest first, as the code's sorted set enumerates them; `Excess` says
without loops, by the number (`UpTo`) and the size (`Size`) of the backups that
are not older, what a rule asks for. Sizes are in GB; days pass by `nextDay`.

### TasksPage

The page of one volume and one task. `todo` is what the executor has still to
save and to tell, in the order of its code for each kind of task, with the
cleanings after a cancel or a failure. `wire` is a bag of notifications, since
the broker's channel is a pool of threads; `requests` and `answers` are HTTP;
`tasks`, `timeouts` and `isLoading` are the browser's state. `openPage` may
happen again while earlier requests are under way. `told` and `mishaps` are
history: whether a notification came after the last change of the record, and
what disturbed the page (an ignored notification, an overtaken answer, a failed
request). The rejection goes through `removeTask` of the server.

## 4. Runs

| Run | Instance | Shows |
|---|---|---|
| `dispatch_safety` | a backup, a restore and a system backup, a thread in each pool, one restart | types; hands have claimed what they hold; nothing is in two hands; waiting tasks are held unless stranded; refinement of `TaskOwnership` |
| `dispatch_liveness` | a backup and a deletion, one restart, one reconfiguration that may fail, a dispatcher that may end, fair | assigned tasks are taken, waiting ones executed, submitted ones released |
| `dispatch_rejected` | one backup | **violated**: a running backup whose cancel was answered completes |
| `backup_concurrent` | two backups of one volume, two cancels, snapshots stored | no temporary volume is left but one EC2 refused to delete; no entry for a missing snapshot |
| `backup_interrupted` | one backup, one crash, shutdown, cancel and failure, fair | types; identifiers are in the record before they are needed; the snapshot to copy exists; the backup ends and its record says how |
| `backup_recovers` | two backups, one crash | a complete task has a listed backup with its whole file |
| `restore` | one restore from either source into either zone, any two of crash, shutdown, cancel, failure, deletion, fair | types; a complete restore left the whole backup on a named volume; no named volume is partial; resumed steps find what they use; deletions are complete; restore and deletion end, and the restore's record says how |
| `cluster_election` | three instances, two at the start, one lost, and one launched or one program restarted | one master |
| `cluster_tasks` | a backup and a schedule on a master and a node that joins, two restarts, removals and failures | types; nothing is executed twice at a time; no node is given more than it has threads for |
| `cluster_orphans` | a restore on two nodes, one joins, one is lost, fair | only orphans are given back; orphans are freed; unassigned tasks are assigned; the event is read; the lowest node takes over |
| `retention` | two backups in three days, rules by count, by size and days, without a limit, two threads, one deletion by hand or failed, fair | the loops agree with the policy; what the policy allows stays; excess and empty rules go |
| `web` | a backup, restore or deletion and the page, opened once or twice, one click, rejection, failed request or lost connection | the page ends up showing the record; complete rows do not go back; loading ends |

### Bounds

Two backups are enough for every race between tasks of one pool, and a backup
with a restore for the two pools; the proofs of section 6 do not depend on the
numbers. Restarts, outages, crashes, shutdowns, cancels, failing calls and
deletions are counted and bounded (`Max…`): each hazard needs at most two of
them. Identifiers of volumes and snapshots are never reused; a task takes at
most one of each per execution and every instance has as many as its executions
can take. Identifiers of tasks are UUIDs and are used once (`created`). The two
cases of `StoreSnapshot` are in different runs. Volumes and snapshots may be
exchanged by symmetry in safety runs only.

In a cluster the interesting cases need a master, a survivor and a newcomer:
three nodes for the election, where the first master is not the lowest, so that
the role moves down. With tasks, two nodes are enough: one is lost and another
takes over, or one joins between two reads of the master. Two limits carry
meaning, since the code does more beyond them (see the findings): after the
loss of an instance a task may be executed twice, so `SingleExecution` and
`NoOverload` of `ClusterTasks` speak of clusters that lose none; and
`OnlyOrphansGivenBack` is checked with two nodes, because it fails with three.
TLC finds the behaviour: the first master is lost, a member takes
over and reads the identifiers of the nodes, its own record loses the flag to a
stale save of its dispatcher, a node with a lower identifier joins, finds no
master, elects itself and assigns a task to itself, and the other takes that
task from it. The theorem `OneSchedulerFreesOrphansOnly` shows that two nodes
with the jobs are what it takes.

Retention needs two threads, because the third kind of thread does nothing the
others do not, and two backups to have one kept and one removed. Larger
instances were run once, beside the runs listed: retention with two rules in
succession (607 thousand states) and the safety part with three backups and four
rules (2.05 million), the invariants of its proof with three backups and two rule
changes (11.7 million), the page with each kind of task opened twice, the
restore's inductive invariants with three events (4.2 million), those of the
membership with three nodes and restarts (723 thousand). None found anything new.

Where a property is checked under fewer faults than another run has, it fails
with more, and a finding says how: `FinishedLeavesNoVolume` and
`NoDanglingSnapshot` do not survive a crash, `CompleteIsRestorable` does not
survive two, `ListedHasFile` does not survive a late cancel, there is not always
one snapshot entry per volume, `MasterIsReplaced` does not survive a stale save
of a node's record, and `RuleSurvives` does not survive its own request. These
definitions are in the modules; the findings in `PROJECT.json` quote the
document or comment that says otherwise.

Five checked properties except what the code is known to do, by name, so that
they say it of everything else: `WaitingIsHeld` and `WaitingIsExecuted` the
`stranded` tasks; `AssignedIsTaken` a dispatcher that ended and, for backups and
restores, an SDFS that stays stopped; `ResumeHasIds` the volume of a backup that
was stopped before it had one and again while it was throwing it away, and only
of one that is not listed; `BackupEnds` the record that was removed and saved
again as running (`LeftRunning`) and, after a stop, the one that still reads
waiting or canceled (`LeftBehind`). Each exception is a finding.

### Fairness

`TaskDispatch`: the dispatcher's loop, threads and a request that began are
threads of the program and go on while they run. Fairness of the loop does not
keep it from ending: `dispatcherEnds` may happen at any time and the properties
say what is left then. A reconfiguration ends, because its flag is reset in a
`finally` block, but whether SDFS runs after it is open: fairness is of
`sdfsComesBack \/ sdfsStaysDown`. An executor in the middle of its work completes
or fails, which assumes that AWS answers. Nobody is obliged to create or remove a
task, and no failure must happen. In `BackupExecutor` and `RestoreExecutor` the
same holds for the steps of each thread and of the dispatcher, EC2 creates the
volumes it was asked for (`volumeIsCreated`), and a context that is closing ends
in a restart. Crashes are never fair.

`ClusterTasks`: the polling loops of a running node, its listeners and the two
jobs go on. The jobs share one scheduler thread (`spring-web-config.xml:24`), so
that each is disabled again and again by the other; cron brings each up for
ever, hence strong fairness of their first steps. Dispatchers and executions
need not go on for the properties checked.

`RetentionPolicy`: the cron job comes up again and again (weak fairness, as it
has a thread of its own), `apply` goes on once it began, and the dispatcher
executes delete tasks. Nobody owes a backup, a rule or a new day. `TasksPage`:
requests that were sent are served and answered; notifications, clicks and
timers are owed to nobody.

## 5. Mutants

Each property of a passing run is refuted by a mutation of the model that a
plausible mistake in the code would cause; the definitions marked "Deviation"
in the modules are these mutations. They are not part of any next-state
relation.

## 6. Proofs

Every theorem holds for all values of the constants, from the assumptions named
in the module it is about (constants are sets of the right kind, `NoId`,
`NoTask` and `NoNode` are no members of them, bounds are natural numbers, and
`Tasks` of `ClusterTasks` is finite, since nodes count them). Every safety
property that a run checks is the subject of a theorem.

`TaskDispatchProofs`: `TypeCorrectness` (`TypeOK`), `TasksExecuteOnce`
(`SingleExecution`), `HeldIsClaimed` (`HandsAreClaimed`) and
`WaitingTasksAreHeld` (`WaitingIsHeld`). `SingleExecution` is not inductive: that no entry is
submitted twice depends on the table not offering what a hand holds. The
invariant is therefore `TypeOK /\ SingleExecution /\ HandsAreClaimed`. Its
argument: a hand only accepts an entry of its pool that is offered;
`saveWaiting` withdraws the offer before `submit`; every later save of a hand
writes a status that the poll query does not return; and only `restart`, which
empties every hand, writes `partially_finished`. There is one lemma per part of
the invariant and per group of actions. Lemmas on sequences say what appending
to and taking from a queue do to the entries in it. `WaitingIsHeld` needs its
own strengthening, since a thread may pass its entry on only by a save that is
not "waiting". `PoolsImplementOwnership` is the refinement of `TaskOwnership`
(`ImplementsOwnership`): each request, step of the dispatcher, step of a pool
thread and restart is mapped to a step of the abstract specification or to a
stutter. The work is in the count of places: a submission adds one to that of an
entry that had none, a thread that takes an entry moves it, a thread that
finishes one removes it, and nothing else touches queues and threads.

`BackupExecutorProofs`: `TypesHold` (`TypeOK`). It is not inductive: that the
identifiers `execute` hands on unasked are known ones depends on what was saved
before. The invariant `IInv` is `ControlOK /\ RestOK`. `ControlOK` holds `HasIds`
for the record and the copy of every task, and `InPlace`, which says at which
steps of `execute` the copy has a snapshot and a volume, and that a local
`tempVolume` came from the copy. Its argument: the two tables of `execute` lead
from a step to one that needs no more (`CheckLeads`, `ProgressLeads`);
`firstStep` starts a resumed backup only where the saved progress allows
(`FirstStepLeads`); an exception or a crash leads to places that need nothing;
and a cancel changes a status only. `HasIds` asks for no volume while one is
detached or deleted, because a resumed backup saves these two without one.

`BackupOutcomesProofs` builds on it and is about what backups leave behind. Each
promise holds up to certain faults, and the theorem names them, because TLC
finds a counterexample beyond:

* `ResumeFindsIds` (`ResumeHasIds`) needs no hypothesis, its exception is in the
  formula. `HasIds` gives the rest; what it leaves out, the volume of a backup
  that is detaching or deleting, is known once the backup is listed
  (`VolumeNamed`), since only the step after the copy lists it and no later save
  but that of a removal loses an identifier.
* `SourceAlwaysExists` (`SourceSnapshotExists`) needs no hypothesis. `Sourced`
  follows the snapshot from its creation to the copy through record and
  executor; `SnapshotsOwned` (also `SnapshotsHaveOneOwner`) adds that no two
  tasks know of one snapshot, so that no cleaning deletes another's.
* `NoVolumeIsLeft` (`FinishedLeavesNoVolume`, without failure, crash or
  shutdown: one of them leaves a volume; the volume whose deletion EC2 refused while
  creating it is excepted by the formula): every other volume that exists is held
  by a thread at a place from which each way out deletes it (`VolumesHeld`).
* `CompleteCanBeRestored` (`CompleteIsRestorable`, after at most one crash
  without shutdown and cancel): `CopyKept` ties the place, the record and the
  executor's copy to the file and the list; `FirstRun` says that before the
  first restart nothing is resumed. A second crash fails because a resumed
  backup that throws its copy away has a record that reads as if it was made.
* `NoEntryDangles` (`NoDanglingSnapshot`, without restart: a deletion of entry
  and snapshot that is cut in two leaves the entry): until a snapshot is stored
  it is there, and once it is stored its task's volume is gone, so that no
  cleaning deletes the snapshot (`StoreKept`).

`RestoreExecutorProofs` proves every safety property of run `restore`:
`TypeCorrectness` (`TypeOK`), `RestoresUseWhatExists` (`UsesWhatExists`),
`HandedOverIsWhole` (`RestoredIsWhole`), `DeletionIsWhole` (`DeletedIsGone`) and
`CompleteIsRestoredAlways` (`CompleteIsRestored`). The first invariant, `IInv`,
follows the temporary volume: which identifiers record and copy hold at each
place of `execute` and for each saved progress, that the volume they name exists
wherever a later step will use it, that it holds the whole backup from the end
of the copy on, and that identifiers not yet taken are fresh. The second,
`DoneInv`, follows the volume that is handed over: once the restore is beyond
the step that names it, some volume in `restored` is whole and no later step
touches it; which statuses and exits are possible at which place; and what a
noticed cancel leaves. Both are needed for a restore that moves between zones,
where the temporary volume is deleted after the restored one was made from its
snapshot. `DeletionOK` is a third, independent invariant about the delete task. The steps
of the program are proved first (`RestoreNext`); EC2's own step, a volume that
comes up, disturbs neither invariant (`Unaffected`, `CreatedKeepsIInv`,
`CreatedKeepsDone`).

`ClusterMembershipProofs`: `TypeCorrectness` (`TypeOK`), `MastersAreUnique`
(`OneMaster`), `TheLostStayDown`. The invariant has, beside the types, `Tables`
(lost instances do nothing, what the queue and the events name as terminated is
down, running nodes have a record), `FirstLeads` (while the first master runs,
its record and its dispatcher's copy of it keep the flag), `ElectedAfterFirst`
(no election while it runs) and `LeadersAreLow` (whoever leads after it is below
every running member). `OneMaster` follows,
since of two such nodes the lower one cannot have been a member at the start.

`ClusterTasksProofs` carries this over to the composition and proves every
safety property of run `cluster_tasks`. `MembershipIsImplemented` shows that
each step of `ClusterTasks` is a step of `ClusterMembership` or leaves its
variables alone, so the invariant of the membership holds with tasks too.
`TasksTypesHold` is `TasksTypeOK`, and `MastersAreUniqueWithTasks` is
`OneMaster`. For `ExecutionsAreSingle` (`SingleExecution`) the invariant `CInv`
says what holds while no instance is lost (`Calm`): nothing is published or
elected, so only the first master distributes, and the field worker of a record
works as a lock. Whoever holds or executes a task is its recorded worker
(`HandsAreOwners`, `ExecutionsAreOwners`), and what the master's copies offer has
no worker in the table (`CopiesAreFree`). A removal leaves the worker of the record
as it is, and a save by the worker that brings a removed record back does too. `NodesAreNotOverloaded`
(`NoOverload`) needs besides that no task was removed: then the copies of the
distribution are current (`NothingIsRemoved`), the free workers it counted are at
most threads minus load (`FreeIsFree`), and nothing but an assignment adds to
the load of a node. Lemmas say of each group of actions what it
can add to a load, and that an assignment uses up one free worker.

The last section of that module is about clusters that do lose instances.
`OnlyOrphansGivenBack` is not true of every cluster (section 4), and the two
theorems say when it is. `OneSchedulerFreesOrphansOnly`: as long as no two nodes
have the master's jobs. `OrphansOnlyAreFreed`: in every state in which the first
node runs or no instance was launched. Their invariant `OrphansInv` says that
nothing names a node that was never launched (`NamedWereSeen`), so that a node
that joins after the identifiers were read has no task (`NewcomersAreUnused`)
and gets none, the only scheduler being busy giving back; what has an unknown
worker is therefore left by a node whose end was reported, which never runs again
(`ForeignersAreGone`). `ListenersAreRight` is the half about the listeners, which
holds without a hypothesis.

`RetentionPolicyProofs`: `TypeCorrectness` (`TypeOK`), `LoopsRemoveTheExcess`
(`LoopsFollowPolicy`) and `AllowedBackupsAlwaysStay` (the action property
`AllowedBackupsStay`). The loops go over a sorted enumeration with a recursive
sum, and `Size` is a fold. That both exist and add up in any order is proved by
induction over sets of numbers (`SetInduction`, from the least element of a set
of naturals), which needs no operator as a parameter. The k newest backups are
then the first k of the enumeration (`PlacesCount`), and each loop is one part
of `Excess`. The state invariant says that a picture read earlier is part of the
backups there have been, that the rule in force is the one saved last, and, as
long as one rule was saved, that what a thread, the queue or the history holds for
deletion, but for deletions by hand, is in excess of it; `ExcessStays` shows
that a backup in excess stays so when backups and days are added, which is why old
pictures do no harm.

`TasksPageProofs`: `TypeCorrectness` (`TypeOK`), `CompleteRowsStay`
(`CompleteStays`) and `PageCatchesUp` (`ViewCatchesUp`). For the first, an
executor that has saved "complete" has no save of "running" left (`NoReturn`),
and no answer behind one that says "complete" says "running" (`AnswersOrdered`).
For the second, `Pledged` says of every state in which the task has ended, the
page was told and nothing went wrong that the row is up to date, or that a
notification, a request or an answer that will bring it is under way.

Only model-checked: the liveness properties of `dispatch_liveness`,
`backup_interrupted`, `restore`, `cluster_orphans`, `retention` and `web`. They
rest on fairness, which is outside of the prover's reach.

## 7. Not modelled

`PROJECT.json` lists each component with what is left out of it. In short:

* `UserServiceImpl`, queue admission and `RetryInterceptor` are check-then-act
  code or a loop of a few lines. What goes wrong there takes two steps and is
  described by findings; a model would restate it.
* Set-up, system restore and upgrades are linear sequences of I/O that nothing
  runs beside. The volume cache, the configuration getters, logs, mails and
  security keep no state that these properties are about.
* Of the web front end, the pages other than the Tasks page show the answer to
  one request. `WebContent/lib` and the bundle `esnap.min.js` are vendored or
  generated code: of the 74,730 lines of JavaScript in the repository about
  2,700 are its own, and its logic is in the Java sources.
* Failing DynamoDB calls, clocks that differ between nodes, the loss of SQS
  messages and cluster mode inside the steps of a backup or a restore.
