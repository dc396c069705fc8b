-------------------------- MODULE RetentionPolicy --------------------------
(***************************************************************************)
(* RetentionServiceImpl for one volume.  apply runs on the scheduler's     *)
(* thread, on an executor's after a backup and on a request's after a rule *)
(* is saved: it reads the backups, then the rules, and from these two old  *)
(* pictures deletes rules and queues delete tasks, which the dispatcher    *)
(* executes.                                                               *)
(*                                                                         *)
(* Backups are numbered by their time of creation, in milliseconds in the  *)
(* code, which no two of them share here.                                  *)
(***************************************************************************)
EXTENDS Integers, FiniteSets, SequencesExt

CONSTANTS
  Threads,      \* threads that run apply, the scheduler's among them
  Scheduler,    \* the thread that runs it on retentionCronExpression
  Sizes,        \* sizes of backups, in GB
  Rules,        \* rules a user may save
  MaxBackups, MaxDays, MaxRules,   \* bounds
  MaxExtras     \* bound on backups deleted by hand and deletions that fail, together

ASSUME SchedulerAssumption == Scheduler \in Threads
ASSUME SizeAssumption      == Sizes \subseteq Nat
ASSUME RuleAssumption      == Rules \subseteq [size : Nat, count : Nat, days : Nat]
ASSUME BoundsAssumption    == {MaxBackups, MaxDays} \subseteq Nat

VARIABLES
  now,        \* the current day
  created,    \* backups so far
  dayOf, sizeOf, \* of each backup
  stored,     \* the Backups table
  rule,       \* the Retention table: a set of at most one rule
  queued,     \* backups with a delete task that is to be executed
  history,    \* backups with a delete task that was executed
  thread,     \* the threads: where they are in apply and what they have read
  policy,     \* history: the rule saved last
  byHand,     \* history: the backups a user deleted
  changes, failures  \* history: rules saved, deletions that failed

files    == <<created, dayOf, sizeOf>>
counters == <<byHand, changes, failures>>
vars     == <<now, files, stored, rule, queued, history, thread, policy, counters>>

Ids  == 1..MaxBackups
Idle == [pc |-> "idle", backups |-> {}, toRemove |-> {}]
Pcs  == {"idle", "apply", "getRetentions", "deleteRule", "deleteBackup", "saveTasks"}

-----------------------------------------------------------------------------
(* The loops of apply: each takes the backups of the volume, newest first  *)

\* Deviation: the comparator of the set puts the oldest backup first.
oldestFirst(backups) ==
  CHOOSE values \in [1..Cardinality(backups) -> backups] :
    \A i, j \in DOMAIN values : i < j => values[i] < values[j]

newestFirst(backups) ==
  CHOOSE values \in [1..Cardinality(backups) -> backups] :
    \A i, j \in DOMAIN values : i < j => values[i] > values[j]

\* Size of the first n backups.
sumOfSizes(values) ==
  LET sum[n \in 0..Len(values)] == IF n = 0 THEN 0 ELSE sum[n - 1] + sizeOf[values[n]]
  IN  sum

\* Deviation: the backup with which the limit is passed is kept.
applySizeRetentionLate(values, limit) ==
  {values[i] : i \in {n \in 1..Len(values) : limit > 0 /\ sumOfSizes(values)[n - 1] > limit}}

\* The loop stops at the first backup with which the limit is passed.
applySizeRetention(values, limit) ==
  LET exceeds == {n \in 1..Len(values) : sumOfSizes(values)[n] > limit}
  IN  IF limit = 0 \/ exceeds = {} THEN {} ELSE {values[i] : i \in Min(exceeds)..Len(values)}

applyCountRetention(values, count) ==
  IF count = 0 THEN {} ELSE {values[i] : i \in (count + 1)..Len(values)}

applyDayRetention(values, days) ==
  IF days = 0 THEN {} ELSE {b \in ToSet(values) : now > dayOf[b] + days}

backupsToRemove(backups, r) ==
  LET values == newestFirst(backups)
  IN  applySizeRetention(values, r.size) \union applyCountRetention(values, r.count)
        \union applyDayRetention(values, r.days)

isEmpty(r) == r.size < 1 /\ r.count < 1 /\ r.days < 1

-----------------------------------------------------------------------------
Init ==
  /\ now = 0 /\ created = 0
  /\ dayOf = [b \in Ids |-> 0] /\ sizeOf = [b \in Ids |-> 0]
  /\ stored = {} /\ rule = {} /\ queued = {} /\ history = {}
  /\ thread = [t \in Threads |-> Idle]
  /\ policy = {}
  /\ byHand = {} /\ changes = 0 /\ failures = 0

At(t, here) == thread[t].pc = here
Goto(t, there) == thread' = [thread EXCEPT ![t].pc = there]
\* Deviation: what apply has read is kept in fields that outlive it.
ReturnKeeping(t) == Goto(t, "idle")

Return(t) == thread' = [thread EXCEPT ![t] = Idle]

\* The scheduler runs apply on its cron expression.
cronApply ==
  /\ At(Scheduler, "idle")
  /\ Goto(Scheduler, "apply")
  /\ UNCHANGED <<now, files, stored, rule, queued, history, policy, counters>>

\* A request saves a rule and goes on to apply.
putRetention(t, r) ==
  /\ t # Scheduler
  /\ At(t, "idle")
  /\ changes < MaxRules
  /\ changes' = changes + 1
  /\ rule' = {r} /\ policy' = {r}
  /\ Goto(t, "apply")
  /\ UNCHANGED <<now, files, stored, queued, history, byHand, failures>>

\* A backup is stored; its executor goes on to apply.
saveBackup(t, size) ==
  /\ t # Scheduler
  /\ At(t, "idle")
  /\ created < MaxBackups
  /\ created' = created + 1
  /\ dayOf'  = [dayOf EXCEPT ![created'] = now]
  /\ sizeOf' = [sizeOf EXCEPT ![created'] = size]
  /\ stored' = stored \union {created'}
  /\ Goto(t, "apply")
  /\ UNCHANGED <<now, rule, queued, history, policy, counters>>

getBackups(t) ==
  /\ At(t, "apply")
  /\ thread' = [thread EXCEPT ![t].pc = "getRetentions", ![t].backups = stored]
  /\ UNCHANGED <<now, files, stored, rule, queued, history, policy, counters>>

\* Deviation: rules that set no limit are kept for ever.
getRetentionsKeepsEmpty(t) ==
  /\ At(t, "getRetentions")
  /\ \/ /\ rule = {} \/ thread[t].backups = {}
        /\ Return(t)
     \/ \E r \in rule :
          /\ thread[t].backups # {}
          /\ thread' = [thread EXCEPT ![t].pc = "deleteBackup", ![t].backups = {},
                                      ![t].toRemove = backupsToRemove(thread[t].backups, r)]
  /\ UNCHANGED <<now, files, stored, rule, queued, history, policy, counters>>

\* A rule goes if it sets no limit, or if its volume had no backup.
getRetentions(t) ==
  /\ At(t, "getRetentions")
  /\ \/ rule = {} /\ Return(t)
     \/ \E r \in rule :
          IF isEmpty(r) \/ thread[t].backups = {}
            THEN thread' = [thread EXCEPT ![t].pc = "deleteRule", ![t].backups = {}]
            ELSE thread' = [thread EXCEPT ![t].pc = "deleteBackup", ![t].backups = {},
                                          ![t].toRemove = backupsToRemove(thread[t].backups, r)]
  /\ UNCHANGED <<now, files, stored, rule, queued, history, policy, counters>>

deleteRule(t) ==
  /\ At(t, "deleteRule")
  /\ rule' = {}
  /\ Return(t)
  /\ UNCHANGED <<now, files, stored, queued, history, policy, counters>>

HasTask(b) == b \in queued \union history

\* Deviation: a delete task of any backup of the volume counts.
deleteBackupOfVolume(t) ==
  /\ At(t, "deleteBackup")
  /\ thread' = [thread EXCEPT ![t].pc = "saveTasks",
                              ![t].toRemove = {b \in @ : queued \union history = {}}]
  /\ UNCHANGED <<now, files, stored, rule, queued, history, policy, counters>>

\* deleteBackup looks for delete tasks one by one; a task that was executed, in
\* whatever way, counts as well, for nothing ever removes it from the table.
deleteBackup(t) ==
  /\ At(t, "deleteBackup")
  /\ thread' = [thread EXCEPT ![t].pc = "saveTasks", ![t].toRemove = {b \in @ : ~HasTask(b)}]
  /\ UNCHANGED <<now, files, stored, rule, queued, history, policy, counters>>

saveTasks(t) ==
  /\ At(t, "saveTasks")
  /\ queued' = queued \union thread[t].toRemove
  /\ Return(t)
  /\ UNCHANGED <<now, files, stored, rule, history, policy, counters>>

ExtraAllowed == Cardinality(byHand) + failures < MaxExtras

\* BackupServiceImpl.deleteBackup for a backup a user picked.
deleteByHand(b) ==
  /\ b \in stored /\ ~HasTask(b)
  /\ ExtraAllowed
  /\ byHand' = byHand \union {b}
  /\ queued' = queued \union {b}
  /\ UNCHANGED <<now, files, stored, rule, history, thread, policy, changes, failures>>

\* AWSDeleteTaskExecutor: what fails is skipped, and the task is complete.
executeDelete(b) ==
  /\ b \in queued
  /\ queued'  = queued \ {b}
  /\ history' = history \union {b}
  /\ \/ stored' = stored \ {b} /\ UNCHANGED failures
     \/ ExtraAllowed /\ failures' = failures + 1 /\ UNCHANGED stored
  /\ UNCHANGED <<now, files, rule, thread, policy, byHand, changes>>

nextDay ==
  /\ now < MaxDays
  /\ now' = now + 1
  /\ UNCHANGED <<files, stored, rule, queued, history, thread, policy, counters>>

-----------------------------------------------------------------------------
ApplyStep(t) == getBackups(t) \/ getRetentions(t) \/ deleteRule(t) \/ deleteBackup(t) \/ saveTasks(t)

Next ==
  \/ cronApply
  \/ \E t \in Threads : \/ ApplyStep(t)
                        \/ \E r \in Rules : putRetention(t, r)
                        \/ \E s \in Sizes : saveBackup(t, s)
  \/ \E b \in Ids : deleteByHand(b) \/ executeDelete(b)
  \/ nextDay

Spec == Init /\ [][Next]_vars

\* The cron job comes up again and again, threads go on, and so does the
\* dispatcher.  Nobody owes a backup, a rule or a new day.
Fairness ==
  /\ WF_vars(cronApply)
  /\ \A t \in Threads : WF_vars(ApplyStep(t))
  /\ \A b \in Ids : WF_vars(executeDelete(b))

FairSpec == Spec /\ Fairness

-----------------------------------------------------------------------------
(* Properties                                                              *)

\* The type invariant; a thread that is not in apply remembers nothing of it.
TypeOK ==
  /\ now \in 0..MaxDays /\ created \in 0..MaxBackups
  /\ dayOf \in [Ids -> 0..MaxDays] /\ sizeOf \in [Ids -> Sizes \union {0}]
  /\ stored \subseteq 1..created /\ queued \subseteq Ids /\ history \subseteq Ids
  /\ {rule, policy} \subseteq SUBSET Rules
  /\ Cardinality(rule) <= 1
  /\ thread \in [Threads -> [pc : Pcs, backups : SUBSET Ids, toRemove : SUBSET Ids]]
  /\ \A t \in Threads : At(t, "idle") => thread[t] = Idle

Size(backups) == FoldSet(LAMBDA b, sum : sum + sizeOf[b], 0, backups)
UpTo(b, backups) == {c \in backups : c >= b}

\* What a rule asks for, backup by backup (README.md:224): the backup and the newer ones are
\* too many or too much, or it is too old.
Excess(backups, r) ==
  {b \in backups : \/ r.count > 0 /\ Cardinality(UpTo(b, backups)) > r.count
                   \/ r.size > 0 /\ Size(UpTo(b, backups)) > r.size
                   \/ r.days > 0 /\ now > dayOf[b] + r.days}

\* Numeric edges: the three loops remove exactly the backups in excess, for every rule and
\* every set of backups, at the limits and with limits of zero too.
LoopsFollowPolicy == \A r \in Rules : backupsToRemove(stored, r) = Excess(stored, r)

\* Stale state: although every apply works on pictures of the tables that others have changed
\* since, no backup is lost that no user deleted and that the only rule ever saved allows to stay.
AllowedBackupsStay ==
  changes <= 1
    => \A b \in 1..created \ byHand :
         (\A r \in policy : b \notin Excess(1..created, r)) => b \in stored

\* No rule without a limit outlives the next run of the job, unless it is changed.
EmptyRuleIsRemoved ==
  \A r \in Rules : isEmpty(r) => (rule = {r} ~> rule # {r})

\* The rule in force is enforced: a backup in excess goes away, unless the rule changes, or a
\* delete task of it was executed already and failed to remove it.
ExcessIsRemoved ==
  \A b \in Ids :
    (\E r \in rule : b \in stored /\ b \in Excess(stored, r))
      ~> (b \notin stored \/ b \in history \/ \A r \in rule : b \notin Excess(stored, r))

\* A rule that sets a limit stays as long as the volume has a backup.  The code does not keep
\* this: apply removes a rule that is saved before the first backup (see the findings).
RuleSurvives == \A r \in policy : ~isEmpty(r) /\ stored # {} => rule = policy
=============================================================================
