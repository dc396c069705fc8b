--------------------------- MODULE TaskRejection ----------------------------
(***************************************************************************)
(* TaskDispatch observed by the user who rejects tasks: which running      *)
(* tasks were canceled, which others removed, and what became of them.     *)
(* The observer adds a history and constrains nothing.                     *)
(***************************************************************************)
EXTENDS TaskDispatch

VARIABLES
  rejected,    \* running tasks whose removeTask request was answered: canceling
  removed      \* other tasks whose removeTask request was answered: deleted

rejectionVars == <<vars, rejected, removed>>

RejectionInit == Init /\ rejected = {} /\ removed = {}

\* removeTask returns after the refresh of the canceled tasks or after the
\* deletion; a node that restarts before that has answered nothing.
acknowledge ==
  /\ req.pc # "idle"
  /\ req'.pc = "idle"
  /\ restarts' = restarts

RejectionNext ==
  /\ Next
  /\ IF acknowledge
     THEN IF req.pc = "refresh"
          THEN rejected' = rejected \union {req.task} /\ UNCHANGED removed
          ELSE removed' = removed \union {req.task} /\ UNCHANGED rejected
     ELSE UNCHANGED <<rejected, removed>>

RejectionSpec == RejectionInit /\ [][RejectionNext]_rejectionVars

Completes(t) == status[t] # "complete" /\ status'[t] = "complete"

\* A running task whose cancel was answered turns complete only while the
\* cancel is still on record in canceledTasks, where the check after complete
\* finds it: checkThreadInterruption throws "if task has been canceled"
\* (AbstractAWSVolumeTaskExecutor.java:64).
RejectedDoesNotComplete ==
  [][\A t \in rejected : Completes(t) => t \in canceled]_rejectionVars

\* A task that was removed before it ran has no record again: the dispatcher
\* looks for the record (WorkersDispatcher.java:134) in order to skip it.
RemovedStaysRemoved ==
  [][\A t \in removed : status[t] = "absent" => status'[t] = "absent"]_rejectionVars
=============================================================================
