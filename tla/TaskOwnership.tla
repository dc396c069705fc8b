--------------------------- MODULE TaskOwnership ----------------------------
(***************************************************************************)
(* What the dispatcher and its pools promise about task entries, without   *)
(* saying how: an entry is offered, at most one hand takes it, and it is   *)
(* offered again only after a restart has emptied all hands.               *)
(***************************************************************************)
EXTENDS Naturals

CONSTANT Tasks

VARIABLES
  used,       \* tasks that were ever written
  offered,    \* tasks the dispatcher may pick
  inFlight    \* for each task, how many hands hold a submitted entry of it

ownershipVars == <<used, offered, inFlight>>

OwnershipInit ==
  /\ used = {}
  /\ offered = {}
  /\ inFlight = [t \in Tasks |-> 0]

\* A request writes a new task.
Offer(t) ==
  /\ t \notin used
  /\ used' = used \union {t}
  /\ offered' = offered \union {t}
  /\ UNCHANGED inFlight

\* The task is claimed, executed by the dispatcher itself, removed or failed.
Withdraw(t) ==
  /\ offered' = offered \ {t}
  /\ UNCHANGED <<used, inFlight>>

\* A claimed task is given to a pool that does not have it.
Submit(t) ==
  /\ t \in used
  /\ t \notin offered
  /\ inFlight[t] = 0
  /\ inFlight' = [inFlight EXCEPT ![t] = 1]
  /\ UNCHANGED <<used, offered>>

\* The one hand that holds the task lets it go.
Release(t) ==
  /\ inFlight[t] = 1
  /\ inFlight' = [inFlight EXCEPT ![t] = 0]
  /\ UNCHANGED <<used, offered>>

\* All hands are empty; some of the tasks are offered again.
Restart ==
  /\ inFlight' = [t \in Tasks |-> 0]
  /\ \E again \in SUBSET used : offered' = offered \union again
  /\ UNCHANGED used

OwnershipNext ==
  \/ \E t \in Tasks : Offer(t) \/ Withdraw(t) \/ Submit(t) \/ Release(t)
  \/ Restart

Spec == OwnershipInit /\ [][OwnershipNext]_ownershipVars
=============================================================================
