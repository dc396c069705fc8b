-------------------------- MODULE MCTaskRejection ---------------------------
(***************************************************************************)
(* One backup, one restore and one thread for each: enough for a rejection *)
(* to meet every step of a task.                                           *)
(***************************************************************************)
EXTENDS TaskRejection

CONSTANTS b1, r1

MCTypeOf == [t \in Tasks |-> IF t = b1 THEN "backup" ELSE "restore"]
=============================================================================
