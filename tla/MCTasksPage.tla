---------------------------- MODULE MCTasksPage ----------------------------
(***************************************************************************)
(* One task of each kind: their notifications tell them apart, and the     *)
(* page treats the rows of different tasks one by one.                     *)
(***************************************************************************)
EXTENDS TasksPage

AllKinds == {"backup", "restore", "delete"}

\* A second page whose answers mix with those of the first.
Pages == [kind \in AllKinds |-> IF kind = "delete" THEN 2 ELSE 1]
=============================================================================
