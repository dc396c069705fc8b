--------------------------- MODULE MCClusterTasks ---------------------------
(***************************************************************************)
(* Small instances of ClusterTasks: two nodes, of which the higher is the  *)
(* first master, so that an election moves the role down.                  *)
(***************************************************************************)
EXTENDS ClusterTasks

CONSTANTS b1, r1, g1, s1

MCTypeOf == [t \in Tasks |-> CASE t = r1 -> "restore" [] t = s1 -> "system_backup" [] OTHER -> "backup"]
=============================================================================
