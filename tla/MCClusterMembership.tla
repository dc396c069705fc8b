------------------------ MODULE MCClusterMembership ------------------------
(***************************************************************************)
(* Small instances of ClusterMembership: nodes are numbers, since the      *)
(* election goes by the lowest identifier.  The first master is not the    *)
(* lowest of the members, so that an election may move the role down.      *)
(***************************************************************************)
EXTENDS ClusterMembership

MCNodes   == 1 .. 3
MCMembers == {2, 3}

\* Bound: an instance is launched or a program restarted, never both.
MCFewFaults == faults.launches + faults.restarts <= 1
=============================================================================
