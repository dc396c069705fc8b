-------------------------- MODULE MCBackupExecutor --------------------------
(***************************************************************************)
(* Small instances of BackupExecutor.  A task takes at most one volume per *)
(* execution and one snapshot more than the crashes that hit it, so there  *)
(* is always a fresh identifier.                                           *)
(***************************************************************************)
EXTENDS BackupExecutor, TLC

Symmetry == Permutations(VolumeIds) \union Permutations(SnapshotIds)
=============================================================================
