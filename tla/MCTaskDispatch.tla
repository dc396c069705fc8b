--------------------------- MODULE MCTaskDispatch ---------------------------
(***************************************************************************)
(* Small instances of TaskDispatch: b1 and b2 are backups, r1 a restore,   *)
(* d1 the deletion of a backup, s1 a system backup.  Each configuration    *)
(* takes the tasks its question needs.                                     *)
(***************************************************************************)
EXTENDS TaskDispatch

CONSTANTS b1, b2, r1, d1, s1

MCTypeOf ==
  [t \in Tasks |-> CASE t \in {b1, b2} -> "backup"
                     [] t = r1         -> "restore"
                     [] t = d1         -> "delete"
                     [] t = s1         -> "system_backup"]
=============================================================================
