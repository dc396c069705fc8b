------------------------- MODULE MCRestoreExecutor -------------------------
(***************************************************************************)
(* Small instances of RestoreExecutor.  An execution creates at most two   *)
(* volumes and one snapshot, and there is one execution more than restarts.*)
(***************************************************************************)
EXTENDS RestoreExecutor
=============================================================================
