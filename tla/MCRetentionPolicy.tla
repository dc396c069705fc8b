------------------------- MODULE MCRetentionPolicy -------------------------
(***************************************************************************)
(* Two backups of one or three GB are enough for every limit to be met     *)
(* exactly, passed by the first backup and passed by a later one.          *)
(***************************************************************************)
EXTENDS RetentionPolicy

MCRules == {[size |-> 0, count |-> 0, days |-> 0], [size |-> 0, count |-> 1, days |-> 0],
            [size |-> 2, count |-> 0, days |-> 1]}
=============================================================================
