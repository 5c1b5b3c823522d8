------------------------------- MODULE MCBackups -------------------------------
(***************************************************************************)
(* Small instances of Backups for TLC.                                     *)
(***************************************************************************)
EXTENDS Backups

\* Two items to back up, one that stands in the way of a restore.
MCOwn == [s \in Services |-> IF s = "source" THEN {1, 2} ELSE {3}]
================================================================================
