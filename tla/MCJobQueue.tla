------------------------------ MODULE MCJobQueue ------------------------------
(***************************************************************************)
(* Small instances of JobQueue for TLC.                                    *)
(***************************************************************************)
EXTENDS JobQueue

\* "app" is a web service with a volume, "cron" a scheduled service with one,
\* "db" a database.
MCBackupState == [s \in Services |-> IF s = "db" THEN "running" ELSE "stopped"]
==============================================================================
