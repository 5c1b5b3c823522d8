--------------------------------- MODULE MCCron ---------------------------------
(***************************************************************************)
(* Small instances of CronExecution for TLC.                               *)
(***************************************************************************)
EXTENDS CronExecution

MCNoBackups == [s \in Services |-> "never"]
================================================================================
