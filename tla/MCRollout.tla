------------------------------- MODULE MCRollout -------------------------------
(***************************************************************************)
(* Small instances of Rollout for TLC.                                     *)
(***************************************************************************)
EXTENDS Rollout

MCNoBackups == [s \in Services |-> "never"]
================================================================================
