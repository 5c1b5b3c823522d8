------------------------------- MODULE MCVolumes -------------------------------
(***************************************************************************)
(* Small instances of Volumes for TLC.                                     *)
(***************************************************************************)
EXTENDS Volumes, TLC

MCOwnVolume ==
  [s \in Applications \cup Databases |->
     IF s = "app" THEN "app-data" ELSE IF s = "web" THEN "web-data" ELSE "db-data"]

MCSymmetry == Permutations(Sessions)
================================================================================
