-------------------------------- MODULE MCBuilds --------------------------------
(***************************************************************************)
(* Small instances of Builds for TLC.                                      *)
(***************************************************************************)
EXTENDS Builds, TLC

\* Deployments have no order here, so they are interchangeable.
MCSymmetry == Permutations(Releases)
================================================================================
