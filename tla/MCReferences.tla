------------------------------ MODULE MCReferences ------------------------------
(***************************************************************************)
(* Small instances of References for TLC.                                  *)
(***************************************************************************)
EXTENDS References, TLC

MCSymmetry == Permutations(Applications)

\* The pairs of requests whose overlap breaks a property of this module.  All
\* other pairs overlap in the runs.
MCSerial ==
  {{"set reference"}, {"set reference", "rename"}, {"set reference", "delete"},
   {"set reference", "set variable"}, {"set reference", "bind database"},
   {"set reference", "bind bucket"},
   {"bind bucket"}, {"bind bucket", "set variable"}, {"bind bucket", "rename"},
   {"bind bucket", "delete"}, {"bind bucket", "bind database"},
   {"rotate", "unbind"}, {"rename", "delete"},
   {"rename", "bind database"}, {"delete", "bind database"}}
================================================================================
