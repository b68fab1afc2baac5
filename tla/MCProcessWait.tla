---------------------------- MODULE MCProcessWait ----------------------------
(* Instances of ProcessWait for TLC.  No symmetry: the run checks a liveness  *)
(* property.                                                                  *)
EXTENDS ProcessWait, TLC
=============================================================================
