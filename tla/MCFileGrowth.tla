----------------------------- MODULE MCFileGrowth -----------------------------
(* Instances of FileGrowth for TLC: writers are interchangeable. *)
EXTENDS FileGrowth, TLC

Symmetry == Permutations(Writer)
===============================================================================
