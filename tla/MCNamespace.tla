------------------------------ MODULE MCNamespace ------------------------------
(* Instances of Namespace for TLC: processes are interchangeable, and names. *)
EXTENDS Namespace, TLC

Symmetry == Permutations(Process) \cup Permutations(Name)
===============================================================================
