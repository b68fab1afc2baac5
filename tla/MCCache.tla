------------------------------- MODULE MCCache -------------------------------
(* Instances of BufferCache for TLC: users and sectors are interchangeable. *)
EXTENDS BufferCache, TLC

Symmetry == Permutations(User) \cup Permutations(Sector)
=============================================================================
