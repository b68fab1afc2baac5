----------------------------- MODULE MCInodeTable -----------------------------
(* Instances of InodeTable for TLC. *)
EXTENDS InodeTable, TLC

Symmetry == Permutations(Thread) \cup Permutations(Inode)
===============================================================================
