---------------------------- MODULE MCAtomicFile ----------------------------
(* AtomicWrites with model values: the writers, the texts and the inodes are alike. *)
EXTENDS AtomicWrites, TLC
Symmetric == Permutations(Inodes) \cup Permutations(Contents) \cup Permutations(Writers)
=============================================================================
