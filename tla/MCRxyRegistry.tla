---------------------------- MODULE MCRxyRegistry ----------------------------
(* A small instance of RxyRegistry.                                         *)
EXTENDS RxyRegistry, TLC

Swaps == Permutations(Inodes) \cup Permutations(Commits) \cup Permutations(Procs)
=============================================================================
