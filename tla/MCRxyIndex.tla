---- MODULE MCRxyIndex ----
(* RxyIndex for TLC. *)
EXTENDS RxyIndex, TLC

Swaps == Permutations(Procs)

====
