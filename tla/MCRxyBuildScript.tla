-------------------------- MODULE MCRxyBuildScript --------------------------
(* Small instances of RxyBuildScript.                                       *)
EXTENDS RxyBuildScript, TLC

Swaps == Permutations(Procs) \cup Permutations(Texts) \cup Permutations(EnvValues)
=============================================================================
