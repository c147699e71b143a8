---------------------------- MODULE MCRxyProcess ----------------------------
(* Small instances of RxyProcess: the callers and the children are alike.   *)
EXTENDS RxyProcess, TLC

Callers == Permutations(Threads)
=============================================================================
