----------------------------- MODULE MCRxyBuild -----------------------------
(* Small instances of RxyBuild: one git and one registry dependency. *)
EXTENDS RxyBuild, TLC

Mode(isLocked, isOffline) == [locked |-> isLocked, offline |-> isOffline]

\* rxy build, rxy build --locked, rxy --offline build.
Commands == {Plain, Mode(TRUE, FALSE), Mode(FALSE, TRUE)}

Swaps == Permutations(Inodes) \cup Permutations(Commits) \cup Permutations(Targets)
=============================================================================
