----------------------------- MODULE MCRxyCache -----------------------------
(* Small instances of RxyCache: two processes, a repository and its mirror. *)
EXTENDS RxyCache, TLC

CONSTANTS u1, u2, c1, c2

Ask(u, ref, offline, pin) == [url |-> u, ref |-> ref, offline |-> offline, pin |-> pin]

\* A repository and its mirror asked for the same commit: both locks matter.
\* The repository's tag is pinned to it, online and offline.
MirrorRequests == {Ask(u1, "tag", FALSE, c1), Ask(u1, "tag", TRUE, c1),
                   Ask(u2, c1, FALSE, NoCommit)}

\* One repository whose tag and HEAD move.
TagRequests == {Ask(u1, "tag", FALSE, NoCommit)}

Twins == Permutations(Procs)
=============================================================================
