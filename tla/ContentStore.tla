---------------------------- MODULE ContentStore ----------------------------
(***************************************************************************)
(* What the worktree cache promises its users (docs/prd-package-manager.md *)
(* FR-020): a store of immutable content that only grows, and a resolve     *)
(* that hands a process nothing but content the store holds.                *)
(***************************************************************************)
CONSTANTS Procs, Commits, NoCommit

VARIABLES store,    \* the commits whose complete tree is published
          handed    \* [Procs -> the commit whose tree the process may use]

vars == <<store, handed>>

Init == store = {} /\ handed = [p \in Procs |-> NoCommit]

Publish(c) == store' = store \cup {c} /\ UNCHANGED handed

Hand(p, c) == c \in store /\ handed' = [handed EXCEPT ![p] = c] /\ UNCHANGED store

Return(p) == handed' = [handed EXCEPT ![p] = NoCommit] /\ UNCHANGED store

Next == \/ \E c \in Commits : Publish(c)
        \/ \E p \in Procs : Return(p) \/ \E c \in Commits : Hand(p, c)

Spec == Init /\ [][Next]_vars
=============================================================================
