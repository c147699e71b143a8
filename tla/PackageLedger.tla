---------------------------- MODULE PackageLedger ----------------------------
(***************************************************************************)
(* What the registry promises of one package: entries are added one at a    *)
(* time, never removed, and change in their yanked mark alone; a resolution *)
(* is handed the highest entry that is not yanked, as it is at one moment.  *)
(* It holds until two commands, or a command and the author's git, get into *)
(* each other's way.                                                        *)
(***************************************************************************)
EXTENDS Integers

CONSTANTS Procs, Versions, Commits, NoEntry

VARIABLES entries,  \* [Versions -> entry or NoEntry]
          handed,   \* [Procs -> the version and entry it resolved to]
          steady

Init == /\ entries = [v \in Versions |-> NoEntry]
        /\ handed = [p \in Procs |-> NoEntry]
        /\ steady = TRUE

\* The version is new, and its checksum is the one of its commit.
Publish(v, c) ==
    /\ entries[v] = NoEntry
    /\ entries' = [entries EXCEPT ![v] = [commit |-> c, checksum |-> c, yanked |-> FALSE]]
    /\ UNCHANGED handed

Mark(v, yanked) ==
    /\ entries[v] # NoEntry
    /\ entries' = [entries EXCEPT ![v].yanked = yanked]
    /\ UNCHANGED handed

Available == {v \in Versions : entries[v] # NoEntry /\ ~entries[v].yanked}

Hand(p, v) ==
    /\ v \in Available /\ \A w \in Available : w <= v
    /\ handed' = [handed EXCEPT ![p] = <<v, entries[v]>>]
    /\ UNCHANGED entries

Return(p) == handed' = [handed EXCEPT ![p] = NoEntry] /\ UNCHANGED entries

Change == \/ \E v \in Versions : \/ \E c \in Commits : Publish(v, c)
                                 \/ \E yanked \in BOOLEAN : Mark(v, yanked)
          \/ \E p \in Procs : Return(p) \/ \E v \in Versions : Hand(p, v)

Next == \/ steady /\ Change /\ UNCHANGED steady
        \/ steady' = FALSE      \* from here on nothing is promised

Spec == Init /\ [][Next]_<<entries, handed, steady>>
=============================================================================
