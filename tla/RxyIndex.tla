------------------------------ MODULE RxyIndex ------------------------------
(***************************************************************************)
(* The local clone of a git-backed registry index: every online resolution *)
(* of a registry dependency refreshes it when its stamp is older than the  *)
(* ttl, and reads a package file of it.  Nothing locks the directory.      *)
(* Translated from load_config, has_conflict_markers and refresh_if_stale  *)
(* of rxy/registry/registry.cpp, and their caller resolve_registry_dep in  *)
(* rxy/source/source.cpp.  RxyRegistry is about what the files say.        *)
(***************************************************************************)
EXTENDS Naturals

CONSTANTS
    Procs,          \* rxy processes
    MaxHead         \* bound: the commits that upstream makes

ASSUME HeadAssumption == MaxHead \in Nat \ {0}

None == 0           \* no package file

VARIABLES
    used,       \* index_root has something in it: git does not clone into it
    git,        \* index_root/.git
    file,       \* the package file: the upstream commit it is of, or None
    stamp,      \* .last-fetch, by its age
    markers,    \* config.toml has conflict markers
    edited,     \* rxy publish wrote the package file, and nobody committed it
    head,       \* upstream's last commit
    pc, fetched,    \* per process: its control point; upstream's last commit when
                    \*   its git asked for it
    due,        \* history: upstream's commit when a stamp last came of age
    since,      \* history: due, when the process looked at the stamp
    calm        \* history: no process emptied or cloned the index while another
                \*   was using it, or was killed in emptying it after another had
                \*   refreshed it

indexVars == <<used, git, file, stamp, markers, edited>>
vars == <<indexVars, head, pc, fetched, due, since, calm>>

TypeOK ==
    /\ used \in BOOLEAN /\ markers \in BOOLEAN /\ edited \in BOOLEAN /\ calm \in BOOLEAN
    /\ git \in {"none", "half", "whole"}    \* half: git was killed in it
    /\ stamp \in {"none", "fresh", "old"}
    /\ head \in 1..MaxHead /\ file \in None..head /\ due \in None..head
    /\ fetched \in [Procs -> 0..head] /\ since \in [Procs -> 0..due]
    /\ pc \in [Procs -> {"idle", "check", "probe", "decide", "remove", "clone", "cloning",
                         "pull", "pulling", "stamp", "lookup", "offline lookup"}]

Init ==
    /\ used = FALSE /\ git = "none" /\ file = None /\ stamp = "none"
    /\ markers = FALSE /\ edited = FALSE
    /\ head = 1 /\ due = None
    /\ pc = [p \in Procs |-> "idle"] /\ fetched = [p \in Procs |-> 0] /\ since = fetched
    /\ calm = TRUE

-----------------------------------------------------------------------------
Goto(p, l) == pc' = [pc EXCEPT ![p] = l]
Emptying == {"remove", "clone", "cloning"}
Alone(p) == \A q \in Procs \ {p} : pc[q] = "idle"
Undisturbed(p) == \A q \in Procs \ {p} : pc[q] \notin Emptying

\* remove_all; ensure_dir makes no difference to git clone.
Emptied ==
    /\ used' = FALSE /\ git' = "none" /\ file' = None /\ stamp' = "none"
    /\ markers' = FALSE /\ edited' = FALSE

\* open_default: load_config creates index_root/packages.
Open(p) ==
    /\ pc[p] = "idle"
    /\ used' = TRUE
    /\ calm' = (calm /\ Undisturbed(p))
    /\ \/ Goto(p, "check")
       \/ Goto(p, "offline lookup")
    /\ UNCHANGED <<git, file, stamp, markers, edited, head, fetched, due, since>>

\* The stamp is looked at: a fresh one ends the refresh.
Check(p) ==
    /\ pc[p] = "check"
    /\ Goto(p, IF stamp = "fresh" THEN "lookup" ELSE "probe")
    /\ since' = [since EXCEPT ![p] = due]
    /\ UNCHANGED <<indexVars, head, fetched, due, calm>>

\* has_conflict_markers: what a merge by hand left is deleted.
Probe(p) ==
    /\ pc[p] = "probe"
    /\ Goto(p, "decide")
    /\ IF markers THEN Emptied /\ calm' = (calm /\ Alone(p))
                  ELSE UNCHANGED <<indexVars, calm>>
    /\ UNCHANGED <<head, fetched, due, since>>

\* Is there a .git?
Decide(p) ==
    /\ pc[p] = "decide"
    /\ Goto(p, IF git = "none" THEN "remove" ELSE "pull")
    /\ calm' = (calm /\ (git = "none" => Alone(p)))
    /\ UNCHANGED <<indexVars, head, fetched, due, since>>

Remove(p) ==
    /\ pc[p] = "remove"
    /\ Emptied
    /\ Goto(p, "clone")
    /\ UNCHANGED <<head, fetched, due, since, calm>>

\* What upstream has is asked for; the answer takes its time.
Fetch(p) == fetched' = [fetched EXCEPT ![p] = head]

\* git clone wants an empty directory; where it does not find one it fails, and
\* refresh_if_stale throws.
StartClone(p) ==
    /\ pc[p] = "clone"
    /\ IF used
       THEN Goto(p, "idle") /\ UNCHANGED <<used, git, fetched>>
       ELSE Goto(p, "cloning") /\ used' = TRUE /\ git' = "half" /\ Fetch(p)
    /\ UNCHANGED <<file, stamp, markers, edited, head, due, since, calm>>

\* The clone is there, unless the network failed or another process deleted the
\* directory under it: git then removes the directory by its name.
EndClone(p) ==
    /\ pc[p] = "cloning"
    /\ \/ /\ git = "half"
          /\ git' = "whole" /\ file' = fetched[p]
          /\ Goto(p, "stamp")
          /\ UNCHANGED <<used, stamp, markers, edited>>
       \/ Emptied /\ Goto(p, "idle")
    /\ UNCHANGED <<head, fetched, due, since, calm>>

\* git pull --ff-only.
StartPull(p) ==
    /\ pc[p] = "pull"
    /\ Goto(p, "pulling") /\ Fetch(p)
    /\ UNCHANGED <<indexVars, head, due, since, calm>>

\* A pull can fail for the network or another git's locks, and it does in half a
\* clone, after a merge by hand, and where it would overwrite what publish wrote.
PullSucceeds(p) == git = "whole" /\ ~markers /\ (edited => file >= fetched[p])

\* Mutant: the exit code of git pull is not looked at.
EndPullUnchecked(p) ==
    /\ pc[p] = "pulling"
    /\ \/ /\ PullSucceeds(p)
          /\ file' = IF file >= fetched[p] THEN file ELSE fetched[p]
       \/ UNCHANGED file
    /\ Goto(p, "stamp")
    /\ UNCHANGED <<used, git, stamp, markers, edited, head, fetched, due, since, calm>>

\* What git answered is checked out, or refresh_if_stale throws.
EndPull(p) ==
    /\ pc[p] = "pulling"
    /\ \/ /\ PullSucceeds(p)
          /\ file' = IF file >= fetched[p] THEN file ELSE fetched[p]
          /\ Goto(p, "stamp")
       \/ Goto(p, "idle") /\ UNCHANGED file
    /\ UNCHANGED <<used, git, stamp, markers, edited, head, fetched, due, since, calm>>

\* Without the directory nothing is written, and nobody notices.
Stamp(p) ==
    /\ pc[p] = "stamp"
    /\ stamp' = IF used THEN "fresh" ELSE stamp
    /\ Goto(p, "lookup")
    /\ UNCHANGED <<used, git, file, markers, edited, head, fetched, due, since, calm>>

\* The package file is read, and the resolution goes on elsewhere.
Lookup(p) ==
    /\ pc[p] \in {"lookup", "offline lookup"}
    /\ Goto(p, "idle")
    /\ UNCHANGED <<indexVars, head, fetched, due, since, calm>>

\* rxy and its git are killed.  A clone stays as far as it came, a pull may leave
\* git's lock, and a removal may have got anywhere.
Kill(p) ==
    /\ pc[p] # "idle"
    /\ Goto(p, "idle")
    /\ \/ UNCHANGED <<git, file, calm>>
       \/ /\ pc[p] = "pulling" /\ git = "whole" /\ git' = "half"
          /\ UNCHANGED <<file, calm>>
       \/ /\ pc[p] = "remove" \/ (pc[p] = "probe" /\ markers)
          /\ git' \in {"none", git, IF git = "whole" THEN "half" ELSE git}
          /\ file' \in {file, None}
          /\ calm' = (calm /\ Alone(p) /\ stamp # "fresh")
    /\ UNCHANGED <<used, stamp, markers, edited, head, fetched, due, since>>

-----------------------------------------------------------------------------
\* The ttl passes; a refresh takes less time than that.
Age ==
    /\ stamp = "fresh" /\ stamp' = "old"
    /\ \A p \in Procs : pc[p] \notin {"cloning", "pulling", "stamp"}
    /\ due' = head
    /\ UNCHANGED <<used, git, file, markers, edited, head, pc, fetched, since, calm>>

Push ==
    /\ head < MaxHead /\ head' = head + 1
    /\ UNCHANGED <<indexVars, pc, fetched, due, since, calm>>

\* append_entry writes into the clone, and does not look at .git.
Publish ==
    /\ edited' = TRUE /\ used' = TRUE
    /\ calm' = (calm /\ \A p \in Procs : pc[p] \notin Emptying)
    /\ UNCHANGED <<git, file, stamp, markers, head, pc, fetched, due, since>>

\* A user commits and pushes what was published, or has a merge with conflicts.
Commit ==
    /\ git = "whole" /\ edited /\ file = head /\ head < MaxHead
    /\ edited' = FALSE /\ head' = head + 1 /\ file' = head'
    /\ UNCHANGED <<used, git, stamp, markers, pc, fetched, due, since, calm>>

Merge ==
    /\ git = "whole" /\ markers' = TRUE
    /\ UNCHANGED <<used, git, file, stamp, edited, head, pc, fetched, due, since, calm>>

Run(p) ==
    \/ Open(p) \/ Check(p) \/ Probe(p) \/ Decide(p) \/ Remove(p) \/ StartClone(p)
    \/ EndClone(p) \/ StartPull(p) \/ EndPull(p) \/ Stamp(p) \/ Lookup(p)

Next ==
    \/ \E p \in Procs : Run(p) \/ Kill(p)
    \/ Age \/ Push \/ Publish \/ Commit \/ Merge

Spec == Init /\ [][Next]_vars

-----------------------------------------------------------------------------
\* An online resolution reads an index that is there and has all that upstream had
\* when a stamp last came of age (registry.hpp:66: the index is pulled "if older
\* than refresh_ttl_seconds"), whatever was killed, failed, published or merged
\* before, and while other processes pull, as long as none removes or clones it.
LookupIsRecent ==
    calm => \A p \in Procs : pc[p] = "lookup" => file # None /\ file >= since[p]

=============================================================================
