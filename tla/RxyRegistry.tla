----------------------------- MODULE RxyRegistry -----------------------------
(***************************************************************************)
(* The index file of one package in a registry directory: rxy publish, yank *)
(* and unyank rewrite it, resolutions read it, and its entries must stay    *)
(* good for whoever locked them.  Translated from rxy/registry/registry.cpp *)
(* (lookup, append_entry, set_yanked), cmd_publish and cmd_yank_or_unyank   *)
(* of rxy/cli/cli.cpp, and resolve_registry_dep of rxy/source/source.cpp.   *)
(* The file is an AtomicFile: nothing locks the read-modify-write.          *)
(***************************************************************************)
EXTENDS Integers

CONSTANTS
    Procs, Writers,     \* rxy processes; those that publish and yank, the
                        \*   others only resolve
    Versions, Commits,  \* positive numbers; commit ids of the author's repository
    NoEntry, NoCommit,
    Inodes, NoInode, Absent, Empty, Garbled

ASSUME VersionAssumption == Versions \subseteq Nat \ {0}

\* A commit stands for its tree, hence for the tree's checksum too.
Entry    == [commit : Commits, checksum : Commits, yanked : BOOLEAN]
Contents == [Versions -> Entry \cup {NoEntry}]
NoneYet  == [v \in Versions |-> NoEntry]

ASSUME AbsenceAssumption == NoEntry \notin Entry /\ NoCommit \notin Commits
ASSUME InodeAssumption   == NoInode \notin Inodes
ASSUME TextAssumption    == Contents \cap {Absent, Empty, Garbled} = {} /\ Garbled \notin {Absent, Empty}

VARIABLES
    name, tmp, data, stream, at, calm,  \* the index file, see AtomicFile
    head,       \* the author's HEAD
    pc, job, version,           \* per process: control point, command, its argument
    checksum, commit, info,     \* what cmd_publish and lookup found
    wanted,     \* history: [Versions -> yanked by the last yank that succeeded]
    steady      \* history: HEAD never moved between the two looks of a publish at
                \*   it, nor the index between the reading and writing of a command

Commands == {"publish", "yank", "unyank", "resolve"}

fileVars == <<name, tmp, data, stream, at, calm>>
procVars == <<pc, job, version, checksum, commit, info>>
vars == <<fileVars, head, procVars, wanted, steady>>

File == INSTANCE AtomicFile WITH DiskMayFill <- FALSE

TypeOK ==
    /\ File!TypeOK
    /\ head \in Commits
    /\ pc \in [Procs -> {"idle", "archive", "revparse", "lookup", "save", "fetch"}]
    /\ job \in [Procs -> Commands \cup {"none"}]
    /\ version \in [Procs -> Versions \cup {0}]
    /\ checksum \in [Procs -> Commits \cup {NoCommit}]
    /\ commit \in [Procs -> Commits \cup {NoCommit}]
    /\ info \in [Procs -> Contents]
    /\ wanted \in [Versions -> BOOLEAN] /\ steady \in BOOLEAN

Init ==
    /\ File!Init
    /\ head \in Commits
    /\ pc = [p \in Procs |-> "idle"] /\ job = [p \in Procs |-> "none"]
    /\ version = [p \in Procs |-> 0]
    /\ checksum = [p \in Procs |-> NoCommit] /\ commit = checksum
    /\ info = [p \in Procs |-> NoneYet]
    /\ wanted = [v \in Versions |-> FALSE] /\ steady = TRUE

-----------------------------------------------------------------------------
Goto(p, l) == pc' = [pc EXCEPT ![p] = l]
Keep == UNCHANGED <<fileVars, head, wanted, steady>>

\* The command prints and exits; its memory is gone.
Finish(p) == /\ Goto(p, "idle")
             /\ job' = [job EXCEPT ![p] = "none"] /\ version' = [version EXCEPT ![p] = 0]
             /\ checksum' = [checksum EXCEPT ![p] = NoCommit]
             /\ commit' = [commit EXCEPT ![p] = NoCommit]
             /\ info' = [info EXCEPT ![p] = NoneYet]

Start(p) ==
    /\ pc[p] = "idle"
    /\ steady        \* bound: afterwards only the running commands go on
    /\ \E j \in IF p \in Writers THEN Commands ELSE {"resolve"} :
          /\ job' = [job EXCEPT ![p] = j]
          /\ Goto(p, IF j = "publish" THEN "archive" ELSE "lookup")
          /\ \E v \in IF j = "resolve" THEN {0} ELSE Versions :
                version' = [version EXCEPT ![p] = v]
    /\ UNCHANGED <<checksum, commit, info>> /\ Keep

\* The checksum of `git archive HEAD`; git, mkdtemp or tar may fail.
Archive(p) ==
    /\ pc[p] = "archive"
    /\ \/ /\ checksum' = [checksum EXCEPT ![p] = head]
          /\ Goto(p, "revparse")
          /\ UNCHANGED <<job, version, commit, info>>
       \/ Finish(p)
    /\ Keep

\* Mutant: the commit of some tag or branch is recorded instead of HEAD.
RevParseOther(p) ==
    /\ pc[p] = "revparse"
    /\ commit' \in {[commit EXCEPT ![p] = c] : c \in Commits}
    /\ Goto(p, "lookup")
    /\ UNCHANGED <<job, version, checksum, info>> /\ Keep

\* The reserved prefixes, `git status`, `git rev-parse HEAD`, origin's URL and
\* --dry-run: each may end the command, else HEAD is recorded.
RevParse(p) ==
    /\ pc[p] = "revparse"
    /\ \/ /\ commit' = [commit EXCEPT ![p] = head]
          /\ Goto(p, "lookup")
          /\ UNCHANGED <<job, version, checksum, info>>
       \/ Finish(p)
    /\ Keep

\* Registry::lookup: no file and no entries are the same to its callers.
Listed == IF File!Read \in {Absent, Empty} THEN NoneYet ELSE File!Read

\* Mutant: resolve_registry_dep offers the yanked versions too.
CandidatesYanked(i) == {v \in Versions : i[v] # NoEntry}

\* The entries offered to resolve_highest.
Candidates(i) == {v \in Versions : i[v] # NoEntry /\ ~i[v].yanked}
Highest(S)    == {v \in S : \A w \in S : w <= v}

\* Mutant: a yanked version may be published again.
AcceptsRepublish(p) ==
    CASE job[p] = "publish" -> Listed[version[p]] \in {NoEntry} \cup {e \in Entry : e.yanked}
      [] job[p] \in {"yank", "unyank"} -> Listed[version[p]] # NoEntry
      [] job[p] = "resolve" -> Candidates(Listed) # {}

\* append_entry wants a new version, set_yanked one that is there, and
\* resolve_highest one that is not yanked.
Accepts(p) ==
    CASE job[p] = "publish" -> Listed[version[p]] = NoEntry
      [] job[p] \in {"yank", "unyank"} -> Listed[version[p]] # NoEntry
      [] job[p] = "resolve" -> Candidates(Listed) # {}

\* Mutant: a rewritten index keeps its entries, but forgets which are yanked.
UpdatedUnyanked(p) ==
    [v \in Versions |->
        IF v = version[p] /\ job[p] = "publish"
        THEN [commit |-> commit[p], checksum |-> checksum[p], yanked |-> FALSE]
        ELSE IF Listed[v] = NoEntry THEN NoEntry
        ELSE [Listed[v] EXCEPT !.yanked = (v = version[p] /\ job[p] = "yank")]]

\* The document a command makes of the one it reads.
Updated(p) ==
    [Listed EXCEPT ![version[p]] =
        IF job[p] = "publish"
        THEN [commit |-> commit[p], checksum |-> checksum[p], yanked |-> FALSE]
        ELSE [@ EXCEPT !.yanked = (job[p] = "yank")]]

Lookup(p) ==
    /\ pc[p] = "lookup"
    /\ \/ /\ File!Read # Garbled /\ Accepts(p)
          /\ IF job[p] = "resolve"
             THEN /\ Goto(p, "fetch") /\ info' = [info EXCEPT ![p] = Listed]
                  /\ \E v \in Highest(Candidates(Listed)) : version' = [version EXCEPT ![p] = v]
                  /\ UNCHANGED <<checksum, commit, steady>>
             ELSE /\ Goto(p, "save") /\ info' = [info EXCEPT ![p] = Updated(p)]
                  /\ checksum' = [checksum EXCEPT ![p] = NoCommit]
                  /\ commit' = [commit EXCEPT ![p] = NoCommit]
                  /\ steady' = (steady /\ \A q \in Procs : pc[q] # "save")
                  /\ UNCHANGED version
          /\ UNCHANGED job
       \/ File!Read # Garbled /\ ~Accepts(p) /\ Finish(p) /\ UNCHANGED steady
       \/ File!Read = Garbled /\ Finish(p) /\ UNCHANGED steady
    /\ UNCHANGED <<fileVars, head, wanted>>

\* atomic_write_text_file(file, serialize_package(pkg)).
Save(p) ==
    /\ pc[p] = "save"
    /\ \/ /\ File!Open(p) \/ File!Write(p, info[p])
          /\ UNCHANGED <<procVars, wanted>>
       \/ /\ File!Rename(p) /\ Finish(p)
          /\ wanted' = [wanted EXCEPT ![version[p]] = (job[p] = "yank")]
       \/ File!RenameFails(p) /\ Finish(p) /\ UNCHANGED wanted
    /\ UNCHANGED <<head, steady>>

\* resolve_git on the entry's URL and commit, then the checksum comparison: right
\* or wrong, the command ends.
Fetch(p) == pc[p] = "fetch" /\ Finish(p) /\ Keep

Crash(p) ==
    /\ pc[p] # "idle"
    /\ Finish(p)
    /\ File!Abandon(p)
    /\ UNCHANGED <<head, wanted, steady>>
-----------------------------------------------------------------------------
\* The author commits, or checks another commit out.
Commit(c) == /\ head # c /\ head' = c
             /\ steady' = (steady /\ \A p \in Procs : pc[p] # "revparse")
             /\ UNCHANGED <<fileVars, procVars, wanted>>

Step(p) == \/ Archive(p) \/ RevParse(p) \/ Lookup(p) \/ Save(p) \/ Fetch(p)

Next == \/ \E p \in Procs : Start(p) \/ Step(p) \/ Crash(p)
        \/ \E c \in Commits : Commit(c)

Spec == Init /\ [][Next]_vars
-----------------------------------------------------------------------------
\* What a resolution would find now.
Published(v) == File!Read \notin {Absent, Empty, Garbled} /\ File!Read[v] # NoEntry

\* FR-018: a published version keeps its commit and its checksum for ever, and
\* its entry is never lost, whatever is published and yanked after it, and
\* wherever those commands are killed, until two rewrites of the file overlap.
EntriesImmutable ==
    [][\A v \in Versions : steady /\ Published(v) =>
          Published(v)' /\ \A f \in {"commit", "checksum"} :
                              File!Read'[v][f] = File!Read[v][f]]_vars

\* FR-036: a version is yanked exactly when the last yank or unyank of it that
\* reported success said so, until two rewrites of the file overlap: publishing
\* another version does not undo it.
YanksHold ==
    steady => \A v \in Versions : Published(v) => File!Read[v].yanked = wanted[v]

\* `Source-tree checksum: must match what consumers will compute`: the recorded
\* checksum is the one of the recorded commit, in the file and in what a consumer
\* has read of it, until HEAD moves between a publish's two looks at it.
ChecksumMatches ==
    steady => /\ \A v \in Versions : Published(v) =>
                    File!Read[v].checksum = File!Read[v].commit
              /\ \A p \in Procs : pc[p] = "fetch" =>
                    info[p][version[p]].checksum = info[p][version[p]].commit

\* What a resolution answers.
Handed(p) == IF pc[p] = "fetch" THEN <<version[p], info[p][version[p]]>> ELSE NoEntry

\* FR-018 and FR-036 together: files, renames and kills included, the index is a
\* ledger in which a publication, yank or unyank takes effect wholly at one moment
\* or not at all, and from which a resolution takes the highest version that is not
\* yanked at the moment it looks.
Ledger == INSTANCE PackageLedger WITH entries <- Listed, handed <- [p \in Procs |-> Handed(p)]
LedgerSpec == Ledger!Spec

=============================================================================
