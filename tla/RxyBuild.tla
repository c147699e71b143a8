------------------------------ MODULE RxyBuild ------------------------------
(***************************************************************************)
(* `rxy build` (run, test) of one package, again and again, by one or more  *)
(* processes, while its author edits Rexy.toml and the world publishes,     *)
(* yanks and force-pushes: reading Rexy.lock, resolving, drift detection,   *)
(* --locked, rewriting Rexy.lock and compiling the targets.  Translated     *)
(* from rxy/build/build.cpp (run), rxy/lockfile/lockfile.cpp, and what      *)
(* rxy/source/source.cpp answers.  Rexy.lock is the AtomicFile.             *)
(***************************************************************************)
EXTENDS Integers, FiniteSets, FiniteSetsExt

CONSTANTS
    Procs, Writers,     \* rxy processes; those that may run without --locked
    GitDeps, Tagged,    \* dependencies by git URL; those that name a tag
    RegDeps,            \* dependencies by registry version
    Commits, Versions,  \* a registry version is a positive number
    NoPin,
    Optional,           \* bound: the dependencies that come and go; the others are
                        \* declared from the start
    Targets,            \* the [targets.lib] and [[targets.bin]] of the package
    Options,            \* the [locked, offline] pairs of the commands
    Inodes, NoInode, Absent, Empty, Garbled

Deps      == GitDeps \cup RegDeps
Pin       == Commits \cup Versions \cup {NoPin}
Lockfile  == [Deps -> Pin]      \* name -> commit or version
NoPackage == [d \in Deps |-> NoPin]
Plain     == [locked |-> FALSE, offline |-> FALSE]

ASSUME DepsAssumption ==
    /\ Tagged \subseteq GitDeps /\ GitDeps \cap RegDeps = {}
    /\ Optional \subseteq Deps /\ Versions \subseteq Nat \ {0} /\ IsFiniteSet(Versions)
    /\ NoPin \notin Commits \cup Versions
ASSUME OptionAssumption == Options \subseteq [locked : BOOLEAN, offline : BOOLEAN]
ASSUME InodeAssumption  == NoInode \notin Inodes
ASSUME TextAssumption   == Lockfile \cap {Absent, Empty, Garbled} = {} /\ Garbled \notin {Absent, Empty}

VARIABLES
    name, tmp, data, stream, at, calm,  \* Rexy.lock, see AtomicFile
    manifest,   \* Rexy.toml: the dependencies it declares
    remote,     \* [GitDeps -> the commit the tag or revision names upstream]
    index,      \* [RegDeps -> the registry's [pub, yanked] versions]
    clone,      \* [GitDeps -> the commit the cached clone names, or NoPin]
    copy,       \* [RegDeps -> this machine's copy of index]
    pc, opt, deps, locked, fresh, picked, todo,     \* per process, see Init
    artifact,   \* [Targets -> the lockfile it was compiled against]
    alone       \* history: the build that started last, if no other one has run since

lockVars  == <<name, tmp, data, stream, at, calm>>
worldVars == <<manifest, remote, index>>
cacheVars == <<clone, copy>>
procVars  == <<pc, opt, deps, locked, fresh, picked, todo>>
vars == <<lockVars, worldVars, cacheVars, procVars, artifact, alone>>

Lock == INSTANCE AtomicFile WITH Contents <- Lockfile, DiskMayFill <- FALSE

Index == {i \in [pub : SUBSET Versions, yanked : SUBSET Versions] : i.yanked \subseteq i.pub}

TypeOK ==
    /\ Lock!TypeOK
    /\ manifest \subseteq Deps
    /\ remote \in [GitDeps -> Commits] /\ clone \in [GitDeps -> Commits \cup {NoPin}]
    /\ index \in [RegDeps -> Index] /\ copy \in [RegDeps -> Index]
    /\ pc \in [Procs -> {"idle", "pins", "resolve", "drift", "locked", "save", "check",
                         "compile", "done", "drifted"}]
    /\ opt \in [Procs -> Options \cup {Plain}]
    /\ deps \in [Procs -> SUBSET Deps]
    /\ locked \in [Procs -> Lockfile] /\ fresh \in [Procs -> Lockfile]
    /\ picked \in [Procs -> SUBSET Targets] /\ todo \in [Procs -> SUBSET Targets]
    /\ artifact \in [Targets -> Lockfile \cup {Absent}]
    /\ alone \in {{}} \cup {{p} : p \in Procs}

Init ==
    /\ Lock!Init
    /\ manifest = Deps \ Optional
    /\ remote \in [GitDeps -> Commits] /\ clone = [d \in GitDeps |-> NoPin]
    /\ index = [d \in RegDeps |-> [pub |-> {}, yanked |-> {}]] /\ copy = index
    /\ pc = [p \in Procs |-> "idle"]
    /\ opt = [p \in Procs |-> Plain]                \* of the command it runs
    /\ deps = [p \in Procs |-> {}]                  \* the manifest it loaded
    /\ locked = [p \in Procs |-> NoPackage]         \* ropts.locked_commits
    /\ fresh = [p \in Procs |-> NoPackage]          \* from_resolution(m, resolution)
    /\ picked = [p \in Procs |-> {}]                \* selected_bins (and lib)
    /\ todo = [p \in Procs |-> {}]                  \* those not compiled yet
    /\ artifact = [t \in Targets |-> Absent]
    /\ alone = {}

-----------------------------------------------------------------------------
Goto(p, l) == pc' = [pc EXCEPT ![p] = l]

\* Leaving run, or dying, forgets everything but what is on disk (of a build
\* that succeeded, which targets it selected; of a drift error, the options).
Forget(p) == /\ deps' = [deps EXCEPT ![p] = {}]
             /\ locked' = [locked EXCEPT ![p] = NoPackage]
             /\ fresh' = [fresh EXCEPT ![p] = NoPackage]
             /\ todo' = [todo EXCEPT ![p] = {}]
Leave(p, l) == /\ Goto(p, l) /\ Forget(p)
               /\ picked' = IF l = "done" THEN picked ELSE [picked EXCEPT ![p] = {}]
               /\ opt' = IF l = "drifted" THEN opt ELSE [opt EXCEPT ![p] = Plain]

\* exit_code = 1, or an exception out of run.
Fail(p) == Leave(p, "idle")
Continue(p, l) == Goto(p, l) /\ UNCHANGED <<opt, deps, locked, fresh, picked, todo>>

\* lockfile::read: nothing, an empty document without packages, or a parse error.
Readable == Lock!Read # Garbled
Previous == IF Lock!Read \in {Absent, Empty} THEN NoPackage ELSE Lock!Read

Stopped(p) == pc[p] \in {"idle", "done", "drifted"}

Start(p) ==
    /\ Stopped(p)
    /\ alone' = IF \A q \in Procs : Stopped(q) THEN {p} ELSE {}
    /\ \E o \in Options : /\ p \in Writers \/ o.locked
                          /\ opt' = [opt EXCEPT ![p] = o]
    /\ deps' = [deps EXCEPT ![p] = manifest]
    /\ fresh' = [fresh EXCEPT ![p] = NoPackage]
    /\ picked' = [picked EXCEPT ![p] = {}]
    /\ Goto(p, IF manifest = {} THEN "drift" ELSE "pins")
    /\ UNCHANGED <<lockVars, worldVars, cacheVars, locked, todo, artifact>>

\* Seed the resolver with the locked commits.
ReadPins(p) ==
    /\ pc[p] = "pins"
    /\ \/ /\ Readable /\ Goto(p, "resolve")
          /\ locked' = [locked EXCEPT ![p] = Previous]
          /\ UNCHANGED <<opt, deps, fresh, picked, todo>>
       \/ ~Readable /\ Fail(p)
    /\ UNCHANGED <<lockVars, worldVars, cacheVars, artifact, alone>>

\* resolve_highest over the entries that are not yanked.
Candidates(i) == i.pub \ i.yanked
Highest(i) == IF Candidates(i) = {} THEN NoPin ELSE Max(Candidates(i))

\* The source layer's own check, for tags: pinned commit against resolved one.
TagMoved(p, d, c) == d \in Tagged /\ locked[p][d] \notin {NoPin, c}

\* lockfile::from_resolution: an entry for every package that was resolved.
FromResolution(packages) ==
    [d \in Deps |-> IF d \in DOMAIN packages THEN packages[d] ELSE NoPin]

\* resolver::resolve_graph.  Online, a git dependency is fetched and the index
\* pulled unless its stamp is younger than the refresh TTL; offline, both are
\* used as they are.  Every dependency must resolve.
Resolve(p) ==
    LET Named(d) == IF d \in RegDeps THEN Highest(copy'[d]) ELSE clone'[d]
        Usable(d) == Named(d) # NoPin /\ ~TagMoved(p, d, Named(d)) IN
    /\ pc[p] = "resolve"
    /\ clone' = [d \in GitDeps |-> IF d \in deps[p] /\ ~opt[p].offline
                                   THEN remote[d] ELSE clone[d]]
    /\ \E pulled \in IF opt[p].offline \/ deps[p] \cap RegDeps = {} THEN {FALSE} ELSE BOOLEAN :
          copy' = IF pulled THEN index ELSE copy
    /\ \/ /\ \A d \in deps[p] : Usable(d)
          /\ fresh' = [fresh EXCEPT ![p] = FromResolution([d \in deps[p] |-> Named(d)])]
          /\ Goto(p, "drift")
          /\ deps' = [deps EXCEPT ![p] = {}]            \* neither is read again
          /\ locked' = [locked EXCEPT ![p] = NoPackage]
          /\ UNCHANGED <<opt, picked, todo>>
       \/ \E d \in deps[p] : ~Usable(d) /\ Fail(p)
    /\ UNCHANGED <<lockVars, worldVars, artifact, alone>>

\* Mutant: a package whose source has no "git+" prefix is compared, the others not.
DriftedRegistry(previous, f) ==
    \E d \in RegDeps : f[d] # NoPin /\ previous[d] \notin {NoPin, f[d]}

\* lockfile::detect_drift: only the packages whose fresh source is git.
Drifted(previous, f) == \E d \in GitDeps : f[d] # NoPin /\ previous[d] \notin {NoPin, f[d]}

CheckDrift(p) ==
    /\ pc[p] = "drift"
    /\ \/ ~Readable /\ Fail(p)
       \/ Readable /\ Drifted(Previous, fresh[p]) /\ Leave(p, "drifted")
       \/ /\ Readable /\ ~Drifted(Previous, fresh[p])
          /\ Continue(p, IF opt[p].locked THEN "locked" ELSE "save")
    /\ UNCHANGED <<lockVars, worldVars, cacheVars, artifact, alone>>

\* --locked: the lockfile must exist and be what this build would write.
CheckLocked(p) ==
    /\ pc[p] = "locked"
    /\ IF Lock!Read \notin {Absent, Garbled} /\ Previous = fresh[p]
       THEN Continue(p, "check") ELSE Fail(p)
    /\ UNCHANGED <<lockVars, worldVars, cacheVars, artifact, alone>>

\* lockfile::write, step by step.
Save(p) ==
    /\ pc[p] = "save"
    /\ \/ Lock!Open(p) /\ Continue(p, "save")
       \/ Lock!Write(p, fresh[p]) /\ Continue(p, "save")
       \/ Lock!Rename(p) /\ Continue(p, "check")
       \/ Lock!RenameFails(p) /\ Fail(p)
    /\ UNCHANGED <<worldVars, cacheVars, artifact, alone>>

\* find_rexc, --bin, blocked transitive scripts, the root build script, the
\* dependencies' manifests: any of them may end the build, after the lockfile
\* was written.  Then the selected targets are compiled.
Check(p) ==
    /\ pc[p] = "check"
    /\ \/ Fail(p)
       \/ \E S \in SUBSET Targets \ {{}} :
            /\ picked' = [picked EXCEPT ![p] = S] /\ todo' = [todo EXCEPT ![p] = S]
            /\ opt' = [opt EXCEPT ![p] = Plain]         \* not read again
            /\ Goto(p, "compile") /\ UNCHANGED <<deps, locked, fresh>>
    /\ UNCHANGED <<lockVars, worldVars, cacheVars, artifact, alone>>

\* Mutant: rexc's exit code is not looked at.
CompileUnchecked(p) ==
    /\ pc[p] = "compile"
    /\ \E t \in todo[p] :
         /\ artifact' \in {artifact, [artifact EXCEPT ![t] = fresh[p]]}
         /\ IF todo[p] = {t} THEN Leave(p, "done") ELSE
            /\ todo' = [todo EXCEPT ![p] = @ \ {t}]
            /\ UNCHANGED <<pc, opt, deps, locked, fresh, picked>>
    /\ UNCHANGED <<lockVars, worldVars, cacheVars, alone>>

\* One rexc per target; the first failure ends the build.
Compile(p) ==
    /\ pc[p] = "compile"
    /\ \/ \E t \in todo[p] :
            /\ artifact' = [artifact EXCEPT ![t] = fresh[p]]
            /\ IF todo[p] = {t} THEN Leave(p, "done") ELSE
               /\ todo' = [todo EXCEPT ![p] = @ \ {t}]
               /\ UNCHANGED <<pc, opt, deps, locked, fresh, picked>>
       \/ Fail(p) /\ UNCHANGED artifact
    /\ UNCHANGED <<lockVars, worldVars, cacheVars, alone>>

\* The process is killed.
Crash(p) ==
    /\ pc[p] \notin {"idle", "done", "drifted"}
    /\ Leave(p, "idle")
    /\ Lock!Abandon(p)
    /\ UNCHANGED <<worldVars, cacheVars, artifact, alone>>
-----------------------------------------------------------------------------
\* rxy add and rxy remove rewrite Rexy.toml; neither touches Rexy.lock.
Add(d)    == d \notin manifest /\ manifest' = manifest \cup {d}
Remove(d) == d \in manifest /\ manifest' = manifest \ {d}
Edit == /\ \E d \in Optional : Add(d) \/ Remove(d)
        /\ UNCHANGED <<lockVars, remote, index, cacheVars, procVars, artifact, alone>>

DeleteLock == Lock!Unlink /\ UNCHANGED <<worldVars, cacheVars, procVars, artifact, alone>>

\* Upstream moves a tag, or the author names another revision.
Push(d, c) == /\ remote[d] # c
              /\ remote' = [remote EXCEPT ![d] = c]
              /\ UNCHANGED <<lockVars, manifest, index, cacheVars, procVars, artifact, alone>>

\* rxy publish, yank and unyank on the registry (RxyRegistry has their detail).
Publish(d, v) == /\ v \notin index[d].pub
                 /\ index' = [index EXCEPT ![d].pub = @ \cup {v}]
Yank(d, v)    == /\ v \in Candidates(index[d])
                 /\ index' = [index EXCEPT ![d].yanked = @ \cup {v}]
Release == /\ \E d \in RegDeps, v \in Versions : Publish(d, v) \/ Yank(d, v)
           /\ UNCHANGED <<lockVars, manifest, remote, cacheVars, procVars, artifact, alone>>

Step(p) == \/ ReadPins(p) \/ Resolve(p) \/ CheckDrift(p) \/ CheckLocked(p)
           \/ Save(p) \/ Check(p) \/ Compile(p)

Next == \/ \E p \in Procs : Start(p) \/ Step(p) \/ Crash(p)
        \/ Edit \/ DeleteLock \/ Release
        \/ \E d \in GitDeps, c \in Commits : Push(d, c)

Spec == Init /\ [][Next]_vars
-----------------------------------------------------------------------------
Pinned(d) == IF Readable THEN Previous[d] ELSE NoPin

\* FR-013: what Rexy.lock pins of a git dependency is never replaced by another
\* commit behind the user's back, whatever moves upstream, crashes or is
\* retried: the entry leaves the file first (removed dependency, deleted file).
PinsHold ==
    [][\A d \in GitDeps : NoPin \in {Pinned(d), Pinned(d)'} \/ Pinned(d)' = Pinned(d)]_vars

\* After a build that succeeds, Rexy.lock says what the targets it selected were
\* compiled against, although earlier builds stopped half way and the manifest,
\* the upstreams and the registry moved on since: as long as no build of the
\* package ran beside it, a --locked one included, which compiles them too.
SuccessIsRecorded ==
    \A p \in alone : pc[p] = "done" /\ Lock!Read # Absent =>
        Readable /\ \A t \in picked[p] : artifact[t] = Previous
=============================================================================
