------------------------------ MODULE RxyCache ------------------------------
(***************************************************************************)
(* Any number of rxy processes resolving git dependencies of one package   *)
(* through the shared cache $REXY_HOME: a bare clone per URL and one        *)
(* extracted worktree per (name, commit), each guarded by an flock.         *)
(* Translated from rxy/source/source.cpp (resolve_git) and                  *)
(* rxy/cache/cache.cpp (FileLock, src_path).                                *)
(*                                                                         *)
(* Two URLs may serve the same commit (a mirror or a fork), so the worktree *)
(* lock is not implied by the bare lock.  A process may be killed between   *)
(* any two steps; the kernel then drops its locks, while a git or tar it    *)
(* was waiting for may run on without them.  Upstream may move its tag and  *)
(* its HEAD at any time.                                                    *)
(***************************************************************************)
EXTENDS FiniteSets, Naturals

CONSTANTS
    Procs,          \* rxy processes sharing one $REXY_HOME
    Urls,           \* git URLs, all serving the same package name
    Commits,        \* commit ids; a commit determines its tree
    NoProc, NoCommit, NoRequest,
    Requests,       \* the DependencySpec/ResolveOptions pairs that may be asked
    Misnamed,       \* commits whose [package].name is not the dependency's
    Moving,         \* bound: the URLs whose author moves tag and HEAD
    Failing,        \* worktrees in which a removal or the marker's write may fail
    Lingering,      \* bound: the URLs whose git may run on without its rxy
    MaxGit, MaxTar  \* bounds: git and tar children running on without their rxy

Request == [url : Urls, ref : {"tag", "head"} \cup Commits,
            offline : BOOLEAN, pin : Commits \cup {NoCommit}]

ASSUME NoProcAssumption   == NoProc \notin Procs
ASSUME NoCommitAssumption == NoCommit \notin Commits /\ {"tag", "head"} \cap Commits = {}
ASSUME RequestAssumption  == Requests \subseteq Request /\ NoRequest \notin Requests
ASSUME OrphanAssumption   == MaxGit \in Nat /\ MaxTar \in Nat

VARIABLES
    upstream,   \* [Urls -> Commits]: what the remote's tag and HEAD name now
    bare,       \* [Urls -> ...]: git/db/<sha256(url)>.git
    files,      \* [Commits -> how much of src/<name>/<commit>/ is extracted]
    staged,     \* worktrees that contain .tmp.tar (or its .tmp)
    marked,     \* worktrees that contain .rxy_extracted
    bareLock,   \* [Urls -> holder of git/db/<sha256(url)>.lock]
    srcLock,    \* [Commits -> holder of src/<name>/<commit>.lock]
    pc, req, commit, sum,   \* per process: control point, request, results
    seen,       \* history: until rev-parse, the commits that upstream named during
                \*   the resolve, and those a git left over in its clone was told
    sealed,     \* history: the processes whose tree was marked when handed out
    spoilt,     \* history: worktrees that were filled although remove_all left
                \*   a tar running in them, or that kept their .tmp.tar
    orphanGit, orphanTar    \* children that outlived a killed rxy

treeVars   == <<files, staged, marked, spoilt>>
resultVars == <<sum, sealed>>
procVars   == <<pc, req, commit, seen, resultVars>>
orphanVars == <<orphanGit, orphanTar>>
lockVars   == <<bareLock, srcLock>>
vars == <<upstream, bare, treeVars, lockVars, procVars, orphanVars>>

Resting  == {"idle", "done"}
Cloning  == {"clone0", "clone1", "clone2"}
Asking   == {"lockBare", "probe", "fetch", "parse"} \cup Cloning
Untar    == {"untar0", "untar1"}
Filling  == {"archive", "stage"} \cup Untar \cup {"unstage", "mark"}
Labels   == Resting \cup {"lockBare", "probe"} \cup Cloning \cup
            {"fetch", "parse", "lockSrc", "prepare"} \cup Filling \cup {"hash"}

\* A bare directory: absent; "init" once objects/ exists; "origin" once the
\* remote is configured; "full" once the clone has copied the refs.
BareRepo == [st : {"absent", "init", "origin", "full"},
             tag : Commits \cup {NoCommit}, head : Commits \cup {NoCommit},
             known : SUBSET Commits]
Repo(st, tag, head, known) == [st |-> st, tag |-> tag, head |-> head, known |-> known]
Empty(st) == Repo(st, NoCommit, NoCommit, {})
NoBare == Empty("absent")

\* A git command that lost its rxy, and what upstream told it of its refs.
Orphan == [url : Urls, op : {"clone", "fetch"}, told : Commits \cup {NoCommit}]
ToldIn(u) == {o.told : o \in {g \in orphanGit : g.url = u}} \ {NoCommit}

\* sha256_dir_tree: the published hash exactly when the tree is the commit's.
Digest(c) == IF files[c] = "all" /\ c \notin staged THEN "good" ELSE "bad"

TypeOK ==
    /\ upstream \in [Urls -> Commits]
    /\ bare \in [Urls -> BareRepo]
    /\ files \in [Commits -> {"none", "some", "all"}]
    /\ staged \subseteq Commits /\ marked \subseteq Commits
    /\ bareLock \in [Urls -> Procs \cup {NoProc}]
    /\ srcLock \in [Commits -> Procs \cup {NoProc}]
    /\ pc \in [Procs -> Labels]
    /\ req \in [Procs -> Requests \cup {NoRequest}]
    /\ commit \in [Procs -> Commits \cup {NoCommit}]
    /\ sum \in [Procs -> {"none", "good", "bad"}]
    /\ seen \in [Procs -> SUBSET Commits]
    /\ sealed \subseteq Procs /\ spoilt \subseteq Commits
    /\ orphanGit \subseteq Orphan
    /\ orphanTar \subseteq Commits

Init ==
    /\ upstream \in [Urls -> Commits]
    /\ bare = [u \in Urls |-> NoBare]
    /\ files = [c \in Commits |-> "none"] /\ staged = {} /\ marked = {}
    /\ bareLock = [u \in Urls |-> NoProc]
    /\ srcLock = [c \in Commits |-> NoProc]
    /\ pc = [p \in Procs |-> "idle"]
    /\ req = [p \in Procs |-> NoRequest]
    /\ commit = [p \in Procs |-> NoCommit]
    /\ sum = [p \in Procs |-> "none"]
    /\ seen = [p \in Procs |-> {}]
    /\ sealed = {} /\ spoilt = {}
    /\ orphanGit = {} /\ orphanTar = {}

-----------------------------------------------------------------------------
Goto(p, l) == pc' = [pc EXCEPT ![p] = l]

\* Mutant: the destructor drops the lock of the bucket, whoever took it.
ReleaseAnyLock(p) ==
    /\ bareLock' = IF req[p] = NoRequest THEN bareLock
                   ELSE [bareLock EXCEPT ![req[p].url] = NoProc]
    /\ srcLock' = [c \in Commits |-> IF srcLock[c] = p THEN NoProc ELSE srcLock[c]]

\* Unwinding resolve_git (return, throw or death) closes both lock files.
ReleaseLocks(p) ==
    /\ bareLock' = [u \in Urls |-> IF bareLock[u] = p THEN NoProc ELSE bareLock[u]]
    /\ srcLock' = [c \in Commits |-> IF srcLock[c] = p THEN NoProc ELSE srcLock[c]]

\* An uncaught throw, or a kill, ends the process and its memory with it.
Throw(p) ==
    /\ Goto(p, "idle")
    /\ ReleaseLocks(p)
    /\ req' = [req EXCEPT ![p] = NoRequest]
    /\ commit' = [commit EXCEPT ![p] = NoCommit]
    /\ seen' = [seen EXCEPT ![p] = {}]
KeepGoing == UNCHANGED <<bareLock, srcLock, req, seen>>

\* Upstream names `told`: the resolves of its URL that are running see it.
Tell(u, told) == [p \in Procs |-> IF pc[p] \in Asking /\ req[p].url = u
                                  THEN seen[p] \cup ({told} \ {NoCommit}) ELSE seen[p]]

Start(p) ==
    /\ pc[p] \in Resting
    /\ \E r \in Requests :
        /\ req' = [req EXCEPT ![p] = r]
        /\ seen' = [seen EXCEPT ![p] = {upstream[r.url]} \cup ToldIn(r.url)]
    /\ Goto(p, "lockBare")
    /\ commit' = [commit EXCEPT ![p] = NoCommit]
    /\ sum' = [sum EXCEPT ![p] = "none"] /\ sealed' = sealed \ {p}
    /\ UNCHANGED <<upstream, bare, treeVars, lockVars, orphanVars>>

LockBare(p) ==
    /\ pc[p] = "lockBare"
    /\ bareLock[req[p].url] = NoProc
    /\ bareLock' = [bareLock EXCEPT ![req[p].url] = p]
    /\ Goto(p, "probe")
    /\ UNCHANGED <<upstream, bare, treeVars, srcLock, req, commit, resultVars, seen, orphanVars>>

\* Mutant: an existing clone is good enough, never fetched.
ProbeNoFetch(p) ==
    LET u == req[p].url IN
    /\ pc[p] = "probe"
    /\ \/ bare[u].st = "absent" /\ ~req[p].offline /\ Goto(p, "clone0") /\ KeepGoing
          /\ UNCHANGED <<bare, commit>>
       \/ bare[u].st = "absent" /\ req[p].offline /\ Throw(p) /\ UNCHANGED bare
       \/ bare[u].st # "absent" /\ Goto(p, "parse") /\ KeepGoing /\ UNCHANGED <<bare, commit>>
    /\ UNCHANGED <<upstream, treeVars, resultVars, orphanVars>>

\* Mutant: --offline is honoured for the clone and forgotten for the fetch.
ProbeFetchOffline(p) ==
    LET u == req[p].url IN
    /\ pc[p] = "probe"
    /\ \/ bare[u].st = "absent" /\ ~req[p].offline /\ Goto(p, "clone0") /\ KeepGoing
          /\ UNCHANGED <<bare, commit>>
       \/ bare[u].st = "absent" /\ req[p].offline /\ Throw(p) /\ UNCHANGED bare
       \/ bare[u].st # "absent" /\ Goto(p, "fetch") /\ KeepGoing /\ UNCHANGED <<bare, commit>>
    /\ UNCHANGED <<upstream, treeVars, resultVars, orphanVars>>

\* is_directory(bare / "objects") decides between clone, fetch and neither.
Probe(p) ==
    LET u == req[p].url IN
    /\ pc[p] = "probe"
    /\ IF bare[u].st = "absent"
       THEN IF req[p].offline
            THEN Throw(p) /\ UNCHANGED bare
            ELSE /\ Goto(p, "clone0")
                 /\ bare' = [bare EXCEPT ![u] = NoBare]
                 /\ KeepGoing /\ UNCHANGED commit
       ELSE /\ Goto(p, IF req[p].offline THEN "parse" ELSE "fetch")
            /\ KeepGoing /\ UNCHANGED <<bare, commit>>
    /\ UNCHANGED <<upstream, treeVars, resultVars, orphanVars>>

\* `git clone --bare`: create the repository, configure origin, copy the refs.
Cloned(told) == Repo("full", told, told, {told})
CloneStep(p) ==
    LET u == req[p].url IN
    /\ \/ pc[p] = "clone0" /\ Goto(p, "clone1") /\ bare' = [bare EXCEPT ![u] = Empty("init")]
       \/ pc[p] = "clone1" /\ Goto(p, "clone2") /\ bare' = [bare EXCEPT ![u] = Empty("origin")]
       \/ pc[p] = "clone2" /\ Goto(p, "parse")  /\ bare' = [bare EXCEPT ![u] = Cloned(upstream[u])]
    /\ UNCHANGED <<upstream, treeVars, lockVars, req, commit, resultVars, seen, orphanVars>>

\* A clone that fails removes what it made (git's own cleanup), and rxy throws.
CloneFail(p) ==
    /\ pc[p] \in Cloning
    /\ bare' = [bare EXCEPT ![req[p].url] = NoBare]
    /\ Throw(p)
    /\ UNCHANGED <<upstream, treeVars, resultVars, orphanVars>>

\* `git fetch --all --tags --force`.  A bare clone has no fetch refspec, so
\* tags move and HEAD and the branches stay; without an origin it is a no-op.
Fetched(u, told) ==
    IF bare[u].st \in {"absent", "init"} THEN bare[u]
    ELSE Repo(bare[u].st, told, bare[u].head, bare[u].known \cup {told})
Fetch(p) ==
    LET u == req[p].url IN
    /\ pc[p] = "fetch"
    /\ \/ bare[u].st # "absent" /\ bare' = [bare EXCEPT ![u] = Fetched(u, upstream[u])]
          /\ Goto(p, "parse") /\ KeepGoing /\ UNCHANGED commit
       \/ Throw(p) /\ UNCHANGED bare
    /\ UNCHANGED <<upstream, treeVars, resultVars, orphanVars>>

\* git rev-parse <ref>^{commit}; NoCommit when it fails.
RevParse(u, ref) ==
    CASE ref = "tag"  -> bare[u].tag
      [] ref = "head" -> bare[u].head
      [] OTHER        -> IF ref \in bare[u].known THEN ref ELSE NoCommit

TagDrifted(r, c) == r.ref = "tag" /\ r.pin # NoCommit /\ r.pin # c

\* rev-parse, the tag-drift check, and src_path (whose mkdir -p of the
\* worktree, done before the src lock, leaves an existing tree as it is).
Parse(p) ==
    LET c == RevParse(req[p].url, req[p].ref) IN
    /\ pc[p] = "parse"
    /\ IF c = NoCommit \/ TagDrifted(req[p], c)
       THEN Throw(p)
       ELSE /\ Goto(p, "lockSrc")
            /\ commit' = [commit EXCEPT ![p] = c]
            /\ seen' = [seen EXCEPT ![p] = {}]
            /\ UNCHANGED <<lockVars, req>>
    /\ UNCHANGED <<upstream, bare, treeVars, resultVars, orphanVars>>

\* Mutant: the worktree lock is not waited for.
LockSrcAtOnce(p) ==
    /\ pc[p] = "lockSrc"
    /\ srcLock' = [srcLock EXCEPT ![commit[p]] = p]
    /\ Goto(p, "prepare")
    /\ UNCHANGED <<upstream, bare, treeVars, bareLock, req, commit, resultVars, seen, orphanVars>>

LockSrc(p) ==
    /\ pc[p] = "lockSrc"
    /\ srcLock[commit[p]] = NoProc
    /\ srcLock' = [srcLock EXCEPT ![commit[p]] = p]
    /\ Goto(p, "prepare")
    /\ UNCHANGED <<upstream, bare, treeVars, bareLock, req, commit, resultVars, seen, orphanVars>>

\* Mutant: a directory that is not empty counts as extracted.
PrepareTrustsFiles(p) ==
    /\ pc[p] = "prepare"
    /\ IF files[commit[p]] # "none"
       THEN Goto(p, "hash") /\ UNCHANGED staged
       ELSE Goto(p, "archive") /\ staged' = staged \ {commit[p]}
    /\ UNCHANGED <<files, marked, spoilt, orphanTar>>
    /\ UNCHANGED <<upstream, bare, lockVars, req, commit, seen, resultVars, orphanGit>>

\* Mutant: the files are removed, the directory itself stays.
PrepareEmpties(p) ==
    LET c == commit[p] IN
    /\ pc[p] = "prepare"
    /\ IF c \in marked
       THEN Goto(p, "hash") /\ UNCHANGED <<files, staged>>
       ELSE /\ Goto(p, "archive")
            /\ files' = [files EXCEPT ![c] = "none"] /\ staged' = staged \ {c}
    /\ UNCHANGED <<marked, spoilt, orphanTar>>
    /\ UNCHANGED <<upstream, bare, lockVars, req, commit, seen, resultVars, orphanGit>>

\* exists(.rxy_extracted), else remove_all + ensure_dir.  A tar left over in a
\* removed directory can create no more files; but remove_all's error is
\* dropped, and one that creates files meanwhile keeps the directory alive.
Prepare(p) ==
    LET c == commit[p] IN
    /\ pc[p] = "prepare"
    /\ \/ /\ c \in marked /\ Goto(p, "hash")
          /\ UNCHANGED <<treeVars, orphanTar>>
       \/ /\ c \notin marked /\ Goto(p, "archive")
          /\ files' = [files EXCEPT ![c] = "none"] /\ staged' = staged \ {c}
          /\ orphanTar' = orphanTar \ {c}
          /\ UNCHANGED <<marked, spoilt>>
       \/ /\ c \notin marked /\ Goto(p, "archive")
          /\ c \in Failing \cup orphanTar
          /\ files' = [files EXCEPT ![c] = IF @ = "none" THEN "none" ELSE "some"]
          /\ spoilt' = spoilt \cup (orphanTar \cap {c})
          /\ UNCHANGED <<staged, marked, orphanTar>>
    /\ UNCHANGED <<upstream, bare, lockVars, req, commit, seen, resultVars, orphanGit>>

\* git archive captured in memory, then atomic_write of .tmp.tar.
Archive(p) ==
    /\ \/ /\ pc[p] = "archive"
          /\ Goto(p, "stage")
          /\ KeepGoing /\ UNCHANGED <<treeVars, commit>>
       \/ pc[p] \in {"archive", "stage"} /\ Throw(p) /\ UNCHANGED treeVars
       \/ /\ pc[p] = "stage"
          /\ Goto(p, "untar0")
          /\ staged' = staged \cup {commit[p]}
          /\ KeepGoing /\ UNCHANGED <<files, marked, spoilt, commit>>
    /\ UNCHANGED <<upstream, bare, resultVars, orphanVars>>

\* Mutant: tar's exit status is not looked at.
ExtractUnchecked(p) ==
    /\ \/ /\ pc[p] = "untar0"
          /\ files' = [files EXCEPT ![commit[p]] = "some"]
          /\ Goto(p, "untar1")
       \/ /\ pc[p] = "untar1"
          /\ files' = [files EXCEPT ![commit[p]] = "all"]
          /\ Goto(p, "unstage")
       \/ pc[p] \in Untar /\ Goto(p, "unstage") /\ UNCHANGED files
    /\ KeepGoing
    /\ UNCHANGED <<upstream, bare, staged, marked, spoilt, commit, resultVars, orphanVars>>

\* tar -xf: files appear one by one; a failing tar leaves what it wrote.
Extract(p) ==
    /\ \/ /\ pc[p] = "untar0"
          /\ files' = [files EXCEPT ![commit[p]] = "some"]
          /\ Goto(p, "untar1") /\ KeepGoing /\ UNCHANGED commit
       \/ /\ pc[p] = "untar1"
          /\ files' = [files EXCEPT ![commit[p]] = "all"]
          /\ Goto(p, "unstage") /\ KeepGoing /\ UNCHANGED commit
       \/ pc[p] \in Untar /\ Throw(p) /\ UNCHANGED files
    /\ UNCHANGED <<upstream, bare, staged, marked, spoilt, resultVars, orphanVars>>

\* fs::remove(tmp_tar), whose error is dropped: the tarball may stay.
Unstage(p) ==
    /\ pc[p] = "unstage" /\ Goto(p, "mark")
    /\ \/ staged' = staged \ {commit[p]} /\ UNCHANGED spoilt
       \/ /\ commit[p] \in Failing
          /\ spoilt' = spoilt \cup {commit[p]} /\ UNCHANGED staged
    /\ UNCHANGED <<upstream, bare, files, marked, lockVars, req, commit, seen, resultVars, orphanVars>>

\* The stream that writes .rxy_extracted is not looked at: there may be none.
Mark(p) ==
    /\ pc[p] = "mark" /\ Goto(p, "hash")
    /\ \/ marked' = marked \cup {commit[p]}
       \/ commit[p] \in Failing /\ UNCHANGED marked
    /\ UNCHANGED <<upstream, bare, files, staged, spoilt, lockVars, req, commit, seen, resultVars,
                   orphanVars>>

\* load_dep_manifest_into (a partial tree may parse or not), then the
\* checksum; returning releases both locks.
Hash(p) ==
    /\ pc[p] = "hash"
    /\ \/ /\ commit[p] \notin Misnamed
          /\ Goto(p, "done") /\ ReleaseLocks(p)
          /\ sum' = [sum EXCEPT ![p] = Digest(commit[p])]
          /\ sealed' = IF commit[p] \in marked THEN sealed \cup {p} ELSE sealed
          /\ UNCHANGED <<req, commit, seen>>
       \/ /\ commit[p] \in Misnamed \/ files[commit[p]] # "all"
          /\ Throw(p)
          /\ UNCHANGED resultVars
    /\ UNCHANGED <<upstream, bare, treeVars, orphanVars>>

-----------------------------------------------------------------------------
\* Mutant: a lock file's existence is the lock, so a dead holder keeps it.
CrashKeepsLocks(p) ==
    /\ pc[p] \notin Resting
    /\ Goto(p, "idle")
    /\ req' = [req EXCEPT ![p] = NoRequest]
    /\ commit' = [commit EXCEPT ![p] = NoCommit]
    /\ seen' = [seen EXCEPT ![p] = {}]
    /\ UNCHANGED <<upstream, bare, treeVars, lockVars, resultVars, orphanVars>>

\* The git that a killed rxy was waiting for, which upstream has told something or
\* not yet.
GitChildren(p) ==
    IF pc[p] \in Cloning \cup {"fetch"}
    THEN {[url |-> req[p].url, op |-> IF pc[p] = "fetch" THEN "fetch" ELSE "clone", told |-> t]
             : t \in seen[p] \cup {NoCommit}}
    ELSE {}

\* SIGKILL, OOM kill or power loss.  The lock files are O_CLOEXEC, so a child
\* that survives (a signal to the process group takes it along) holds no lock.
Crash(p) ==
    /\ pc[p] \notin Resting
    /\ Goto(p, "idle")
    /\ ReleaseLocks(p)
    /\ req' = [req EXCEPT ![p] = NoRequest]
    /\ commit' = [commit EXCEPT ![p] = NoCommit]
    /\ \/ /\ seen' = [seen EXCEPT ![p] = {}]
          /\ UNCHANGED orphanVars
       \/ /\ Cardinality(orphanGit) < MaxGit
          /\ \E g \in GitChildren(p) : /\ g.url \in Lingering
                                       /\ orphanGit' = orphanGit \cup {g}
                                       /\ seen' = [Tell(g.url, g.told) EXCEPT ![p] = {}]
          /\ UNCHANGED orphanTar
       \/ /\ pc[p] \in Untar /\ Cardinality(orphanTar) < MaxTar
          /\ orphanTar' = orphanTar \cup {commit[p]}
          /\ seen' = [seen EXCEPT ![p] = {}]
          /\ UNCHANGED orphanGit
    /\ UNCHANGED <<upstream, bare, treeVars, resultVars>>

\* An orphan git is told what upstream names.
OrphanGitAsks(o) ==
    /\ o \in orphanGit /\ o.told = NoCommit
    /\ orphanGit' = (orphanGit \ {o}) \cup {[o EXCEPT !.told = upstream[o.url]]}
    /\ seen' = Tell(o.url, upstream[o.url])
    /\ UNCHANGED <<upstream, bare, treeVars, lockVars, pc, req, commit, resultVars, orphanTar>>

\* It completes with what it was told, however long ago, or fails; a clone that
\* fails removes the directory it was given.
OrphanGitEnds(o) ==
    /\ o \in orphanGit
    /\ orphanGit' = orphanGit \ {o}
    /\ \/ UNCHANGED bare
       \/ o.op = "clone" /\ bare' = [bare EXCEPT ![o.url] = NoBare]
       \/ /\ o.told # NoCommit
          /\ bare' = [bare EXCEPT ![o.url] = IF o.op = "clone" THEN Cloned(o.told)
                                             ELSE Fetched(o.url, o.told)]
    /\ UNCHANGED <<upstream, treeVars, lockVars, procVars, orphanTar>>

\* An orphan tar rewrites a file of its directory, or finishes.
OrphanTarStep(c) ==
    /\ c \in orphanTar
    /\ \/ /\ files' = [files EXCEPT ![c] = "some"]
          /\ UNCHANGED orphanTar
       \/ /\ files' = [files EXCEPT ![c] = "all"]
          /\ orphanTar' = orphanTar \ {c}
    /\ UNCHANGED <<upstream, bare, staged, marked, spoilt, lockVars, procVars, orphanGit>>

\* The package's author moves the tag (force-push) and HEAD.
Push(u, c) ==
    /\ u \in Moving /\ upstream[u] # c
    /\ upstream' = [upstream EXCEPT ![u] = c]
    /\ seen' = Tell(u, c)
    /\ UNCHANGED <<bare, treeVars, lockVars, pc, req, commit, resultVars, orphanVars>>

Step(p) ==
    \/ Probe(p) \/ CloneStep(p) \/ CloneFail(p) \/ Fetch(p) \/ Parse(p)
    \/ Prepare(p) \/ Archive(p) \/ Extract(p) \/ Unstage(p) \/ Mark(p) \/ Hash(p)

Next ==
    \/ \E p \in Procs : Start(p) \/ LockBare(p) \/ LockSrc(p) \/ Step(p) \/ Crash(p)
    \/ \E o \in orphanGit : OrphanGitAsks(o) \/ OrphanGitEnds(o)
    \/ \E c \in Commits : OrphanTarStep(c) \/ \E u \in Urls : Push(u, c)

Spec == Init /\ [][Next]_vars

\* The scheduler runs every runnable process, and the kernel does not starve
\* an flock waiter while the lock keeps being freed.
Turn(p)  == LockBare(p) \/ LockSrc(p) \/ Step(p)
Fairness == \A p \in Procs : SF_vars(Turn(p))
FairSpec == Spec /\ Fairness
-----------------------------------------------------------------------------
HoldsBare(p) == pc[p] \notin Resting \cup {"lockBare"}
HoldsSrc(p)  == pc[p] \in {"prepare", "hash"} \cup Filling
OnUrl(p, u)  == HoldsBare(p) /\ req[p].url = u
OnTree(p, c) == HoldsSrc(p) /\ commit[p] = c

\* FileLock: at most one live process is between taking and releasing a
\* bucket's lock, with children of killed processes around or not.
LocksExclusive ==
    \A p, q \in Procs : p # q =>
        /\ \A u \in Urls : ~(OnUrl(p, u) /\ OnUrl(q, u))
        /\ \A c \in Commits : ~(OnTree(p, c) /\ OnTree(q, c))

\* The locks are to make each extraction run alone, whoever was killed before.
\* They do among processes; a tar that was left over is stopped by remove_all, or
\* the worktree counts as spoilt: nobody else writes a tree that is to be trusted.
ExtractsAlone ==
    \A p \in Procs, c \in Commits \ spoilt : OnTree(p, c) /\ pc[p] \in Filling =>
        /\ c \notin orphanTar
        /\ \A q \in Procs \ {p} : ~OnTree(q, c)

\* The fast path trusts .rxy_extracted: whatever crashed before and whatever was
\* left running, a marked worktree that was not spoilt holds the whole commit and
\* no staged tarball that would be hashed.
MarkedTreeComplete ==
    \A c \in marked \ spoilt : Digest(c) = "good"

\* A resolve hands out the commit's own checksum, and the worktree it points the
\* compiler at (which rexc reads after the locks are gone) stays whole, if the
\* marker was in fact written and the worktree is not spoilt.
HandedTreeStays ==
    \A p \in Procs : pc[p] = "done" /\ commit[p] \notin spoilt =>
        /\ sum[p] = "good"
        /\ p \in sealed => commit[p] \in marked /\ Digest(commit[p]) = "good"

\* FR-020: the cache is only written to add immutable content.  No step of any
\* process, crash, restart or left-over child touches a worktree once it is
\* marked, unless it was spoilt before.
KeepMarkedTrees == \A c \in marked \ spoilt : /\ c \in marked' \ spoilt'
                                             /\ files'[c] = files[c]
                                             /\ c \in staged' <=> c \in staged
MarkedTreesImmutable == [][KeepMarkedTrees]_vars

\* A bare clone changes only by an online process under its lock, or by a child
\* such a process left behind: an offline resolve, even of the same URL at the
\* same time, never does network.
BareChangesAreOnline ==
    [][\A u \in Urls : bare'[u] # bare[u] =>
          \/ \E o \in orphanGit : o.url = u
          \/ \E p \in Procs : bareLock[u] = p /\ OnUrl(p, u) /\ ~req[p].offline]_vars

\* An online resolve of a tag returns a commit the upstream tag named at some
\* moment of that very resolve, although the bare clone is shared and cached;
\* or one that a git left over in that clone from a killed rxy was told.
FreshTag ==
    [][\A p \in Procs :
          pc[p] = "parse" /\ pc'[p] = "lockSrc" /\ req[p].ref = "tag" /\ ~req[p].offline
            => commit'[p] \in seen[p]]_vars

\* Every resolve ends, with a result, an error or a kill: two locks taken in
\* one order, and no waiter is left behind by a holder that died.
ResolveEnds == \A p \in Procs : pc[p] = "lockBare" ~> pc[p] \in Resting

\* The cache implements the abstract content store: what is published are the
\* marked worktrees, and handed out those that carried their marker; spoilt ones
\* are left out of both.
Store == INSTANCE ContentStore WITH
    store  <- {c \in marked \ spoilt : Digest(c) = "good"},
    handed <- [p \in Procs |-> IF pc[p] = "done" /\ p \in sealed /\ commit[p] \notin spoilt
                               THEN commit[p] ELSE NoCommit]
StoreSpec == Store!Spec
=============================================================================
