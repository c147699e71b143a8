--------------------------- MODULE RxyCacheProofs ---------------------------
(***************************************************************************)
(* Proofs about RxyCache, for any number of processes, URLs and commits.    *)
(* The inductive invariant says who owns each lock (Ownership), what an     *)
(* owner at each control point knows of its worktree (Progress), and what   *)
(* every marked worktree looks like (MarkedTreeComplete).  Ownership also   *)
(* shows that nobody waits in a circle, and the control points have an      *)
(* order in which every step goes up (Advances).                            *)
(***************************************************************************)
EXTENDS RxyCache, TLAPS

\* Bound data of a process at each control point.
Bound ==
    \A p \in Procs :
        /\ pc[p] # "idle" => req[p] \in Requests
        /\ pc[p] = "done" \/ pc[p] = "lockSrc" \/ HoldsSrc(p) => commit[p] \in Commits

\* A lock is held exactly by the process inside the section it guards.
Ownership ==
    \A p \in Procs :
        /\ \A u \in Urls : bareLock[u] = p <=> OnUrl(p, u)
        /\ \A c \in Commits : srcLock[c] = p <=> OnTree(p, c)

\* What the owner of a worktree's lock knows of the worktree, unless it is spoilt:
\* no left-over tar runs in it, and what is in it follows from how far it is.
\* Nothing is sealed before it is handed out.
Progress ==
    \A p \in Procs :
        /\ pc[p] \in Filling => commit[p] \notin marked
        /\ p \in sealed => pc[p] \in Resting
        /\ commit[p] \notin spoilt =>
            /\ pc[p] \in Filling \cup {"hash"} => commit[p] \notin orphanTar
            /\ pc[p] \in {"unstage", "mark", "hash"} => files[commit[p]] = "all"
            /\ pc[p] \in {"mark", "hash"} => commit[p] \notin staged

\* No left-over tar runs in a marked worktree that is not spoilt.
MarkedAlone == marked \cap orphanTar \subseteq spoilt

LockInv == TypeOK /\ Bound /\ Ownership
TreeInv == LockInv /\ Progress /\ MarkedAlone /\ MarkedTreeComplete /\ HandedTreeStays

-----------------------------------------------------------------------------
\* Nothing is locked, running or cached at first.
LEMMA InitLockInv == Init => LockInv
  BY NoProcAssumption DEF Init, LockInv, TypeOK, Bound, Ownership, OnUrl, OnTree,
     HoldsBare, HoldsSrc, Resting, Filling, Untar, Labels, NoBare, Empty, Repo, BareRepo

\* The repositories that clone, fetch and a clone under way produce are typed.
LEMMA BareTypes ==
  ASSUME TypeOK, NEW u \in Urls
  PROVE  /\ NoBare \in BareRepo
         /\ Empty("init") \in BareRepo
         /\ Empty("origin") \in BareRepo
         /\ \A t \in Commits : Cloned(t) \in BareRepo /\ Fetched(u, t) \in BareRepo
  <1>1. bare[u] \in BareRepo /\ upstream[u] \in Commits
    BY DEF TypeOK
  <1>2. ASSUME NEW st \in {"absent", "init", "origin"} PROVE Empty(st) \in BareRepo
    BY DEF Empty, Repo, BareRepo
  <1>3. ASSUME NEW t \in Commits PROVE Cloned(t) \in BareRepo
    BY DEF BareRepo, Cloned, Repo
  <1>4. ASSUME NEW t \in Commits PROVE Fetched(u, t) \in BareRepo
    BY <1>1 DEF Fetched, BareRepo, Repo
  <1>. QED
    BY <1>2, <1>3, <1>4 DEF NoBare

\* rev-parse yields a commit, or NoCommit when it fails.
LEMMA RevParseType ==
  ASSUME TypeOK, NEW u \in Urls, NEW ref \in {"tag", "head"} \cup Commits
  PROVE  RevParse(u, ref) \in Commits \cup {NoCommit}
  BY DEF TypeOK, BareRepo, RevParse

\* A running process has a request, whose URL and ref are typed.
LEMMA RequestTypes ==
  ASSUME LockInv, NEW p \in Procs, pc[p] # "idle"
  PROVE  /\ req[p] \in Requests /\ req[p].url \in Urls
         /\ req[p].ref \in {"tag", "head"} \cup Commits
  BY RequestAssumption DEF LockInv, Bound, Request

\* The shape of a bare repository, apart from the other variables.
BareType == bare \in [Urls -> BareRepo]

\* Every step keeps bare repositories well formed.
LEMMA StepBareType == LockInv /\ [Next]_vars => BareType'
  <1> SUFFICES ASSUME LockInv, [Next]_vars PROVE BareType'
    OBVIOUS
  <1> USE RequestTypes, BareTypes DEF LockInv, TypeOK, BareType, Cloning
  <1>1. ASSUME NEW p \in Procs, Probe(p) PROVE BareType'
    BY <1>1 DEF Probe, KeepGoing
  <1>2. ASSUME NEW p \in Procs, CloneStep(p) PROVE BareType'
    BY <1>2 DEF CloneStep
  <1>3. ASSUME NEW p \in Procs, CloneFail(p) PROVE BareType'
    BY <1>3 DEF CloneFail
  <1>4. ASSUME NEW p \in Procs, Fetch(p) PROVE BareType'
    BY <1>4 DEF Fetch, KeepGoing
  <1>5. ASSUME NEW p \in Procs,
                 \/ Start(p) \/ LockBare(p) \/ LockSrc(p) \/ Parse(p) \/ Prepare(p)
                 \/ Archive(p) \/ Extract(p) \/ Unstage(p) \/ Mark(p) \/ Hash(p) \/ Crash(p)
         PROVE  BareType'
    BY <1>5 DEF Start, LockBare, LockSrc, Parse, Prepare, Archive, Extract, Unstage,
                Mark, Hash, Crash
  <1>6. ASSUME NEW o \in orphanGit, OrphanGitAsks(o) \/ OrphanGitEnds(o) PROVE BareType'
    <2>1. o.url \in Urls /\ o.told \in Commits \cup {NoCommit}
      BY DEF Orphan
    <2>. QED
      BY <1>6, <2>1 DEF OrphanGitAsks, OrphanGitEnds
  <1>7. ASSUME NEW c \in Commits, OrphanTarStep(c) PROVE BareType'
    BY <1>7 DEF OrphanTarStep
  <1>8. ASSUME NEW u \in Urls, NEW c \in Commits, Push(u, c) PROVE BareType'
    BY <1>8 DEF Push
  <1>9. CASE UNCHANGED vars
    BY <1>9 DEF vars, treeVars, lockVars, procVars, resultVars, orphanVars
  <1>. QED
    BY <1>1, <1>2, <1>3, <1>4, <1>5, <1>6, <1>7, <1>8, <1>9 DEF Next, Step

\* What a git left over is and what a resolve sees are typed.
LEMMA OrphanTypes ==
  ASSUME LockInv
  PROVE  /\ \A p \in Procs : GitChildren(p) \subseteq Orphan
         /\ \A o \in orphanGit : [o EXCEPT !.told = upstream[o.url]] \in Orphan
         /\ \A u \in Urls, t \in Commits \cup {NoCommit} : Tell(u, t) \in [Procs -> SUBSET Commits]
         /\ \A u \in Urls : ToldIn(u) \subseteq Commits
  <1> USE DEF LockInv, TypeOK
  <1>1. ASSUME NEW p \in Procs PROVE GitChildren(p) \subseteq Orphan
    BY RequestTypes DEF GitChildren, Orphan, Cloning
  <1>2. ASSUME NEW o \in orphanGit PROVE [o EXCEPT !.told = upstream[o.url]] \in Orphan
    BY DEF Orphan
  <1>3. ASSUME NEW u \in Urls, NEW t \in Commits \cup {NoCommit}
        PROVE  Tell(u, t) \in [Procs -> SUBSET Commits]
    BY DEF Tell
  <1>4. ASSUME NEW u \in Urls PROVE ToldIn(u) \subseteq Commits
    BY DEF ToldIn, Orphan
  <1>. QED
    BY <1>1, <1>2, <1>3, <1>4

OtherTypes ==
    /\ upstream \in [Urls -> Commits]
    /\ files \in [Commits -> {"none", "some", "all"}]
    /\ staged \subseteq Commits /\ marked \subseteq Commits
    /\ bareLock \in [Urls -> Procs \cup {NoProc}]
    /\ srcLock \in [Commits -> Procs \cup {NoProc}]
    /\ pc \in [Procs -> Labels]
    /\ req \in [Procs -> Requests \cup {NoRequest}]
    /\ commit \in [Procs -> Commits \cup {NoCommit}]
    /\ sum \in [Procs -> {"none", "good", "bad"}]
    /\ seen \in [Procs -> SUBSET Commits]
    /\ sealed \subseteq Procs /\ spoilt \subseteq Commits
    /\ orphanGit \subseteq Orphan /\ orphanTar \subseteq Commits

\* Every step keeps the types of the other variables; rev-parse is where the
\* commit a process works on comes from.
LEMMA StepOtherTypes == LockInv /\ [Next]_vars => OtherTypes'
  <1> SUFFICES ASSUME LockInv, [Next]_vars PROVE OtherTypes'
    OBVIOUS
  <1> USE DEF LockInv, TypeOK, OtherTypes, Bound, HoldsSrc, Resting, Cloning, Untar,
          Filling, Labels, lockVars, procVars, resultVars, orphanVars, treeVars, Goto
  <1>1. ASSUME NEW p \in Procs, Start(p) PROVE OtherTypes'
    <2>1. PICK r \in Requests : /\ req' = [req EXCEPT ![p] = r]
                               /\ seen' = [seen EXCEPT ![p] = {upstream[r.url]} \cup ToldIn(r.url)]
      BY <1>1 DEF Start
    <2>2. r.url \in Urls
      BY RequestAssumption DEF Request
    <2>3. {upstream[r.url]} \cup ToldIn(r.url) \in SUBSET Commits
      BY <2>2, OrphanTypes
    <2>4. seen' \in [Procs -> SUBSET Commits] /\ req' \in [Procs -> Requests \cup {NoRequest}]
      BY <2>1, <2>3
    <2>. QED
      BY <1>1, <2>4 DEF Start
  <1>2. ASSUME NEW p \in Procs, LockBare(p) PROVE OtherTypes'
    BY <1>2 DEF LockBare
  <1>3. ASSUME NEW p \in Procs, LockSrc(p) PROVE OtherTypes'
    BY <1>3 DEF LockSrc
  <1>4. ASSUME NEW p \in Procs, Probe(p) PROVE OtherTypes'
    BY <1>4 DEF Probe, KeepGoing, Throw, ReleaseLocks
  <1>5. ASSUME NEW p \in Procs, CloneStep(p) PROVE OtherTypes'
    BY <1>5 DEF CloneStep
  <1>6. ASSUME NEW p \in Procs, CloneFail(p) PROVE OtherTypes'
    BY <1>6 DEF CloneFail, Throw, ReleaseLocks
  <1>7. ASSUME NEW p \in Procs, Fetch(p) PROVE OtherTypes'
    BY <1>7 DEF Fetch, KeepGoing, Throw, ReleaseLocks
  <1>8. ASSUME NEW p \in Procs, Parse(p) PROVE OtherTypes'
    <2>1. RevParse(req[p].url, req[p].ref) \in Commits \cup {NoCommit}
      BY <1>8, RequestTypes, RevParseType DEF Parse
    <2>. QED
      BY <1>8, <2>1 DEF Parse, KeepGoing, Throw, ReleaseLocks
  <1>9. ASSUME NEW p \in Procs, Prepare(p) PROVE OtherTypes'
    BY <1>9 DEF Prepare
  <1>10. ASSUME NEW p \in Procs, Archive(p) PROVE OtherTypes'
    BY <1>10 DEF Archive, KeepGoing, Throw, ReleaseLocks
  <1>11. ASSUME NEW p \in Procs, Extract(p) PROVE OtherTypes'
    BY <1>11 DEF Extract, KeepGoing, Throw, ReleaseLocks
  <1>12. ASSUME NEW p \in Procs, Unstage(p) PROVE OtherTypes'
    BY <1>12 DEF Unstage
  <1>13. ASSUME NEW p \in Procs, Mark(p) PROVE OtherTypes'
    BY <1>13 DEF Mark
  <1>14. ASSUME NEW p \in Procs, Hash(p) PROVE OtherTypes'
    BY <1>14 DEF Hash, Digest, Throw, ReleaseLocks
  <1>15. ASSUME NEW p \in Procs, Crash(p) PROVE OtherTypes'
    <2>1. seen' \in [Procs -> SUBSET Commits] /\ orphanGit' \subseteq Orphan
      <3>1. CASE seen' = [seen EXCEPT ![p] = {}] /\ orphanGit' = orphanGit
        BY <3>1
      <3>2. ASSUME NEW g \in GitChildren(p), orphanGit' = orphanGit \cup {g},
                   seen' = [Tell(g.url, g.told) EXCEPT ![p] = {}]
            PROVE  seen' \in [Procs -> SUBSET Commits] /\ orphanGit' \subseteq Orphan
        <4>1. g \in Orphan
          BY OrphanTypes
        <4>2. Tell(g.url, g.told) \in [Procs -> SUBSET Commits]
          BY <4>1, OrphanTypes DEF Orphan
        <4>. QED
          BY <3>2, <4>1, <4>2
      <3>. QED
        BY <1>15, <3>1, <3>2 DEF Crash
    <2>2. orphanTar' \subseteq Commits
      BY <1>15 DEF Crash
    <2>. QED
      BY <1>15, <2>1, <2>2 DEF Crash, ReleaseLocks
  <1>16. ASSUME NEW o \in orphanGit, OrphanGitAsks(o) \/ OrphanGitEnds(o) PROVE OtherTypes'
    <2>1. o.url \in Urls /\ upstream[o.url] \in Commits
      BY DEF Orphan
    <2>. QED
      BY <1>16, <2>1, OrphanTypes DEF OrphanGitAsks, OrphanGitEnds
  <1>17. ASSUME NEW c \in Commits, OrphanTarStep(c) PROVE OtherTypes'
    BY <1>17 DEF OrphanTarStep
  <1>18. ASSUME NEW u \in Urls, NEW c \in Commits, Push(u, c) PROVE OtherTypes'
    BY <1>18, OrphanTypes DEF Push
  <1>19. CASE UNCHANGED vars
    BY <1>19 DEF vars, treeVars, lockVars, procVars, resultVars, orphanVars
  <1>. QED
    BY <1>1, <1>2, <1>3, <1>4, <1>5, <1>6, <1>7, <1>8, <1>9, <1>10, <1>11, <1>12,
       <1>13, <1>14, <1>15, <1>16, <1>17, <1>18, <1>19 DEF Next, Step

\* Every step keeps a running process's request, and a process that is past
\* rev-parse keeps a commit.
LEMMA StepBound == LockInv /\ [Next]_vars => Bound'
  <1> SUFFICES ASSUME LockInv, [Next]_vars PROVE Bound'
    OBVIOUS
  <1> USE DEF LockInv, TypeOK, Bound, HoldsSrc, Resting, Cloning, Untar, Filling,
          Labels, lockVars, procVars, resultVars, orphanVars, Goto
  <1>1. ASSUME NEW p \in Procs, Start(p) PROVE Bound'
    BY <1>1 DEF Start
  <1>2. ASSUME NEW p \in Procs, LockBare(p) PROVE Bound'
    BY <1>2 DEF LockBare
  <1>3. ASSUME NEW p \in Procs, LockSrc(p) PROVE Bound'
    BY <1>3 DEF LockSrc
  <1>4. ASSUME NEW p \in Procs, Probe(p) PROVE Bound'
    BY <1>4 DEF Probe, KeepGoing, Throw, ReleaseLocks
  <1>5. ASSUME NEW p \in Procs, CloneStep(p) PROVE Bound'
    BY <1>5 DEF CloneStep
  <1>6. ASSUME NEW p \in Procs, CloneFail(p) PROVE Bound'
    BY <1>6 DEF CloneFail, Throw, ReleaseLocks
  <1>7. ASSUME NEW p \in Procs, Fetch(p) PROVE Bound'
    BY <1>7 DEF Fetch, KeepGoing, Throw, ReleaseLocks
  <1>8. ASSUME NEW p \in Procs, Parse(p) PROVE Bound'
    <2>1. RevParse(req[p].url, req[p].ref) \in Commits \cup {NoCommit}
      BY <1>8, RequestTypes, RevParseType DEF Parse
    <2>. QED
      BY <1>8, <2>1 DEF Parse, KeepGoing, Throw, ReleaseLocks
  <1>9. ASSUME NEW p \in Procs, Prepare(p) PROVE Bound'
    BY <1>9 DEF Prepare
  <1>10. ASSUME NEW p \in Procs, Archive(p) PROVE Bound'
    BY <1>10 DEF Archive, KeepGoing, Throw, ReleaseLocks
  <1>11. ASSUME NEW p \in Procs, Extract(p) PROVE Bound'
    BY <1>11 DEF Extract, KeepGoing, Throw, ReleaseLocks
  <1>12. ASSUME NEW p \in Procs, Unstage(p) PROVE Bound'
    BY <1>12 DEF Unstage
  <1>13. ASSUME NEW p \in Procs, Mark(p) PROVE Bound'
    BY <1>13 DEF Mark
  <1>14. ASSUME NEW p \in Procs, Hash(p) PROVE Bound'
    BY <1>14 DEF Hash, Digest, Throw, ReleaseLocks
  <1>15. ASSUME NEW p \in Procs, Crash(p) PROVE Bound'
    BY <1>15 DEF Crash, ReleaseLocks
  <1>16. ASSUME NEW o \in orphanGit, OrphanGitAsks(o) \/ OrphanGitEnds(o) PROVE Bound'
    BY <1>16 DEF OrphanGitAsks, OrphanGitEnds
  <1>17. ASSUME NEW c \in Commits, OrphanTarStep(c) PROVE Bound'
    BY <1>17 DEF OrphanTarStep
  <1>18. ASSUME NEW u \in Urls, NEW c \in Commits, Push(u, c) PROVE Bound'
    BY <1>18 DEF Push
  <1>19. CASE UNCHANGED vars
    BY <1>19 DEF vars, treeVars, lockVars, procVars, resultVars, orphanVars
  <1>. QED
    BY <1>1, <1>2, <1>3, <1>4, <1>5, <1>6, <1>7, <1>8, <1>9, <1>10, <1>11, <1>12,
       <1>13, <1>14, <1>15, <1>16, <1>17, <1>18, <1>19 DEF Next, Step

\* Every step keeps the lock table and the control points in agreement: the
\* guard of the two lock actions is all that makes it so.
LEMMA StepOwnership == LockInv /\ [Next]_vars => Ownership'
  <1> SUFFICES ASSUME LockInv, [Next]_vars PROVE Ownership'
    OBVIOUS
  <1> USE NoProcAssumption
      DEF LockInv, TypeOK, Bound, Ownership, OnUrl, OnTree, HoldsBare, HoldsSrc,
          Resting, Cloning, Untar, Filling, Labels, lockVars, procVars, resultVars, orphanVars, Goto
  <1>1. ASSUME NEW p \in Procs, Start(p) PROVE Ownership'
    BY <1>1 DEF Start
  <1>2. ASSUME NEW p \in Procs, LockBare(p) PROVE Ownership'
    BY <1>2 DEF LockBare
  <1>3. ASSUME NEW p \in Procs, LockSrc(p) PROVE Ownership'
    BY <1>3 DEF LockSrc
  <1>4. ASSUME NEW p \in Procs, Probe(p) PROVE Ownership'
    BY <1>4 DEF Probe, KeepGoing, Throw, ReleaseLocks
  <1>5. ASSUME NEW p \in Procs, CloneStep(p) PROVE Ownership'
    BY <1>5 DEF CloneStep
  <1>6. ASSUME NEW p \in Procs, CloneFail(p) PROVE Ownership'
    BY <1>6 DEF CloneFail, Throw, ReleaseLocks
  <1>7. ASSUME NEW p \in Procs, Fetch(p) PROVE Ownership'
    BY <1>7 DEF Fetch, KeepGoing, Throw, ReleaseLocks
  <1>8. ASSUME NEW p \in Procs, Parse(p) PROVE Ownership'
    BY <1>8 DEF Parse, KeepGoing, Throw, ReleaseLocks
  <1>9. ASSUME NEW p \in Procs, Prepare(p) PROVE Ownership'
    BY <1>9 DEF Prepare
  <1>10. ASSUME NEW p \in Procs, Archive(p) PROVE Ownership'
    BY <1>10 DEF Archive, KeepGoing, Throw, ReleaseLocks
  <1>11. ASSUME NEW p \in Procs, Extract(p) PROVE Ownership'
    BY <1>11 DEF Extract, KeepGoing, Throw, ReleaseLocks
  <1>12. ASSUME NEW p \in Procs, Unstage(p) PROVE Ownership'
    BY <1>12 DEF Unstage
  <1>13. ASSUME NEW p \in Procs, Mark(p) PROVE Ownership'
    BY <1>13 DEF Mark
  <1>14. ASSUME NEW p \in Procs, Hash(p) PROVE Ownership'
    BY <1>14 DEF Hash, Digest, Throw, ReleaseLocks
  <1>15. ASSUME NEW p \in Procs, Crash(p) PROVE Ownership'
    BY <1>15 DEF Crash, ReleaseLocks
  <1>16. ASSUME NEW o \in orphanGit, OrphanGitAsks(o) \/ OrphanGitEnds(o) PROVE Ownership'
    BY <1>16 DEF OrphanGitAsks, OrphanGitEnds
  <1>17. ASSUME NEW c \in Commits, OrphanTarStep(c) PROVE Ownership'
    BY <1>17 DEF OrphanTarStep
  <1>18. ASSUME NEW u \in Urls, NEW c \in Commits, Push(u, c) PROVE Ownership'
    BY <1>18 DEF Push
  <1>19. CASE UNCHANGED vars
    BY <1>19 DEF vars, treeVars, lockVars, procVars, resultVars, orphanVars
  <1>. QED
    BY <1>1, <1>2, <1>3, <1>4, <1>5, <1>6, <1>7, <1>8, <1>9, <1>10, <1>11, <1>12,
       <1>13, <1>14, <1>15, <1>16, <1>17, <1>18, <1>19 DEF Next, Step

\* The lock invariant is inductive.
LEMMA LockInvariant == Spec => []LockInv
  <1>1. LockInv /\ [Next]_vars => LockInv'
    BY StepBareType, StepOtherTypes, StepBound, StepOwnership
    DEF LockInv, TypeOK, BareType, OtherTypes
  <1>. QED
    BY <1>1, InitLockInv, PTL DEF Spec

\* Every variable keeps its type, whatever dies and whoever else resolves.
THEOREM TypeCorrect == Spec => []TypeOK
  BY LockInvariant, PTL DEF LockInv

\* FileLock's mutual exclusion, for any number of processes and buckets, with
\* crashes and with children that outlive them: whoever is inside a section is
\* the recorded holder, so two processes inside would be the same holder.
THEOREM MutualExclusion == Spec => []LocksExclusive
  <1>1. LockInv => LocksExclusive
    BY DEF LockInv, Ownership, LocksExclusive
  <1>. QED
    BY <1>1, LockInvariant, PTL

-----------------------------------------------------------------------------
\* A process stuck in flock: the lock it asks for has a holder.
Waits(p) ==
    \/ pc[p] = "lockBare" /\ bareLock[req[p].url] # NoProc
    \/ pc[p] = "lockSrc" /\ srcLock[commit[p]] # NoProc

\* Whoever waits, some other process is inside resolve_git and waits for
\* nothing: the two locks never close a circle.
SomeoneRuns ==
    \A p \in Procs : Waits(p) =>
        \E q \in Procs : q # p /\ pc[q] \notin Resting /\ ~Waits(q)

\* The holder of a worktree's lock never waits: it asked for its last lock.
LEMMA TreeHolderRuns ==
  ASSUME LockInv, NEW p \in Procs, pc[p] = "lockSrc", Waits(p)
  PROVE  \E q \in Procs : q # p /\ HoldsSrc(q) /\ pc[q] \notin Resting /\ ~Waits(q)
  <1>1. commit[p] \in Commits /\ srcLock[commit[p]] \in Procs
    BY DEF LockInv, TypeOK, Bound, Waits
  <1> DEFINE q == srcLock[commit[p]]
  <1>2. HoldsSrc(q)
    BY <1>1 DEF LockInv, Ownership, OnTree
  <1>3. q # p /\ pc[q] \notin Resting /\ ~Waits(q)
    BY <1>2 DEF HoldsSrc, Filling, Untar, Resting, Waits
  <1>. QED
    BY <1>1, <1>2, <1>3

\* resolve_git takes the bare lock first and the worktree lock inside it, so a
\* chain of waiters is at most two long: the holder of a clone may wait for a
\* worktree, whose holder runs.  Dead holders are no link of the chain, since
\* their locks died with them (Ownership), children left behind or not.
THEOREM NoCircularWait == Spec => []SomeoneRuns
  <1>1. LockInv => SomeoneRuns
    <2> SUFFICES ASSUME LockInv, NEW p \in Procs, Waits(p)
                 PROVE  \E q \in Procs : q # p /\ pc[q] \notin Resting /\ ~Waits(q)
      BY DEF SomeoneRuns
    <2>1. CASE pc[p] = "lockSrc"
      BY <2>1, TreeHolderRuns
    <2>2. CASE pc[p] = "lockBare"
      <3>1. req[p].url \in Urls /\ bareLock[req[p].url] \in Procs
        BY <2>2, RequestTypes DEF LockInv, TypeOK, Waits
      <3> DEFINE q == bareLock[req[p].url]
      <3>2. HoldsBare(q)
        BY <3>1 DEF LockInv, Ownership, OnUrl
      <3>3. q # p /\ pc[q] \notin Resting /\ pc[q] # "lockBare"
        BY <2>2, <3>2 DEF HoldsBare
      <3>4. CASE ~Waits(q)
        BY <3>1, <3>3, <3>4
      <3>5. CASE Waits(q)
        <4>1. pc[q] = "lockSrc"
          BY <3>3, <3>5 DEF Waits
        <4>2. PICK r \in Procs : HoldsSrc(r) /\ pc[r] \notin Resting /\ ~Waits(r)
          BY <3>1, <3>5, <4>1, TreeHolderRuns
        <4>3. r # p
          BY <2>2, <4>2 DEF HoldsSrc, Filling, Untar
        <4>. QED
          BY <4>2, <4>3
      <3>. QED
        BY <3>4, <3>5
    <2>. QED
      BY <2>1, <2>2 DEF Waits
  <1>. QED
    BY <1>1, LockInvariant, PTL

\* How far a resolve is: the order of resolve_git's steps.
Stage(l) ==
    CASE l = "lockBare" -> 0  [] l = "probe" -> 1
      [] l = "clone0" -> 2    [] l = "clone1" -> 3  [] l = "clone2" -> 4
      [] l = "fetch" -> 5     [] l = "parse" -> 6   [] l = "lockSrc" -> 7
      [] l = "prepare" -> 8   [] l = "archive" -> 9 [] l = "stage" -> 10
      [] l = "untar0" -> 11   [] l = "untar1" -> 12 [] l = "unstage" -> 13
      [] l = "mark" -> 14     [] OTHER -> 15
Ahead(p) == pc'[p] \in Resting \/ Stage(pc[p]) < Stage(pc'[p])

\* Each step a process takes in resolve_git brings it nearer its end, and
\* nothing but its own steps, a new request or its death moves it.
Advances ==
    \A p \in Procs : /\ Turn(p) => Ahead(p)
                     /\ pc'[p] # pc[p] => \/ pc[p] \in Resting /\ pc'[p] = "lockBare"
                                          \/ Ahead(p)

\* resolve_git never goes round: no retry, no step taken twice, whatever the
\* other processes and the left-over children do to its buckets.  A resolve is
\* thus at most fifteen steps long once its locks are granted, the half of
\* ResolveEnds that needs no fairness.
THEOREM NeverGoesRound == Spec => [][Advances]_vars
  <1>1. LockInv /\ [Next]_vars => [Advances]_vars
    <2> SUFFICES ASSUME LockInv, Next PROVE Advances
      OBVIOUS
    <2> USE DEF Resting, Cloning, Untar, Filling, Labels, Goto, Throw, Stage, Ahead, LockInv,
            TypeOK
    <2>1. ASSUME NEW p \in Procs, Turn(p) PROVE Ahead(p) /\ pc' = [pc EXCEPT ![p] = pc'[p]]
      <3>1. CASE LockBare(p) \/ LockSrc(p)
        BY <3>1 DEF LockBare, LockSrc
      <3>2. CASE Probe(p) \/ CloneStep(p) \/ CloneFail(p) \/ Fetch(p) \/ Parse(p)
        BY <3>2 DEF Probe, CloneStep, CloneFail, Fetch, Parse
      <3>3. CASE Prepare(p) \/ Archive(p) \/ Extract(p)
        BY <3>3 DEF Prepare, Archive, Extract
      <3>4. CASE Unstage(p) \/ Mark(p) \/ Hash(p)
        BY <3>4 DEF Unstage, Mark, Hash
      <3>. QED
        BY <2>1, <3>1, <3>2, <3>3, <3>4 DEF Turn, Step
    <2>2. ASSUME NEW p \in Procs, Start(p) PROVE pc[p] \in Resting /\ Goto(p, "lockBare")
      BY <2>2 DEF Start
    <2>3. ASSUME NEW p \in Procs, Crash(p) PROVE Goto(p, "idle")
      BY <2>3 DEF Crash
    <2>4. ASSUME NEW o \in orphanGit, OrphanGitAsks(o) \/ OrphanGitEnds(o)
          PROVE  pc' = pc
      BY <2>4 DEF OrphanGitAsks, OrphanGitEnds, procVars
    <2>5. ASSUME NEW c \in Commits, OrphanTarStep(c) \/ \E u \in Urls : Push(u, c)
          PROVE  pc' = pc
      BY <2>5 DEF OrphanTarStep, Push, procVars
    <2> SUFFICES ASSUME NEW p \in Procs, pc'[p] # pc[p]
                 PROVE  \/ pc[p] \in Resting /\ pc'[p] = "lockBare"
                        \/ Ahead(p)
      BY <2>1 DEF Advances
    <2>6. PICK q \in Procs : Turn(q) \/ Start(q) \/ Crash(q)
      BY <2>4, <2>5 DEF Next, Turn
    <2>7. q = p
      BY <2>1, <2>2, <2>3, <2>6
    <2>. QED
      BY <2>1, <2>2, <2>3, <2>6, <2>7
  <1>. QED
    BY <1>1, LockInvariant, PTL DEF Spec

-----------------------------------------------------------------------------
\* Only an online resolve is ever inside the clone or the fetch.
OnlineGit == \A p \in Procs : pc[p] \in Cloning \cup {"fetch"} => ~req[p].offline

\* The guard of resolve_git's probe is the only way into the clone or the fetch,
\* and a request does not change while it is served.
LEMMA StepOnlineGit == LockInv /\ OnlineGit /\ [Next]_vars => OnlineGit'
  <1> SUFFICES ASSUME LockInv, OnlineGit, [Next]_vars PROVE OnlineGit'
    OBVIOUS
  <1> USE DEF LockInv, TypeOK, OnlineGit, Resting, Cloning, Untar, Filling, Labels,
          lockVars, procVars, resultVars, Goto
  <1>1. ASSUME NEW p \in Procs, Start(p) \/ LockBare(p) \/ LockSrc(p) PROVE OnlineGit'
    BY <1>1 DEF Start, LockBare, LockSrc
  <1>2. ASSUME NEW p \in Procs, Probe(p) PROVE OnlineGit'
    BY <1>2 DEF Probe, KeepGoing, Throw
  <1>3. ASSUME NEW p \in Procs, CloneStep(p) \/ CloneFail(p) PROVE OnlineGit'
    BY <1>3 DEF CloneStep, CloneFail, Throw
  <1>4. ASSUME NEW p \in Procs, Fetch(p) \/ Parse(p) PROVE OnlineGit'
    BY <1>4 DEF Fetch, Parse, KeepGoing, Throw
  <1>5. ASSUME NEW p \in Procs, Prepare(p) \/ Archive(p) \/ Extract(p) PROVE OnlineGit'
    BY <1>5 DEF Prepare, Archive, Extract, KeepGoing, Throw
  <1>6. ASSUME NEW p \in Procs, Unstage(p) \/ Mark(p) \/ Hash(p) \/ Crash(p)
        PROVE  OnlineGit'
    BY <1>6 DEF Unstage, Mark, Hash, Crash, Throw
  <1>7. ASSUME NEW o \in orphanGit, OrphanGitAsks(o) \/ OrphanGitEnds(o) PROVE OnlineGit'
    BY <1>7 DEF OrphanGitAsks, OrphanGitEnds
  <1>8. ASSUME NEW c \in Commits, OrphanTarStep(c) PROVE OnlineGit'
    BY <1>8 DEF OrphanTarStep
  <1>9. ASSUME NEW u \in Urls, NEW c \in Commits, Push(u, c) PROVE OnlineGit'
    BY <1>9 DEF Push
  <1>10. CASE UNCHANGED vars
    BY <1>10 DEF vars, treeVars, lockVars, procVars, resultVars, orphanVars
  <1>. QED
    BY <1>1, <1>2, <1>3, <1>4, <1>5, <1>6, <1>7, <1>8, <1>9, <1>10 DEF Next, Step

\* Who may change a bare clone in a step: a child left behind, or an online
\* resolve of its URL that holds its lock.
MayChange(u) ==
    \/ \E o \in orphanGit : o.url = u
    \/ \E p \in Procs : bareLock[u] = p /\ OnUrl(p, u) /\ ~req[p].offline

\* A step that changes a bare clone is one of clone, fetch and probe, each of
\* which works on its own URL only, and under its lock (Ownership).
LEMMA StepBareChange ==
  ASSUME LockInv, OnlineGit, [Next]_vars, NEW u \in Urls, bare'[u] # bare[u]
  PROVE  MayChange(u)
  <1> USE DEF LockInv, TypeOK, lockVars, procVars, resultVars, Goto
  <1>1. ASSUME NEW p \in Procs, pc[p] \in {"probe", "fetch"} \cup Cloning,
               req[p].url = u, ~req[p].offline
        PROVE  MayChange(u)
    BY <1>1 DEF MayChange, Ownership, OnUrl, HoldsBare, Resting, Cloning
  <1>2. ASSUME NEW p \in Procs, Probe(p) PROVE MayChange(u)
    BY <1>1, <1>2 DEF Probe
  <1>3. ASSUME NEW p \in Procs, CloneStep(p) \/ CloneFail(p) PROVE MayChange(u)
    <2>1. pc[p] \in Cloning /\ req[p].url = u
      BY <1>3 DEF CloneStep, CloneFail, Cloning
    <2>. QED
      BY <1>1, <2>1 DEF OnlineGit
  <1>4. ASSUME NEW p \in Procs, Fetch(p) PROVE MayChange(u)
    <2>1. pc[p] = "fetch" /\ req[p].url = u
      BY <1>4 DEF Fetch
    <2>. QED
      BY <1>1, <2>1 DEF OnlineGit
  <1>5. ASSUME NEW p \in Procs,
                 \/ Start(p) \/ LockBare(p) \/ LockSrc(p) \/ Parse(p) \/ Prepare(p)
                 \/ Archive(p) \/ Extract(p) \/ Unstage(p) \/ Mark(p) \/ Hash(p) \/ Crash(p)
        PROVE  MayChange(u)
    BY <1>5 DEF Start, LockBare, LockSrc, Parse, Prepare, Archive, Extract, Unstage,
                Mark, Hash, Crash
  <1>6. ASSUME NEW o \in orphanGit, OrphanGitAsks(o) \/ OrphanGitEnds(o) PROVE MayChange(u)
    BY <1>6 DEF OrphanGitAsks, OrphanGitEnds, MayChange
  <1>7. ASSUME NEW c \in Commits, OrphanTarStep(c) PROVE MayChange(u)
    BY <1>7 DEF OrphanTarStep
  <1>8. ASSUME NEW v \in Urls, NEW c \in Commits, Push(v, c) PROVE MayChange(u)
    BY <1>8 DEF Push
  <1>9. CASE UNCHANGED vars
    BY <1>9 DEF vars, treeVars, lockVars, procVars, resultVars, orphanVars
  <1>. QED
    BY <1>2, <1>3, <1>4, <1>5, <1>6, <1>7, <1>8, <1>9 DEF Next, Step

\* --offline does no network, whoever resolves the same URL at the same time and
\* whatever was killed before: every change of a bare clone is the work of an
\* online resolve that holds the clone's lock, or of a child such a one left.
THEOREM OfflineDoesNoNetwork == Spec => BareChangesAreOnline
  <1>1. Init => OnlineGit
    BY DEF Init, OnlineGit, Cloning
  <1>2. LockInv /\ OnlineGit /\ [Next]_vars =>
          [\A u \in Urls : bare'[u] # bare[u] =>
              \/ \E o \in orphanGit : o.url = u
              \/ \E p \in Procs : bareLock[u] = p /\ OnUrl(p, u) /\ ~req[p].offline]_vars
    BY StepBareChange DEF MayChange
  <1>. QED
    BY <1>1, <1>2, StepOnlineGit, LockInvariant, PTL DEF Spec, BareChangesAreOnline

-----------------------------------------------------------------------------
\* Until rev-parse a process has seen what upstream names now, and what each git
\* left over in its clone was told.
SeenNow ==
    \A p \in Procs : pc[p] \in Asking =>
        /\ upstream[req[p].url] \in seen[p]
        /\ \A o \in orphanGit : o.url = req[p].url => o.told \in seen[p] \cup {NoCommit}

\* A clone whose origin is not configured yet, which a fetch leaves as it is,
\* has no tag.
InitNoTag == \A u \in Urls : bare[u].st = "init" => bare[u].tag = NoCommit

TagRequest(p) == req[p].ref = "tag" /\ ~req[p].offline

\* Between the fetch and rev-parse the clone's tag is one seen by this resolve.
TagSeen ==
    \A p \in Procs : pc[p] = "parse" /\ TagRequest(p) =>
        bare[req[p].url].tag \in seen[p] \cup {NoCommit}

FreshInv == SeenNow /\ InitNoTag /\ TagSeen

\* Every step keeps what a resolve has seen in step with upstream.
LEMMA StepSeenNow == LockInv /\ SeenNow /\ [Next]_vars => SeenNow'
  <1> SUFFICES ASSUME LockInv, SeenNow, [Next]_vars PROVE SeenNow'
    OBVIOUS
  <1> USE RequestTypes DEF LockInv, TypeOK, SeenNow, Asking, Resting, Cloning, Untar, Filling,
          Labels, lockVars, procVars, resultVars, orphanVars, Goto
  <1>1. ASSUME NEW p \in Procs, Start(p) PROVE SeenNow'
    BY <1>1, RequestAssumption DEF Start, ToldIn
  <1>2. ASSUME NEW p \in Procs, LockBare(p) \/ LockSrc(p) PROVE SeenNow'
    BY <1>2 DEF LockBare, LockSrc
  <1>3. ASSUME NEW p \in Procs, Probe(p) \/ CloneStep(p) \/ CloneFail(p) PROVE SeenNow'
    BY <1>3 DEF Probe, CloneStep, CloneFail, KeepGoing, Throw
  <1>4. ASSUME NEW p \in Procs, Fetch(p) \/ Parse(p) PROVE SeenNow'
    BY <1>4 DEF Fetch, Parse, KeepGoing, Throw
  <1>5. ASSUME NEW p \in Procs, Prepare(p) \/ Archive(p) \/ Extract(p) PROVE SeenNow'
    BY <1>5 DEF Prepare, Archive, Extract, KeepGoing, Throw
  <1>6. ASSUME NEW p \in Procs, Unstage(p) \/ Mark(p) \/ Hash(p) PROVE SeenNow'
    BY <1>6 DEF Unstage, Mark, Hash, Throw
  <1>7. ASSUME NEW p \in Procs, Crash(p) PROVE SeenNow'
    <2>1. ASSUME NEW q \in Procs, pc'[q] \in Asking
          PROVE  q # p /\ pc[q] \in Asking /\ req'[q] = req[q] /\ upstream' = upstream
      BY <1>7, <2>1 DEF Crash
    <2>2. CASE seen' = [seen EXCEPT ![p] = {}] /\ orphanGit' = orphanGit
      BY <2>1, <2>2
    <2>3. ASSUME NEW g, orphanGit' = orphanGit \cup {g},
                 seen' = [Tell(g.url, g.told) EXCEPT ![p] = {}]
          PROVE  SeenNow'
      BY <2>1, <2>3 DEF Tell
    <2>. QED
      BY <1>7, <2>2, <2>3 DEF Crash
  <1>8. ASSUME NEW o \in orphanGit, OrphanGitAsks(o) PROVE SeenNow'
    <2>1. orphanGit' = (orphanGit \ {o}) \cup {[o EXCEPT !.told = upstream[o.url]]}
          /\ seen' = Tell(o.url, upstream[o.url]) /\ UNCHANGED <<upstream, req, pc>>
      BY <1>8 DEF OrphanGitAsks
    <2>2. o \in Orphan
      OBVIOUS
    <2>3. [o EXCEPT !.told = upstream[o.url]].url = o.url
          /\ [o EXCEPT !.told = upstream[o.url]].told = upstream[o.url]
      BY <2>2 DEF Orphan
    <2>. QED
      BY <2>1, <2>3 DEF Tell
  <1>9. ASSUME NEW o \in orphanGit, OrphanGitEnds(o) PROVE SeenNow'
    BY <1>9 DEF OrphanGitEnds
  <1>10. ASSUME NEW c \in Commits, OrphanTarStep(c) PROVE SeenNow'
    BY <1>10 DEF OrphanTarStep
  <1>11. ASSUME NEW u \in Urls, NEW c \in Commits, Push(u, c) PROVE SeenNow'
    <2>1. UNCHANGED <<pc, req, orphanGit>> /\ seen' = Tell(u, c) /\ c # NoCommit
          /\ upstream' = [upstream EXCEPT ![u] = c]
      BY <1>11, NoCommitAssumption DEF Push
    <2>2. ASSUME NEW q \in Procs, pc[q] \in Asking
          PROVE  seen[q] \subseteq seen'[q] /\ (req[q].url = u => c \in seen'[q])
      BY <2>1, <2>2 DEF Tell
    <2>3. \A q \in Procs : pc[q] \in Asking => req[q].url \in Urls
      BY RequestTypes
    <2>. QED
      BY <2>1, <2>2, <2>3
  <1>12. CASE UNCHANGED vars
    BY <1>12 DEF vars, treeVars
  <1>. QED
    BY <1>1, <1>2, <1>3, <1>4, <1>5, <1>6, <1>7, <1>8, <1>9, <1>10, <1>11, <1>12
    DEF Next, Step

\* Every step leaves a clone without an origin without a tag.
LEMMA StepInitNoTag == LockInv /\ InitNoTag /\ [Next]_vars => InitNoTag'
  <1> SUFFICES ASSUME LockInv, InitNoTag, [Next]_vars PROVE InitNoTag'
    OBVIOUS
  <1> USE RequestTypes DEF LockInv, TypeOK, InitNoTag, Cloning, BareRepo, Repo, Empty,
          NoBare, Cloned
  <1>1. ASSUME NEW p \in Procs, Probe(p) PROVE InitNoTag'
    BY <1>1 DEF Probe
  <1>2. ASSUME NEW p \in Procs, CloneStep(p) \/ CloneFail(p) PROVE InitNoTag'
    <2>1. PICK b \in {Empty("init"), Empty("origin"), Cloned(upstream[req[p].url]), NoBare} :
            bare' = [bare EXCEPT ![req[p].url] = b]
      BY <1>2, Zenon DEF CloneStep, CloneFail
    <2>2. b.st = "init" => b.tag = NoCommit
      BY <2>1
    <2>. QED
      BY <2>1, <2>2
  <1>3. ASSUME NEW p \in Procs, Fetch(p) PROVE InitNoTag'
    <2>. DEFINE u == req[p].url
                b == Fetched(u, upstream[u])
    <2>1. u \in Urls /\ bare[u] \in BareRepo
      BY <1>3, RequestTypes DEF Fetch
    <2>2. b.st = "init" => b.tag = NoCommit
      BY <2>1 DEF Fetched
    <2>3. bare' = [bare EXCEPT ![u] = b] \/ bare' = bare
      BY <1>3 DEF Fetch
    <2>. HIDE DEF u, b
    <2>. QED
      BY <2>1, <2>2, <2>3
  <1>4. ASSUME NEW p \in Procs,
                 \/ Start(p) \/ LockBare(p) \/ LockSrc(p) \/ Parse(p) \/ Prepare(p)
                 \/ Archive(p) \/ Extract(p) \/ Unstage(p) \/ Mark(p) \/ Hash(p) \/ Crash(p)
        PROVE  InitNoTag'
    BY <1>4 DEF Start, LockBare, LockSrc, Parse, Prepare, Archive, Extract, Unstage,
                Mark, Hash, Crash
  <1>5. ASSUME NEW o \in orphanGit, OrphanGitAsks(o) \/ OrphanGitEnds(o) PROVE InitNoTag'
    <2>. DEFINE u == o.url
    <2>1. u \in Urls /\ bare[u] \in BareRepo
      BY DEF Orphan
    <2>2. PICK b \in {bare[u], NoBare, Cloned(o.told), Fetched(u, o.told)} :
            bare' = [bare EXCEPT ![u] = b]
      BY <1>5, <2>1 DEF OrphanGitAsks, OrphanGitEnds
    <2>3. b.st = "init" => b.tag = NoCommit
      BY <2>1, <2>2 DEF Fetched
    <2>. HIDE DEF u
    <2>. QED
      BY <2>1, <2>2, <2>3
  <1>6. ASSUME NEW c \in Commits, OrphanTarStep(c) PROVE InitNoTag'
    BY <1>6 DEF OrphanTarStep
  <1>7. ASSUME NEW u \in Urls, NEW c \in Commits, Push(u, c) PROVE InitNoTag'
    BY <1>7 DEF Push
  <1>8. CASE UNCHANGED vars
    BY <1>8 DEF vars, treeVars, lockVars, procVars, resultVars, orphanVars
  <1>. QED
    BY <1>1, <1>2, <1>3, <1>4, <1>5, <1>6, <1>7, <1>8 DEF Next, Step

\* Two processes past lockBare never resolve the same URL.
LEMMA UrlExclusive ==
  ASSUME LockInv, NEW p \in Procs, NEW q \in Procs, p # q, HoldsBare(p), HoldsBare(q)
  PROVE  req[p].url # req[q].url
  <1>1. req[p].url \in Urls
    BY RequestTypes DEF HoldsBare, Resting
  <1>. QED
    BY <1>1 DEF LockInv, Ownership, OnUrl

\* Every step keeps the tag a resolve is about to read one it has seen: the
\* clone and the fetch copy what upstream names at that moment, and nobody
\* else changes the clone, save a child left behind, which does the same.
LEMMA StepTagSeen == LockInv /\ FreshInv /\ [Next]_vars => TagSeen'
  <1> SUFFICES ASSUME LockInv, FreshInv, [Next]_vars PROVE TagSeen'
    OBVIOUS
  <1> USE RequestTypes DEF LockInv, TypeOK, FreshInv, InitNoTag, TagSeen, TagRequest, Resting, Cloning, Untar, Filling, Labels, BareRepo, Repo,
          lockVars, procVars, resultVars, Goto
  <1>1. ASSUME NEW p \in Procs, Start(p) \/ LockBare(p) \/ LockSrc(p) PROVE TagSeen'
    BY <1>1 DEF Start, LockBare, LockSrc
  <1>2. ASSUME NEW p \in Procs, Probe(p) PROVE TagSeen'
    <2>. SUFFICES ASSUME NEW q \in Procs, pc'[q] = "parse", TagRequest(q)'
                  PROVE  bare'[req'[q].url].tag \in seen'[q] \cup {NoCommit}
      BY DEF TagSeen
    <2>1. HoldsBare(p) /\ p \in DOMAIN pc /\ p \in DOMAIN req
      BY <1>2 DEF Probe, HoldsBare
    <2>2. q # p
      BY <1>2, <2>1 DEF Probe, KeepGoing, Throw
    <2>3. /\ pc[q] = "parse" /\ TagRequest(q) /\ HoldsBare(q)
          /\ req'[q] = req[q] /\ seen'[q] = seen[q]
      BY <1>2, <2>2 DEF Probe, KeepGoing, Throw, HoldsBare
    <2>4. req[q].url # req[p].url
      BY <2>1, <2>2, <2>3, UrlExclusive
    <2>5. bare'[req[q].url] = bare[req[q].url]
      BY <1>2, <2>3, <2>4 DEF Probe
    <2>. QED
      BY <2>3, <2>5
  <1>3. ASSUME NEW p \in Procs, CloneStep(p) PROVE TagSeen'
    <2>. SUFFICES ASSUME NEW q \in Procs, pc'[q] = "parse", TagRequest(q)'
                  PROVE  bare'[req'[q].url].tag \in seen'[q] \cup {NoCommit}
      BY DEF TagSeen
    <2>1. HoldsBare(p) /\ UNCHANGED <<req, seen>> /\ p \in DOMAIN pc
      BY <1>3 DEF CloneStep, HoldsBare
    <2>2. CASE q = p
      <3>1. pc[p] = "clone2" /\ bare' = [bare EXCEPT ![req[p].url] = Cloned(upstream[req[p].url])]
        BY <1>3, <2>1, <2>2 DEF CloneStep
      <3>2. upstream[req[p].url] \in seen[p]
        BY <3>1 DEF SeenNow, Asking
      <3>. QED
        BY <2>1, <2>2, <3>1, <3>2 DEF Cloned
    <2>3. CASE q # p
      <3>1. pc[q] = "parse" /\ TagRequest(q) /\ HoldsBare(q)
        BY <1>3, <2>1, <2>3 DEF CloneStep, HoldsBare
      <3>2. req[q].url # req[p].url
        BY <2>1, <2>3, <3>1, UrlExclusive
      <3>3. bare'[req[q].url] = bare[req[q].url]
        BY <1>3, <3>1, <3>2 DEF CloneStep
      <3>. QED
        BY <2>1, <3>1, <3>3
    <2>. QED
      BY <2>2, <2>3
  <1>4. ASSUME NEW p \in Procs, CloneFail(p) PROVE TagSeen'
    <2>. SUFFICES ASSUME NEW q \in Procs, pc'[q] = "parse", TagRequest(q)'
                  PROVE  bare'[req'[q].url].tag \in seen'[q] \cup {NoCommit}
      BY DEF TagSeen
    <2>1. q # p /\ HoldsBare(p)
      BY <1>4 DEF CloneFail, Throw, HoldsBare
    <2>2. pc[q] = "parse" /\ TagRequest(q) /\ HoldsBare(q)
          /\ req'[q] = req[q] /\ seen'[q] = seen[q]
      BY <1>4, <2>1 DEF CloneFail, Throw, HoldsBare
    <2>3. bare'[req[q].url] = bare[req[q].url]
      BY <1>4, <2>1, <2>2, UrlExclusive DEF CloneFail
    <2>. QED
      BY <2>2, <2>3
  <1>5. ASSUME NEW p \in Procs, Fetch(p) PROVE TagSeen'
    <2>1. upstream[req[p].url] \in seen[p]
      BY <1>5 DEF Fetch, SeenNow, Asking
    <2>. QED
      BY <1>5, <2>1, UrlExclusive DEF Fetch, Fetched, KeepGoing, Throw, HoldsBare
  <1>6. ASSUME NEW p \in Procs,
                 \/ Parse(p) \/ Prepare(p) \/ Archive(p) \/ Extract(p)
        PROVE  TagSeen'
    BY <1>6 DEF Parse, Prepare, Archive, Extract, KeepGoing, Throw
  <1>7. ASSUME NEW p \in Procs, Unstage(p) \/ Mark(p) \/ Hash(p) PROVE TagSeen'
    BY <1>7 DEF Unstage, Mark, Hash, Throw
  <1>8. ASSUME NEW p \in Procs, Crash(p) PROVE TagSeen'
    <2>1. ASSUME NEW q \in Procs, pc'[q] = "parse"
          PROVE  q # p /\ pc[q] = "parse" /\ req'[q] = req[q] /\ bare' = bare
      BY <1>8, <2>1 DEF Crash
    <2>2. ASSUME NEW q \in Procs, q # p PROVE seen[q] \subseteq seen'[q]
      <3>1. CASE seen' = [seen EXCEPT ![p] = {}]
        BY <2>2, <3>1
      <3>2. ASSUME NEW g, seen' = [Tell(g.url, g.told) EXCEPT ![p] = {}]
            PROVE  seen[q] \subseteq seen'[q]
        BY <2>2, <3>2 DEF Tell
      <3>. QED
        BY <1>8, <3>1, <3>2 DEF Crash
    <2>. QED
      BY <2>1, <2>2
  <1>9. ASSUME NEW o \in orphanGit, OrphanGitAsks(o) PROVE TagSeen'
    BY <1>9 DEF OrphanGitAsks, Tell
  <1>10. ASSUME NEW o \in orphanGit, OrphanGitEnds(o) PROVE TagSeen'
    <2>. DEFINE u == o.url
    <2>1. u \in Urls /\ bare[u] \in BareRepo
      BY DEF Orphan
    <2>2. PICK b \in {bare[u], NoBare, Cloned(o.told), Fetched(u, o.told)} :
            bare' = [bare EXCEPT ![u] = b] /\ UNCHANGED <<pc, req, seen>>
      BY <1>10, <2>1 DEF OrphanGitEnds
    <2>3. b.tag \in {bare[u].tag, NoCommit, o.told}
      BY <2>1, <2>2 DEF Fetched, Cloned, NoBare, Empty
    <2>. HIDE DEF u
    <2>4. ASSUME NEW q \in Procs, pc[q] = "parse", TagRequest(q), req[q].url = u
          PROVE  b.tag \in seen[q] \cup {NoCommit}
      BY <2>3, <2>4 DEF u, SeenNow, Asking
    <2>. QED
      BY <2>1, <2>2, <2>4
  <1>11. ASSUME NEW c \in Commits, OrphanTarStep(c) PROVE TagSeen'
    BY <1>11 DEF OrphanTarStep
  <1>12. ASSUME NEW u \in Urls, NEW c \in Commits, Push(u, c) PROVE TagSeen'
    BY <1>12 DEF Push, Tell
  <1>13. CASE UNCHANGED vars
    BY <1>13 DEF vars, treeVars, lockVars, procVars, resultVars, orphanVars
  <1>. QED
    BY <1>1, <1>2, <1>3, <1>4, <1>5, <1>6, <1>7, <1>8, <1>9, <1>10, <1>11, <1>12, <1>13
    DEF Next, Step

\* rev-parse is the only way past the request for the tree's lock, and takes the
\* clone's tag.
LEMMA StepFresh ==
  ASSUME LockInv, FreshInv, [Next]_vars, NEW p \in Procs,
         pc[p] = "parse", pc'[p] = "lockSrc", TagRequest(p)
  PROVE  commit'[p] \in seen[p]
  <1> USE DEF LockInv, TypeOK, Goto
  <1>1. ASSUME NEW q \in Procs, Start(q) \/ LockBare(q) \/ LockSrc(q) \/ Step(q) \/ Crash(q)
        PROVE  q = p /\ Parse(p)
    <2>1. q = p
      BY <1>1 DEF Start, LockBare, LockSrc, Step, Crash, Probe, CloneStep, CloneFail, Fetch,
                  Parse, Prepare, Archive, Extract, Unstage, Mark, Hash, Throw
    <2>. QED
      BY <1>1, <2>1 DEF Start, LockBare, LockSrc, Step, Crash, Probe, CloneStep, CloneFail,
           Fetch, Prepare, Archive, Extract, Unstage, Mark, Hash, Resting, Cloning, Untar
  <1>2. ASSUME NEW o \in orphanGit, OrphanGitAsks(o) \/ OrphanGitEnds(o) PROVE FALSE
    BY <1>2 DEF OrphanGitAsks, OrphanGitEnds, procVars
  <1>3. ASSUME NEW c \in Commits, OrphanTarStep(c) \/ \E u \in Urls : Push(u, c) PROVE FALSE
    BY <1>3 DEF OrphanTarStep, Push, procVars
  <1>4. Parse(p)
    BY <1>1, <1>2, <1>3 DEF Next, vars, procVars
  <1>. QED
    BY <1>4 DEF Parse, RevParse, FreshInv, TagSeen, TagRequest, Throw

\* A tag resolved online is a commit that upstream named during the resolve, or
\* one that a git left over in the clone was told, however late it installs it.
THEOREM TagIsFresh == Spec => FreshTag
  <1>1. Init => FreshInv
    BY DEF Init, FreshInv, SeenNow, InitNoTag, TagSeen, Asking, Resting, Cloning, NoBare, Empty, Repo
  <1>2. LockInv /\ FreshInv /\ [Next]_vars => FreshInv'
    BY StepSeenNow, StepInitNoTag, StepTagSeen DEF FreshInv
  <1>3. LockInv /\ FreshInv /\ [Next]_vars =>
          [\A p \in Procs :
              pc[p] = "parse" /\ pc'[p] = "lockSrc" /\ req[p].ref = "tag" /\ ~req[p].offline
                => commit'[p] \in seen[p]]_vars
    BY StepFresh DEF TagRequest
  <1>. QED
    BY <1>1, <1>2, <1>3, LockInvariant, PTL DEF Spec, FreshTag

-----------------------------------------------------------------------------
\* No worktree is marked at first.
LEMMA InitTreeInv == Init => TreeInv
  BY InitLockInv DEF Init, TreeInv, Progress, MarkedAlone, MarkedTreeComplete,
     HandedTreeStays, Filling, Untar

\* Every step keeps what the owner of a worktree knows of it: another process
\* cannot write the worktree, since it would own the same lock.
LEMMA StepProgress == TreeInv /\ [Next]_vars => Progress'
  <1> SUFFICES ASSUME TreeInv, [Next]_vars PROVE Progress'
    OBVIOUS
  <1> USE DEF TreeInv, LockInv, TypeOK, Bound, Ownership, OnTree, HoldsSrc, Progress,
          Resting, Cloning, Untar, Filling, lockVars, procVars, resultVars, orphanVars, treeVars, Goto
  <1>1. ASSUME NEW p \in Procs, Start(p) PROVE Progress'
    BY <1>1 DEF Start
  <1>2. ASSUME NEW p \in Procs, LockBare(p) PROVE Progress'
    BY <1>2 DEF LockBare
  <1>3. ASSUME NEW p \in Procs, LockSrc(p) PROVE Progress'
    BY <1>3 DEF LockSrc
  <1>4. ASSUME NEW p \in Procs, Probe(p) PROVE Progress'
    BY <1>4 DEF Probe, KeepGoing, Throw, ReleaseLocks
  <1>5. ASSUME NEW p \in Procs, CloneStep(p) PROVE Progress'
    BY <1>5 DEF CloneStep
  <1>6. ASSUME NEW p \in Procs, CloneFail(p) PROVE Progress'
    BY <1>6 DEF CloneFail, Throw, ReleaseLocks
  <1>7. ASSUME NEW p \in Procs, Fetch(p) PROVE Progress'
    BY <1>7 DEF Fetch, KeepGoing, Throw, ReleaseLocks
  <1>8. ASSUME NEW p \in Procs, Parse(p) PROVE Progress'
    BY <1>8 DEF Parse, KeepGoing, Throw, ReleaseLocks
  <1>9. ASSUME NEW p \in Procs, Prepare(p) PROVE Progress'
    BY <1>9 DEF Prepare, MarkedAlone, MarkedTreeComplete, Digest
  <1>10. ASSUME NEW p \in Procs, Archive(p) PROVE Progress'
    BY <1>10 DEF Archive, KeepGoing, Throw, ReleaseLocks
  <1>11. ASSUME NEW p \in Procs, Extract(p) PROVE Progress'
    BY <1>11 DEF Extract, KeepGoing, Throw, ReleaseLocks
  <1>12. ASSUME NEW p \in Procs, Unstage(p) PROVE Progress'
    BY <1>12 DEF Unstage
  <1>13. ASSUME NEW p \in Procs, Mark(p) PROVE Progress'
    BY <1>13 DEF Mark
  <1>14. ASSUME NEW p \in Procs, Hash(p) PROVE Progress'
    BY <1>14 DEF Hash, Digest, Throw, ReleaseLocks
  <1>15. ASSUME NEW p \in Procs, Crash(p) PROVE Progress'
    BY <1>15 DEF Crash, ReleaseLocks
  <1>16. ASSUME NEW o \in orphanGit, OrphanGitAsks(o) \/ OrphanGitEnds(o) PROVE Progress'
    BY <1>16 DEF OrphanGitAsks, OrphanGitEnds
  <1>17. ASSUME NEW c \in Commits, OrphanTarStep(c) PROVE Progress'
    BY <1>17 DEF OrphanTarStep
  <1>18. ASSUME NEW u \in Urls, NEW c \in Commits, Push(u, c) PROVE Progress'
    BY <1>18 DEF Push
  <1>19. CASE UNCHANGED vars
    BY <1>19 DEF vars, treeVars, lockVars, procVars, resultVars, orphanVars
  <1>. QED
    BY <1>1, <1>2, <1>3, <1>4, <1>5, <1>6, <1>7, <1>8, <1>9, <1>10, <1>11, <1>12,
       <1>13, <1>14, <1>15, <1>16, <1>17, <1>18, <1>19 DEF Next, Step

\* Every step keeps marked worktrees complete: the marker comes last.
LEMMA StepMarked == TreeInv /\ [Next]_vars => MarkedTreeComplete'
  <1> SUFFICES ASSUME TreeInv, [Next]_vars PROVE MarkedTreeComplete'
    OBVIOUS
  <1> USE DEF TreeInv, LockInv, TypeOK, Bound, Progress, MarkedAlone, MarkedTreeComplete, Digest,
          HoldsSrc, Cloning, Untar, Filling, lockVars, procVars, resultVars, orphanVars, treeVars
  <1>1. ASSUME NEW p \in Procs, Prepare(p) PROVE MarkedTreeComplete'
    BY <1>1 DEF Prepare
  <1>2. ASSUME NEW p \in Procs, Archive(p) PROVE MarkedTreeComplete'
    BY <1>2 DEF Archive, KeepGoing
  <1>3. ASSUME NEW p \in Procs, Extract(p) PROVE MarkedTreeComplete'
    BY <1>3 DEF Extract, KeepGoing
  <1>4. ASSUME NEW p \in Procs, Unstage(p) PROVE MarkedTreeComplete'
    BY <1>4 DEF Unstage
  <1>5. ASSUME NEW p \in Procs, Mark(p) PROVE MarkedTreeComplete'
    BY <1>5 DEF Mark
  <1>6. ASSUME NEW p \in Procs,
                 \/ Start(p) \/ LockBare(p) \/ LockSrc(p) \/ Probe(p) \/ CloneStep(p)
                 \/ CloneFail(p) \/ Fetch(p) \/ Parse(p) \/ Hash(p) \/ Crash(p)
         PROVE  MarkedTreeComplete'
    BY <1>6 DEF Start, LockBare, LockSrc, Probe, CloneStep, CloneFail, Fetch, Parse,
                Hash, Crash
  <1>7. ASSUME NEW o \in orphanGit, OrphanGitAsks(o) \/ OrphanGitEnds(o) PROVE MarkedTreeComplete'
    BY <1>7 DEF OrphanGitAsks, OrphanGitEnds
  <1>8. ASSUME NEW c \in Commits, OrphanTarStep(c) PROVE MarkedTreeComplete'
    BY <1>8 DEF OrphanTarStep
  <1>9. ASSUME NEW u \in Urls, NEW c \in Commits, Push(u, c) PROVE MarkedTreeComplete'
    BY <1>9 DEF Push
  <1>10. CASE UNCHANGED vars
    BY <1>10 DEF vars, treeVars, lockVars, procVars, resultVars, orphanVars
  <1>. QED
    BY <1>1, <1>2, <1>3, <1>4, <1>5, <1>6, <1>7, <1>8, <1>9, <1>10 DEF Next, Step

\* Every step keeps the worktrees that were handed out.
LEMMA StepHanded == TreeInv /\ [Next]_vars => HandedTreeStays'
  <1> SUFFICES ASSUME TreeInv, [Next]_vars PROVE HandedTreeStays'
    OBVIOUS
  <1> USE DEF TreeInv, LockInv, TypeOK, Bound, Progress, MarkedAlone, MarkedTreeComplete,
          HandedTreeStays, Digest, HoldsSrc, Resting, Cloning, Untar, Filling,
          lockVars, procVars, resultVars, orphanVars, treeVars, Goto
  <1>1. ASSUME NEW p \in Procs, Start(p) PROVE HandedTreeStays'
    BY <1>1 DEF Start
  <1>2. ASSUME NEW p \in Procs, LockBare(p) PROVE HandedTreeStays'
    BY <1>2 DEF LockBare
  <1>3. ASSUME NEW p \in Procs, LockSrc(p) PROVE HandedTreeStays'
    BY <1>3 DEF LockSrc
  <1>4. ASSUME NEW p \in Procs, Probe(p) PROVE HandedTreeStays'
    BY <1>4 DEF Probe, KeepGoing, Throw, ReleaseLocks
  <1>5. ASSUME NEW p \in Procs, CloneStep(p) PROVE HandedTreeStays'
    BY <1>5 DEF CloneStep
  <1>6. ASSUME NEW p \in Procs, CloneFail(p) PROVE HandedTreeStays'
    BY <1>6 DEF CloneFail, Throw, ReleaseLocks
  <1>7. ASSUME NEW p \in Procs, Fetch(p) PROVE HandedTreeStays'
    BY <1>7 DEF Fetch, KeepGoing, Throw, ReleaseLocks
  <1>8. ASSUME NEW p \in Procs, Parse(p) PROVE HandedTreeStays'
    BY <1>8 DEF Parse, KeepGoing, Throw, ReleaseLocks
  <1>9. ASSUME NEW p \in Procs, Prepare(p) PROVE HandedTreeStays'
    BY <1>9 DEF Prepare
  <1>10. ASSUME NEW p \in Procs, Archive(p) PROVE HandedTreeStays'
    BY <1>10 DEF Archive, KeepGoing, Throw, ReleaseLocks
  <1>11. ASSUME NEW p \in Procs, Extract(p) PROVE HandedTreeStays'
    BY <1>11 DEF Extract, KeepGoing, Throw, ReleaseLocks
  <1>12. ASSUME NEW p \in Procs, Unstage(p) PROVE HandedTreeStays'
    BY <1>12 DEF Unstage
  <1>13. ASSUME NEW p \in Procs, Mark(p) PROVE HandedTreeStays'
    BY <1>13 DEF Mark
  <1>14. ASSUME NEW p \in Procs, Hash(p) PROVE HandedTreeStays'
    BY <1>14 DEF Hash, Digest, Throw, ReleaseLocks
  <1>15. ASSUME NEW p \in Procs, Crash(p) PROVE HandedTreeStays'
    BY <1>15 DEF Crash, ReleaseLocks
  <1>16. ASSUME NEW o \in orphanGit, OrphanGitAsks(o) \/ OrphanGitEnds(o) PROVE HandedTreeStays'
    BY <1>16 DEF OrphanGitAsks, OrphanGitEnds
  <1>17. ASSUME NEW c \in Commits, OrphanTarStep(c) PROVE HandedTreeStays'
    BY <1>17 DEF OrphanTarStep
  <1>18. ASSUME NEW u \in Urls, NEW c \in Commits, Push(u, c) PROVE HandedTreeStays'
    BY <1>18 DEF Push
  <1>19. CASE UNCHANGED vars
    BY <1>19 DEF vars, treeVars, lockVars, procVars, resultVars, orphanVars
  <1>. QED
    BY <1>1, <1>2, <1>3, <1>4, <1>5, <1>6, <1>7, <1>8, <1>9, <1>10, <1>11, <1>12,
       <1>13, <1>14, <1>15, <1>16, <1>17, <1>18, <1>19 DEF Next, Step

\* No step starts a tar in a marked worktree, or marks one where a tar is left.
LEMMA StepMarkedAlone == TreeInv /\ [Next]_vars => MarkedAlone'
  <1> SUFFICES ASSUME TreeInv, [Next]_vars PROVE MarkedAlone'
    OBVIOUS
  <1> USE DEF TreeInv, LockInv, TypeOK, Bound, Progress, MarkedAlone, HoldsSrc, Untar, Filling,
          lockVars, procVars, resultVars, orphanVars, treeVars
  <1>1. ASSUME NEW p \in Procs, Prepare(p) PROVE MarkedAlone'
    BY <1>1 DEF Prepare
  <1>2. ASSUME NEW p \in Procs, Archive(p) \/ Extract(p) PROVE MarkedAlone'
    BY <1>2 DEF Archive, Extract, KeepGoing
  <1>3. ASSUME NEW p \in Procs, Unstage(p) PROVE MarkedAlone'
    BY <1>3 DEF Unstage
  <1>4. ASSUME NEW p \in Procs, Mark(p) PROVE MarkedAlone'
    BY <1>4 DEF Mark
  <1>5. ASSUME NEW p \in Procs, Crash(p) PROVE MarkedAlone'
    BY <1>5 DEF Crash
  <1>6. ASSUME NEW p \in Procs,
                 \/ Start(p) \/ LockBare(p) \/ LockSrc(p) \/ Probe(p) \/ CloneStep(p)
                 \/ CloneFail(p) \/ Fetch(p) \/ Parse(p) \/ Hash(p)
         PROVE  MarkedAlone'
    BY <1>6 DEF Start, LockBare, LockSrc, Probe, CloneStep, CloneFail, Fetch, Parse, Hash
  <1>7. ASSUME NEW o \in orphanGit, OrphanGitAsks(o) \/ OrphanGitEnds(o) PROVE MarkedAlone'
    BY <1>7 DEF OrphanGitAsks, OrphanGitEnds
  <1>8. ASSUME NEW c \in Commits, OrphanTarStep(c) PROVE MarkedAlone'
    BY <1>8 DEF OrphanTarStep
  <1>9. ASSUME NEW u \in Urls, NEW c \in Commits, Push(u, c) PROVE MarkedAlone'
    BY <1>9 DEF Push
  <1>10. CASE UNCHANGED vars
    BY <1>10 DEF vars
  <1>. QED
    BY <1>1, <1>2, <1>3, <1>4, <1>5, <1>6, <1>7, <1>8, <1>9, <1>10 DEF Next, Step

\* The worktree invariant is inductive, whatever is left running.
LEMMA TreeInvariant == Spec => []TreeInv
  <1>1. TreeInv /\ [Next]_vars => TreeInv'
    <2>1. LockInv /\ [Next]_vars => LockInv'
      BY StepBareType, StepOtherTypes, StepBound, StepOwnership
      DEF LockInv, TypeOK, BareType, OtherTypes
    <2>. QED
      BY <2>1, StepMarkedAlone, StepProgress, StepMarked, StepHanded DEF TreeInv
  <1>. QED
    BY <1>1, InitTreeInv, PTL DEF Spec

\* The fast path's trust in .rxy_extracted is justified in every reachable
\* state: a marked worktree holds the whole commit and no staged tarball, unless
\* it was filled beside a left-over tar or kept its tarball.
THEOREM MarkerIsTrustworthy == Spec => []MarkedTreeComplete
  BY TreeInvariant, PTL DEF TreeInv

\* What a finished resolve handed out has the commit's checksum, and stays if its
\* marker was written, through every later resolve, crash and restart of any
\* other process and whatever their children do, unless it is spoilt.
THEOREM HandedTreeIsSafe == Spec => []HandedTreeStays
  BY TreeInvariant, PTL DEF TreeInv

\* Whoever fills a worktree that is to be trusted is alone in it: the lock keeps
\* the processes out, and remove_all the tars of those that were killed.
THEOREM ExtractionIsAlone == Spec => []ExtractsAlone
  <1>1. TreeInv => ExtractsAlone
    BY DEF TreeInv, LockInv, Ownership, Progress, OnTree, ExtractsAlone
  <1>. QED
    BY <1>1, TreeInvariant, PTL

\* No step changes what a marked worktree holds, or takes the marker away.
LEMMA StepImmutable == TreeInv /\ [Next]_vars => [KeepMarkedTrees]_vars
  <1> SUFFICES ASSUME TreeInv, [Next]_vars, ~UNCHANGED vars
               PROVE  KeepMarkedTrees
    OBVIOUS
  <1> USE DEF TreeInv, LockInv, TypeOK, Bound, Progress, MarkedAlone, HoldsSrc, Untar,
          Filling, lockVars, procVars, resultVars, orphanVars, treeVars, KeepMarkedTrees
  <1>1. ASSUME NEW p \in Procs, Prepare(p) PROVE KeepMarkedTrees
    BY <1>1 DEF Prepare
  <1>2. ASSUME NEW p \in Procs, Archive(p) PROVE KeepMarkedTrees
    BY <1>2 DEF Archive
  <1>3. ASSUME NEW p \in Procs, Extract(p) PROVE KeepMarkedTrees
    BY <1>3 DEF Extract
  <1>4. ASSUME NEW p \in Procs, Unstage(p) PROVE KeepMarkedTrees
    BY <1>4 DEF Unstage
  <1>5. ASSUME NEW p \in Procs, Mark(p) PROVE KeepMarkedTrees
    BY <1>5 DEF Mark
  <1>6. ASSUME NEW p \in Procs,
                 \/ Start(p) \/ LockBare(p) \/ LockSrc(p) \/ Probe(p) \/ CloneStep(p)
                 \/ CloneFail(p) \/ Fetch(p) \/ Parse(p) \/ Hash(p) \/ Crash(p)
         PROVE  KeepMarkedTrees
    BY <1>6 DEF Start, LockBare, LockSrc, Probe, CloneStep, CloneFail, Fetch, Parse,
                Hash, Crash
  <1>7. ASSUME NEW o \in orphanGit, OrphanGitAsks(o) \/ OrphanGitEnds(o) PROVE KeepMarkedTrees
    BY <1>7 DEF OrphanGitAsks, OrphanGitEnds
  <1>8. ASSUME NEW c \in Commits, OrphanTarStep(c) PROVE KeepMarkedTrees
    BY <1>8 DEF OrphanTarStep
  <1>9. ASSUME NEW u \in Urls, NEW c \in Commits, Push(u, c) PROVE KeepMarkedTrees
    BY <1>9 DEF Push
  <1>. QED
    BY <1>1, <1>2, <1>3, <1>4, <1>5, <1>6, <1>7, <1>8, <1>9 DEF Next, Step

\* FR-020 for every instance: the cache only ever gains immutable content, spoilt
\* worktrees apart.
THEOREM ImmutableContent == Spec => MarkedTreesImmutable
  <1>1. TreeInv /\ [Next]_vars => [KeepMarkedTrees]_vars
    BY StepImmutable
  <1>. QED
    BY <1>1, TreeInvariant, PTL DEF Spec, MarkedTreesImmutable

-----------------------------------------------------------------------------
\* Refinement: the mapping of RxyCache's Store, read off the variables.
Published == {c \in marked \ spoilt : Digest(c) = "good"}
Handed    == [p \in Procs |-> IF pc[p] = "done" /\ p \in sealed /\ commit[p] \notin spoilt
                              THEN commit[p] ELSE NoCommit]

\* In a reachable state the published content is what carries the marker, spoilt
\* worktrees apart.
LEMMA PublishedIsMarked == TreeInv => Published = marked \ spoilt
  BY DEF TreeInv, MarkedTreeComplete, Published

\* Starting a new resolve returns what the last one was handed.
LEMMA StartReturns ==
  ASSUME TreeInv, NEW p \in Procs, Start(p)
  PROVE  UNCHANGED <<marked, spoilt>> /\ Handed' = [Handed EXCEPT ![p] = NoCommit]
  BY DEF Start, Handed, TreeInv, LockInv, TypeOK, Goto, treeVars

\* Finishing a resolve hands out marked content, and publishes nothing.
LEMMA HashHands ==
  ASSUME TreeInv, NEW p \in Procs, Hash(p)
  PROVE  /\ UNCHANGED <<marked, spoilt>>
         /\ \/ Handed' = Handed
            \/ \E c \in marked \ spoilt : Handed' = [Handed EXCEPT ![p] = c]
  <1> USE DEF Handed, TreeInv, LockInv, TypeOK, Progress, Resting, Goto
  <1>1. pc[p] = "hash" /\ UNCHANGED <<marked, spoilt>> /\ p \notin sealed
    BY DEF Hash, treeVars
  <1>2. CASE /\ pc' = [pc EXCEPT ![p] = "done"] /\ commit' = commit
             /\ sealed' = IF commit[p] \in marked THEN sealed \cup {p} ELSE sealed
    <2>1. CASE commit[p] \in marked \ spoilt
      <3>1. Handed' = [Handed EXCEPT ![p] = commit[p]]
        BY <1>1, <1>2, <2>1
      <3>. QED
        BY <1>1, <2>1, <3>1
    <2>2. CASE commit[p] \notin marked \ spoilt
      BY <1>1, <1>2, <2>2
    <2>. QED
      BY <2>1, <2>2
  <1>3. CASE Throw(p) /\ sealed' = sealed
    <2>1. Handed' = Handed
      BY <1>1, <1>3 DEF Throw
    <2>. QED
      BY <1>1, <2>1
  <1>. QED
    BY <1>2, <1>3 DEF Hash, resultVars

\* Writing .rxy_extracted publishes one commit or, when the write fails or the
\* worktree is spoilt, nothing; and it hands out nothing.
LEMMA MarkPublishes ==
  ASSUME TreeInv, NEW p \in Procs, Mark(p)
  PROVE  /\ Handed' = Handed
         /\ \/ marked' \ spoilt' = marked \ spoilt
            \/ \E c \in Commits : marked' \ spoilt' = (marked \ spoilt) \cup {c}
  <1> USE DEF TreeInv, LockInv, TypeOK, Bound, HoldsSrc, Filling, Goto, resultVars
  <1>1. Handed' = Handed
    BY DEF Mark, Handed
  <1>2. commit[p] \in Commits /\ spoilt' = spoilt /\ marked' \in {marked, marked \cup {commit[p]}}
    BY DEF Mark
  <1>3. CASE commit[p] \in spoilt
    BY <1>1, <1>2, <1>3
  <1>4. CASE commit[p] \notin spoilt
    <2>1. \/ marked' \ spoilt' = marked \ spoilt
          \/ marked' \ spoilt' = (marked \ spoilt) \cup {commit[p]}
      BY <1>2, <1>4
    <2>. QED
      BY <1>1, <1>2, <2>1
  <1>. QED
    BY <1>3, <1>4

\* Spoiling a worktree that is not marked is invisible: nobody was handed it.
LEMMA SpoilStutters ==
  ASSUME TreeInv, NEW c \in Commits \ marked, marked' = marked,
         spoilt' = spoilt \/ spoilt' = spoilt \cup {c},
         UNCHANGED <<sealed, commit>>, \A q \in Procs : pc'[q] = "done" <=> pc[q] = "done"
  PROVE  marked' \ spoilt' = marked \ spoilt /\ Handed' = Handed
  BY DEF Handed, TreeInv, HandedTreeStays

\* Every other step of every process is invisible to the store.
LEMMA OthersStutter ==
  ASSUME TreeInv, NEW p \in Procs,
         \/ LockBare(p) \/ LockSrc(p) \/ Probe(p) \/ CloneStep(p) \/ CloneFail(p)
         \/ Fetch(p) \/ Parse(p) \/ Prepare(p) \/ Archive(p) \/ Extract(p)
         \/ Unstage(p) \/ Crash(p)
  PROVE  marked' \ spoilt' = marked \ spoilt /\ Handed' = Handed
  <1> USE DEF TreeInv, LockInv, TypeOK, Resting, Cloning, Untar, Filling, Goto,
              Throw, KeepGoing, treeVars, resultVars
  <1>1. CASE LockBare(p) \/ LockSrc(p) \/ CloneStep(p)
    BY <1>1 DEF Handed, LockBare, LockSrc, CloneStep
  <1>2. CASE Probe(p) \/ CloneFail(p) \/ Fetch(p)
    BY <1>2 DEF Handed, Probe, CloneFail, Fetch
  <1>3. CASE Parse(p)
    BY <1>3 DEF Handed, Parse
  <1>4. CASE Prepare(p) \/ Unstage(p)
    <2>1. UNCHANGED <<sealed, commit, marked>> /\ \A q \in Procs : pc'[q] = "done" <=> pc[q] = "done"
      BY <1>4 DEF Prepare, Unstage
    <2>2. commit[p] \in Commits /\ (spoilt' # spoilt => commit[p] \notin marked)
      BY <1>4 DEF Prepare, Unstage, Bound, HoldsSrc, Progress
    <2>3. spoilt' = spoilt \/ spoilt' = spoilt \cup {commit[p]}
      <3>1. orphanTar \cap {commit[p]} \in {{}, {commit[p]}}
        OBVIOUS
      <3>. QED
        BY <1>4, <3>1 DEF Prepare, Unstage
    <2>4. CASE spoilt' = spoilt
      BY <2>1, <2>4 DEF Handed
    <2>5. CASE spoilt' # spoilt
      BY <2>1, <2>2, <2>3, <2>5, SpoilStutters
    <2>. QED
      BY <2>4, <2>5
  <1>5. CASE Archive(p) \/ Extract(p)
    BY <1>5 DEF Handed, Archive, Extract
  <1>6. CASE Crash(p)
    BY <1>6 DEF Handed, Crash
  <1>. QED
    BY <1>1, <1>2, <1>3, <1>4, <1>5, <1>6

\* So is every step of the world around the processes.
LEMMA WorldStutters ==
  ASSUME TreeInv,
         \/ \E o \in orphanGit : OrphanGitAsks(o) \/ OrphanGitEnds(o)
         \/ \E c \in Commits : OrphanTarStep(c) \/ \E u \in Urls : Push(u, c)
         \/ UNCHANGED vars
  PROVE  marked' \ spoilt' = marked \ spoilt /\ Handed' = Handed
  BY DEF OrphanGitAsks, OrphanGitEnds, Push, OrphanTarStep, vars, Handed, treeVars, procVars,
         resultVars

\* The cache implements the content store, whoever is killed and whatever is left
\* running: every step, crash and retry is a publication, a hand-out of published
\* content, a return, or invisible.  Spoilt worktrees are not in the store, and
\* what was handed out without its marker does not count as handed.
THEOREM ImplementsStore == Spec => StoreSpec
  <1>1. Init => Store!Init
    BY DEF Init, Store!Init
  <1>2. TreeInv /\ TreeInv' /\ [Next]_vars => [Store!Next]_(Store!vars)
    <2> SUFFICES ASSUME TreeInv, TreeInv', [Next]_vars
                 PROVE  \/ Published' = Published /\ Handed' = Handed
                        \/ Handed' = Handed /\
                           \E c \in Commits : Published' = Published \cup {c}
                        \/ Published' = Published /\
                           \E p \in Procs : \/ Handed' = [Handed EXCEPT ![p] = NoCommit]
                                           \/ \E c \in Commits :
                                                /\ c \in Published
                                                /\ Handed' = [Handed EXCEPT ![p] = c]
      BY DEF Store!Next, Store!vars, Store!Publish, Store!Hand, Store!Return,
             Published, Handed
    <2>. DEFINE now == marked \ spoilt
    <2>1. Published = now /\ now \subseteq Commits
      BY PublishedIsMarked DEF TreeInv, LockInv, TypeOK
    <2>2. Published' = now'
      BY DEF TreeInv, MarkedTreeComplete, Published
    <2>3. ASSUME NEW p \in Procs, Start(p) \/ Hash(p)
          PROVE  /\ now' = now
                 /\ \/ Handed' = Handed
                    \/ Handed' = [Handed EXCEPT ![p] = NoCommit]
                    \/ \E c \in now : Handed' = [Handed EXCEPT ![p] = c]
      BY <2>3, StartReturns, HashHands
    <2>4. ASSUME NEW p \in Procs, Mark(p)
          PROVE  Handed' = Handed /\ (now' = now \/ \E c \in Commits : now' = now \cup {c})
      BY <2>4, MarkPublishes
    <2>5. CASE \E p \in Procs : Start(p) \/ Hash(p) \/ Mark(p)
      <3>. HIDE DEF now
      <3>. QED
        BY <2>1, <2>2, <2>3, <2>4, <2>5
    <2>6. CASE ~\E p \in Procs : Start(p) \/ Hash(p) \/ Mark(p)
      <3>1. now' = now /\ Handed' = Handed
        BY <2>6, OthersStutter, WorldStutters DEF Next, Step
      <3>. QED
        BY <2>1, <2>2, <3>1
    <2>. QED
      BY <2>5, <2>6
  <1>. QED
    BY <1>1, <1>2, TreeInvariant, PTL DEF Spec, StoreSpec, Store!Spec

=============================================================================
