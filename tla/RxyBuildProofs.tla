--------------------------- MODULE RxyBuildProofs ---------------------------
(***************************************************************************)
(* Proofs about RxyBuild, for any number of processes, dependencies,        *)
(* commits, versions and targets.  A build that has the package for itself  *)
(* writes what it resolved and compiles that (AloneInv); if builds without  *)
(* --locked take turns, no pin is replaced (WriterInv), nor by a build that *)
(* has the package for itself; and Rexy.lock is whole as long as no two     *)
(* builds write it at once.                                                 *)
(***************************************************************************)
EXTENDS RxyBuild, FiniteSetTheorems, WellFoundedInduction, TLAPS

\* Who may get to atomic_write_text_file, who is in it, and who holds a stream.
UsesLock ==
    \A p \in Procs :
        /\ pc[p] \in {"pins", "resolve", "drift"} /\ ~opt[p].locked => p \in Writers
        /\ pc[p] = "save" => p \in Writers
        /\ at[p] # "out" => pc[p] = "save"
        /\ stream[p] # NoInode => at[p] = "write"

\* Rexy.lock and Rexy.lock.tmp are never the same inode.
Apart == name # NoInode => name # tmp

\* An inode without a name and a reader has no content.
NoStrays == \A i \in Inodes : i \notin Lock!InUse => data[i] = Empty

FileInv == TypeOK /\ UsesLock /\ Apart /\ NoStrays

\* What a writer that nobody disturbs has opened or written.
Writing(p) ==
    /\ at[p] = "write" => stream[p] = tmp /\ tmp # NoInode /\ data[tmp] = Empty
    /\ at[p] = "rename" => tmp # NoInode /\ data[tmp] = fresh[p]

\* From its lockfile on, a build that has the package for itself finds there what
\* it resolved, and leaves targets that were compiled against it.
Recorded(p) ==
    /\ pc[p] \in {"check", "compile"} => Lock!Read = Absent \/ (Readable /\ fresh[p] = Previous)
    /\ pc[p] = "compile" => \A t \in picked[p] \ todo[p] : artifact[t] = fresh[p]
    /\ pc[p] = "done" => Lock!Read = Absent \/ (Readable /\ \A t \in picked[p] : artifact[t] = Previous)

\* Between its detect_drift and its rename no pin moves away from what it compared.
Compared(p) == pc[p] = "save" => Readable /\ ~Drifted(Previous, fresh[p])

AloneInv ==
    \A p \in alone : /\ \A q \in Procs : q # p => Stopped(q)
                     /\ Writing(p) /\ Compared(p) /\ Recorded(p)

\* Only one process builds without --locked.
OneWriter == \A p, q \in Writers : p = q

\* Then nobody disturbs it, and between its detect_drift and its rename the pins of
\* the git dependencies stay as they were compared.
WriterInv ==
    /\ Lock!Read \in Lockfile \cup {Absent}
    /\ \A p \in Procs : /\ Writing(p)
                        /\ pc[p] = "save" => ~Drifted(Previous, fresh[p])
-----------------------------------------------------------------------------
\* The order of the natural numbers has no infinite descent.
LEMMA NatIsWellFounded ==
    \E R : /\ IsWellFoundedOn(R, Nat)
           /\ \A m, n \in Nat : <<m, n>> \in R <=> m < n
  <1>1. \A m, n \in Nat : <<m, n>> \in OpToRel(<, Nat) <=> m < n
    BY DEF OpToRel
  <1>. QED
    BY <1>1, NatLessThanWellFounded, Zenon

\* A set of natural numbers has a least element.
LEMMA LeastExists ==
    ASSUME NEW T \in SUBSET Nat, T # {}
    PROVE  \E n \in T : \A m \in T : n <= m
  <1>1. PICK R : IsWellFoundedOn(R, Nat) /\ \A m, n \in Nat : <<m, n>> \in R <=> m < n
    BY NatIsWellFounded
  <1>2. T \subseteq Nat
    OBVIOUS
  <1>3. \E n \in T : \A m \in T : ~ (<<m, n>> \in R)
    <2>1. IsWellFoundedOn(R, Nat)
      BY <1>1
    <2>2. T # {}
      OBVIOUS
    <2>. QED
      BY <1>2, <2>1, <2>2, WFMin
  <1>4. PICK n \in T : \A m \in T : ~ (<<m, n>> \in R)
    BY <1>3, Zenon
  <1>5. \A m \in T : n <= m
    <2>1. SUFFICES ASSUME NEW m \in T PROVE n <= m
      OBVIOUS
    <2>2. n \in Nat /\ m \in Nat
      BY <1>2
    <2>3. ~ (m < n)
      BY <1>1, <1>4, <2>2, Zenon
    <2>. QED
      BY <2>2, <2>3, SMT
  <1>. QED
    BY <1>5

\* A finite set of versions has a highest one: were there always one above, the
\* sets of those above would shrink for ever.
LEMMA MaxIsElement ==
    ASSUME NEW S \in SUBSET Nat, IsFiniteSet(S), S # {}
    PROVE  Max(S) \in S
  <1> DEFINE Above(x) == {y \in S : y > x}
  <1> DEFINE Sizes == {Cardinality(Above(x)) : x \in S}
  <1>1. \A x \in S : IsFiniteSet(Above(x)) /\ Cardinality(Above(x)) \in Nat
    <2>1. ASSUME NEW x \in S PROVE Above(x) \in SUBSET S
      OBVIOUS
    <2>2. \A x \in S : IsFiniteSet(Above(x))
      BY <2>1, FS_Subset, Zenon
    <2>. QED
      BY <2>2, FS_CardinalityType, Zenon
  <1>2. Sizes \in SUBSET Nat /\ Sizes # {}
    BY <1>1
  <1>3. PICK n \in Sizes : \A m \in Sizes : n <= m
    BY <1>2, LeastExists, Zenon
  <1>4. PICK x \in S : n = Cardinality(Above(x))
    OBVIOUS
  <1>5. ASSUME NEW y \in S, y > x PROVE FALSE
    <2>1. Above(y) \in SUBSET Above(x) /\ y \in Above(x) /\ y \notin Above(y)
      <3>1. S \subseteq Nat
        OBVIOUS
      <3>2. x \in Nat /\ y \in Nat
        BY <1>5, <3>1
      <3>3. \A z \in S : z > y => z > x
        BY <1>5, <3>1, <3>2, SMT
      <3>4. y > x /\ ~ (y > y)
        BY <1>5, <3>2, SMT
      <3>. QED
        BY <1>5, <3>3, <3>4, Zenon
    <2>2. Cardinality(Above(y)) \in Sizes
      OBVIOUS
    <2> HIDE DEF Above, Sizes
    <2>3. /\ Cardinality(Above(y)) <= Cardinality(Above(x))
          /\ Cardinality(Above(y)) # Cardinality(Above(x))
      BY <1>1, <2>1, FS_Subset, Zenon
    <2>. QED
      BY <1>1, <1>3, <1>4, <2>2, <2>3, SMT
  <1>6. \A y \in S : x >= y
    BY <1>5
  <1>. QED
    BY <1>6, Zenon DEF Max
-----------------------------------------------------------------------------
\* What a build finds in Rexy.lock.
LEMMA ReadCases ==
    Lock!TypeOK => /\ Lock!Read \in Lockfile \cup {Absent, Empty, Garbled}
                   /\ Readable => Previous \in Lockfile
  BY DEF Lock!TypeOK, Lock!Text, Lock!Named, Lock!Read, Readable, Previous, Lockfile, NoPackage, Pin

\* A lockfile that was just written is found.
LEMMA ReadWritten ==
    ASSUME NEW f \in Lockfile, Lock!Read = f
    PROVE  Readable /\ Previous = f /\ Lock!Read # Absent
  BY TextAssumption DEF Readable, Previous

\* What Rexy.lock says changes with the file only.
LEMMA ReadKept ==
    Lock!Read' = Lock!Read => (Readable' <=> Readable) /\ Previous' = Previous
  BY DEF Readable, Previous

\* std::ofstream(tmp, trunc) touches another inode than that of Rexy.lock.
LEMMA Opens ==
    ASSUME Lock!TypeOK, Apart, NoStrays, NEW p \in Procs, stream[p] = NoInode, Lock!Open(p)
    PROVE  /\ Lock!TypeOK' /\ Apart' /\ NoStrays' /\ Lock!Read' = Lock!Read
           /\ at[p] = "out" /\ at' = [at EXCEPT ![p] = "write"]
           /\ stream' = [stream EXCEPT ![p] = tmp'] /\ tmp' \in Inodes /\ data'[tmp'] = Empty
  <1> USE InodeAssumption DEF Lock!TypeOK, Lock!Named, Lock!Text, Apart
  <1>1. PICK i \in Inodes : /\ IF tmp = NoInode THEN i \notin Lock!InUse ELSE i = tmp
                            /\ tmp' = i /\ data' = [data EXCEPT ![i] = Empty]
                            /\ stream' = [stream EXCEPT ![p] = i]
    BY DEF Lock!Open
  <1>2. /\ at[p] = "out" /\ at' = [at EXCEPT ![p] = "write"] /\ name' = name
    BY DEF Lock!Open
  <1>3. calm' \in BOOLEAN
    BY Zenon DEF Lock!Open
  <1>4. i # name
    BY <1>1 DEF Lock!InUse
  <1>5. NoStrays'
    <2>1. ASSUME NEW j \in Inodes, j # i, j \in Lock!InUse PROVE j \in Lock!InUse'
      BY <1>1, <1>2, <2>1 DEF Lock!InUse
    <2>. QED
      BY <1>1, <2>1 DEF NoStrays
  <1>. QED
    BY <1>1, <1>2, <1>3, <1>4, <1>5 DEF Lock!Read

\* out.write leaves Rexy.lock alone; over a file just truncated it puts the text.
LEMMA Writes ==
    ASSUME Lock!TypeOK, Apart, NEW p \in Procs, NEW text \in Lockfile, Lock!Write(p, text)
    PROVE  /\ Lock!TypeOK' /\ Apart' /\ NoStrays'
           /\ at[p] = "write" /\ at' = [at EXCEPT ![p] = "rename"]
           /\ stream' = [stream EXCEPT ![p] = NoInode] /\ tmp' = tmp
           /\ stream[p] = tmp /\ tmp # NoInode /\ data[tmp] = Empty =>
                 Lock!Read' = Lock!Read /\ data'[tmp] = text
  <1> USE InodeAssumption DEF Lock!TypeOK, Lock!Named, Lock!Text, Apart
  <1>1. /\ at[p] = "write" /\ at' = [at EXCEPT ![p] = "rename"]
        /\ stream' = [stream EXCEPT ![p] = NoInode] /\ tmp' = tmp /\ name' = name /\ calm' = calm
    BY DEF Lock!Write
  <1>2. PICK t \in Lock!Overlay(data[stream[p]], text) :
              data' = Lock!Kept([data EXCEPT ![stream[p]] = t])
    BY DEF Lock!Write
  <1>3. data' \in [Inodes -> Lock!Text] /\ NoStrays'
    BY <1>2 DEF Lock!Overlay, Lock!Kept, NoStrays
  <1>4. ASSUME stream[p] = tmp, tmp # NoInode, data[tmp] = Empty
        PROVE  Lock!Read' = Lock!Read /\ data'[tmp] = text
    <2>1. t = text
      BY <1>2, <1>4 DEF Lock!Overlay
    <2>2. tmp \in Inodes /\ tmp \in Lock!InUse' /\ name' \in Lock!InUse'
      BY <1>1, <1>4 DEF Lock!InUse
    <2>. QED
      BY <1>1, <1>2, <1>4, <2>1, <2>2 DEF Lock!Kept, Lock!Read
  <1>. QED
    BY <1>1, <1>3, <1>4

\* fs::rename puts what Rexy.lock.tmp has under the name Rexy.lock.
LEMMA Renames ==
    ASSUME Lock!TypeOK, NEW p \in Procs, Lock!Rename(p)
    PROVE  /\ Lock!TypeOK' /\ Apart' /\ NoStrays'
           /\ at[p] = "rename" /\ at' = [at EXCEPT ![p] = "out"] /\ stream' = stream
           /\ tmp \in Inodes /\ Lock!Read' = data[tmp]
  <1> USE InodeAssumption DEF Lock!TypeOK, Lock!Named, Lock!Text, Apart
  <1>1. /\ at[p] = "rename" /\ at' = [at EXCEPT ![p] = "out"] /\ stream' = stream
        /\ tmp \in Inodes /\ name' = tmp /\ tmp' = NoInode /\ calm' = calm
        /\ data' = Lock!Kept(data)
    BY DEF Lock!Rename
  <1>2. tmp \in Lock!InUse'
    BY <1>1 DEF Lock!InUse
  <1>. QED
    BY <1>1, <1>2 DEF Lock!Kept, Lock!Read, NoStrays

\* A build that ends early, or is killed, leaves Rexy.lock and its .tmp as they are.
LEMMA Abandons ==
    ASSUME Lock!TypeOK, Apart, NEW p \in Procs, Lock!Abandon(p)
    PROVE  /\ Lock!TypeOK' /\ Apart' /\ NoStrays' /\ Lock!Read' = Lock!Read
           /\ at' = [at EXCEPT ![p] = "out"] /\ stream' = [stream EXCEPT ![p] = NoInode]
           /\ tmp' = tmp /\ (tmp # NoInode => data'[tmp] = data[tmp])
  <1> USE InodeAssumption DEF Lock!TypeOK, Lock!Named, Lock!Text, Apart
  <1>1. /\ at' = [at EXCEPT ![p] = "out"] /\ stream' = [stream EXCEPT ![p] = NoInode]
        /\ name' = name /\ tmp' = tmp /\ calm' = calm /\ data' = Lock!Kept(data)
    BY DEF Lock!Abandon
  <1>2. name' \in Lock!InUse' /\ tmp' \in Lock!InUse'
    BY <1>1 DEF Lock!InUse
  <1>. QED
    BY <1>1, <1>2 DEF Lock!Kept, Lock!Read, NoStrays

\* The user deletes Rexy.lock.
LEMMA Unlinks ==
    ASSUME Lock!TypeOK, Lock!Unlink
    PROVE  /\ Lock!TypeOK' /\ Apart' /\ NoStrays' /\ Lock!Read' = Absent
           /\ at' = at /\ stream' = stream
           /\ tmp' = tmp /\ (tmp # NoInode => data'[tmp] = data[tmp])
  <1> USE InodeAssumption DEF Lock!TypeOK, Lock!Named, Lock!Text, Apart
  <1>1. /\ at' = at /\ stream' = stream
        /\ name' = NoInode /\ tmp' = tmp /\ calm' = calm /\ data' = Lock!Kept(data)
    BY DEF Lock!Unlink
  <1>2. tmp' \in Lock!InUse'
    BY <1>1 DEF Lock!InUse
  <1>. QED
    BY <1>1, <1>2 DEF Lock!Kept, Lock!Read, NoStrays
-----------------------------------------------------------------------------
\* The types in three parts: the file, the processes, and the rest of the world.
ProcTypes ==
    /\ pc \in [Procs -> {"idle", "pins", "resolve", "drift", "locked", "save", "check",
                         "compile", "done", "drifted"}]
    /\ opt \in [Procs -> Options \cup {Plain}]
    /\ deps \in [Procs -> SUBSET Deps]
    /\ locked \in [Procs -> Lockfile] /\ fresh \in [Procs -> Lockfile]
    /\ picked \in [Procs -> SUBSET Targets] /\ todo \in [Procs -> SUBSET Targets]

WorldTypes ==
    /\ manifest \subseteq Deps
    /\ remote \in [GitDeps -> Commits] /\ clone \in [GitDeps -> Commits \cup {NoPin}]
    /\ index \in [RegDeps -> Index] /\ copy \in [RegDeps -> Index]
    /\ artifact \in [Targets -> Lockfile \cup {Absent}]
    /\ alone \in {{}} \cup {{p} : p \in Procs}

\* Together they are TypeOK.
LEMMA TypeParts == TypeOK <=> Lock!TypeOK /\ ProcTypes /\ WorldTypes
  BY Zenon DEF TypeOK, ProcTypes, WorldTypes

\* Leaving run clears its memory.
LEMMA Leaves ==
    ASSUME ProcTypes, NEW p \in Procs, NEW l \in {"idle", "done", "drifted"}, Leave(p, l)
    PROVE  ProcTypes' /\ pc'[p] = l /\ (l = "done" => picked' = picked)
  <1>1. NoPackage \in Lockfile
    BY DEF NoPackage, Lockfile, Pin
  <1>. QED
    BY <1>1 DEF Leave, Forget, Goto, ProcTypes

\* The version resolve_highest picks is one of the index.
LEMMA HighestType == ASSUME NEW i \in Index PROVE Highest(i) \in Versions \cup {NoPin}
  <1>1. Candidates(i) \in SUBSET Versions
    BY DEF Candidates, Index
  <1>2. Candidates(i) \in SUBSET Nat
    BY <1>1, DepsAssumption
  <1>3. IsFiniteSet(Candidates(i))
    BY <1>1, DepsAssumption, FS_Subset
  <1>. QED
    BY <1>1, <1>2, <1>3, MaxIsElement DEF Highest

\* A resolution pins every dependency to a commit or a version.
LEMMA ResolveTypes ==
    ASSUME TypeOK, NEW p \in Procs, Resolve(p)
    PROVE  ProcTypes' /\ WorldTypes'
  <1> DEFINE NameOf(d) == IF d \in RegDeps THEN Highest(copy'[d]) ELSE clone'[d]
  <1>0. ProcTypes /\ WorldTypes
    BY TypeParts
  <1>1. clone' \in [GitDeps -> Commits \cup {NoPin}] /\ copy' \in [RegDeps -> Index]
    BY <1>0 DEF Resolve, WorldTypes
  <1>2. UNCHANGED <<worldVars, artifact, alone>>
    BY DEF Resolve
  <1>3. WorldTypes'
    BY <1>0, <1>1, <1>2 DEF WorldTypes, worldVars
  <1>4. CASE Fail(p)
    BY <1>0, <1>3, <1>4, Leaves DEF Fail
  <1>5. CASE ~ Fail(p)
    <2>1. /\ fresh' = [fresh EXCEPT ![p] = FromResolution([d \in deps[p] |-> NameOf(d)])]
          /\ Goto(p, "drift")
          /\ deps' = [deps EXCEPT ![p] = {}]
          /\ locked' = [locked EXCEPT ![p] = NoPackage]
          /\ UNCHANGED <<opt, picked, todo>>
      BY <1>5 DEF Resolve
    <2>2. \A d \in Deps : NameOf(d) \in Pin
      BY <1>1, HighestType DEF Deps, Pin
    <2> HIDE DEF NameOf
    <2>3. deps[p] \subseteq Deps
      BY <1>0 DEF ProcTypes
    <2>4. FromResolution([d \in deps[p] |-> NameOf(d)]) \in Lockfile
      BY <2>2, <2>3 DEF FromResolution, Lockfile, Pin
    <2>5. NoPackage \in Lockfile
      BY DEF NoPackage, Lockfile, Pin
    <2>6. ProcTypes'
      BY <1>0, <2>1, <2>4, <2>5 DEF ProcTypes, Goto
    <2>. QED
      BY <1>3, <2>6
  <1>. QED
    BY <1>4, <1>5

\* A build's memory keeps its type.
LEMMA StepProcTypes ==
    ASSUME TypeOK, NEW p \in Procs, Start(p) \/ Step(p) \/ Crash(p)
    PROVE  ProcTypes'
  <1>0. Lock!TypeOK /\ ProcTypes /\ WorldTypes
    BY TypeParts
  <1>l. NoPackage \in Lockfile
    BY DEF NoPackage, Lockfile, Pin
  <1>1. CASE Start(p)
    <2>1. manifest \subseteq Deps
      BY <1>0 DEF WorldTypes
    <2>. QED
      BY <1>0, <1>1, <1>l, <2>1 DEF Start, ProcTypes, Goto
  <1>2. CASE ReadPins(p)
    <2>1. CASE Fail(p)
      BY <1>0, <2>1, Leaves DEF Fail
    <2>2. CASE ~ Fail(p)
      <3>1. Previous \in Lockfile
        BY <1>0, <1>2, <2>2, ReadCases DEF ReadPins
      <3>. QED
        BY <1>0, <1>2, <2>2, <3>1 DEF ReadPins, ProcTypes, Goto
    <2>. QED
      BY <2>1, <2>2
  <1>3. CASE Resolve(p)
    BY <1>3, ResolveTypes
  <1>4. CASE CheckDrift(p) \/ CheckLocked(p) \/ Save(p)
    <2>1. CASE Fail(p) \/ Leave(p, "drifted")
      BY <1>0, <2>1, Leaves DEF Fail
    <2>2. CASE \E l \in {"locked", "save", "check"} : Continue(p, l)
      BY <1>0, <2>2 DEF Continue, Goto, ProcTypes
    <2>. QED
      BY <1>4, <2>1, <2>2 DEF CheckDrift, CheckLocked, Save
  <1>5. CASE Check(p)
    <2>1. CASE Fail(p)
      BY <1>0, <2>1, Leaves DEF Fail
    <2>2. CASE ~ Fail(p)
      BY <1>0, <1>5, <2>2 DEF Check, ProcTypes, Goto
    <2>. QED
      BY <2>1, <2>2
  <1>6. CASE Compile(p)
    <2>1. CASE Fail(p) \/ Leave(p, "done")
      BY <1>0, <2>1, Leaves DEF Fail
    <2>2. CASE ~ (Fail(p) \/ Leave(p, "done"))
      <3>1. PICK t \in todo[p] : /\ todo' = [todo EXCEPT ![p] = @ \ {t}]
                                 /\ UNCHANGED <<pc, opt, deps, locked, fresh, picked>>
        BY <1>6, <2>2 DEF Compile
      <3>. QED
        BY <1>0, <3>1 DEF ProcTypes
    <2>. QED
      BY <2>1, <2>2
  <1>7. CASE Crash(p)
    BY <1>0, <1>7, Leaves DEF Crash
  <1>. QED
    BY <1>1, <1>2, <1>3, <1>4, <1>5, <1>6, <1>7 DEF Step

\* So does the rest.
LEMMA StepWorldTypes ==
    ASSUME TypeOK, NEW p \in Procs, Start(p) \/ Step(p) \/ Crash(p)
    PROVE  WorldTypes'
  <1>0. ProcTypes /\ WorldTypes
    BY TypeParts
  <1>1. CASE Start(p)
    <2>1. alone' \in {{}} \cup {{q} : q \in Procs}
      BY <1>1 DEF Start
    <2>. QED
      BY <1>0, <1>1, <2>1 DEF Start, WorldTypes, worldVars, cacheVars
  <1>2. CASE Resolve(p)
    BY <1>2, ResolveTypes
  <1>3. CASE \/ ReadPins(p) \/ CheckDrift(p) \/ CheckLocked(p) \/ Save(p) \/ Check(p)
             \/ Crash(p)
    <2>1. UNCHANGED <<worldVars, cacheVars, artifact, alone>>
      BY <1>3 DEF ReadPins, CheckDrift, CheckLocked, Save, Check, Crash
    <2>. QED
      BY <1>0, <2>1 DEF WorldTypes, worldVars, cacheVars
  <1>4. CASE Compile(p)
    <2>1. UNCHANGED <<worldVars, cacheVars, alone>>
      BY <1>4 DEF Compile
    <2>2. artifact' = artifact \/ \E t \in todo[p] : artifact' = [artifact EXCEPT ![t] = fresh[p]]
      BY <1>4 DEF Compile
    <2>3. artifact' \in [Targets -> Lockfile \cup {Absent}]
      BY <1>0, <2>2 DEF WorldTypes, ProcTypes
    <2>. QED
      BY <1>0, <2>1, <2>3 DEF WorldTypes, worldVars, cacheVars
  <1>. QED
    BY <1>1, <1>2, <1>3, <1>4 DEF Step
-----------------------------------------------------------------------------
\* What a build knows stays as it is.
Untouched(q) ==
    /\ pc'[q] = pc[q] /\ opt'[q] = opt[q] /\ fresh'[q] = fresh[q]
    /\ picked'[q] = picked[q] /\ todo'[q] = todo[q]
    /\ at'[q] = at[q] /\ stream'[q] = stream[q]

\* A step of one build leaves what the others know.
LEMMA OthersUntouched ==
    ASSUME TypeOK, NEW p \in Procs, Start(p) \/ Step(p) \/ Crash(p),
           NEW q \in Procs, q # p
    PROVE  Untouched(q)
  <1> USE TypeParts DEF ProcTypes, Lock!TypeOK, Untouched, Goto, Leave, Fail, Forget, Continue, lockVars
  <1>1. CASE Start(p)
    BY <1>1 DEF Start
  <1>2. CASE ReadPins(p)
    BY <1>2 DEF ReadPins
  <1>7. CASE Resolve(p)
    <2>1. UNCHANGED lockVars
      BY <1>7 DEF Resolve
    <2>2. CASE Fail(p)
      BY <2>1, <2>2
    <2>3. CASE ~ Fail(p)
      <3> DEFINE NameOf(d) == IF d \in RegDeps THEN Highest(copy'[d]) ELSE clone'[d]
      <3>1. /\ fresh' = [fresh EXCEPT ![p] = FromResolution([d \in deps[p] |-> NameOf(d)])]
            /\ Goto(p, "drift") /\ UNCHANGED <<opt, picked, todo>>
        BY <1>7, <2>3 DEF Resolve
      <3> HIDE DEF NameOf
      <3>. QED
        BY <2>1, <3>1
    <2>. QED
      BY <2>2, <2>3
  <1>3. CASE CheckDrift(p) \/ CheckLocked(p)
    BY <1>3 DEF CheckDrift, CheckLocked
  <1>4. CASE Save(p)
    BY <1>4 DEF Save, Lock!Open, Lock!Write, Lock!Rename, Lock!RenameFails, Lock!Abandon
  <1>5. CASE Check(p) \/ Compile(p)
    BY <1>5 DEF Check, Compile
  <1>6. CASE Crash(p)
    BY <1>6 DEF Crash, Lock!Abandon
  <1>. QED
    BY <1>1, <1>2, <1>3, <1>4, <1>5, <1>6, <1>7 DEF Step

\* What a step of a build does to Rexy.lock and its .tmp.
LEMMA FileSteps ==
    ASSUME NEW p \in Procs, Start(p) \/ Step(p) \/ Crash(p)
    PROVE  \/ pc[p] # "save" /\ UNCHANGED lockVars
           \/ pc[p] = "save" /\ Lock!Open(p) /\ Continue(p, "save")
           \/ pc[p] = "save" /\ Lock!Write(p, fresh[p]) /\ Continue(p, "save")
           \/ pc[p] = "save" /\ Lock!Rename(p) /\ Continue(p, "check")
           \/ pc[p] = "save" /\ Lock!RenameFails(p) /\ Lock!Abandon(p) /\ Fail(p)
           \/ Crash(p) /\ Lock!Abandon(p) /\ Fail(p)
  <1>1. CASE Start(p) \/ ReadPins(p) \/ Resolve(p) \/ CheckDrift(p) \/ CheckLocked(p)
    BY <1>1 DEF Start, ReadPins, Resolve, CheckDrift, CheckLocked, Stopped
  <1>2. CASE Check(p) \/ Compile(p)
    BY <1>2 DEF Check, Compile
  <1>3. CASE Save(p)
    BY <1>3 DEF Save, Lock!RenameFails
  <1>4. CASE Crash(p)
    BY <1>4 DEF Crash, Fail
  <1>. QED
    BY <1>1, <1>2, <1>3, <1>4 DEF Step
-----------------------------------------------------------------------------
\* Only a build without --locked gets to the save, and only there it has the file
\* in hand.
LEMMA StepUsesLock ==
    ASSUME FileInv, NEW p \in Procs, Start(p) \/ Step(p) \/ Crash(p)
    PROVE  UsesLock'
  <1> USE DEF FileInv
  <1>0. Lock!TypeOK /\ ProcTypes
    BY TypeParts
  <1>o. \A q \in Procs : q # p => Untouched(q)
    BY OthersUntouched
  <1>1. (at'[p] # "out" => pc'[p] = "save") /\ (stream'[p] # NoInode => at'[p] = "write")
    <2>1. CASE pc[p] # "save" /\ UNCHANGED lockVars
      BY <2>1 DEF UsesLock, lockVars
    <2>2. CASE pc[p] = "save" /\ Lock!Open(p) /\ Continue(p, "save")
      <3>1. at[p] = "out" /\ stream[p] = NoInode
        BY <2>2 DEF UsesLock, Lock!Open
      <3>2. pc'[p] = "save" /\ at'[p] = "write"
        BY <1>0, <2>2, <3>1, Opens DEF Continue, Goto, ProcTypes, Lock!TypeOK
      <3>. QED
        BY <3>2
    <2>3. CASE pc[p] = "save" /\ Lock!Write(p, fresh[p]) /\ Continue(p, "save")
      BY <1>0, <2>3 DEF Lock!Write, Continue, Goto, ProcTypes, Lock!TypeOK
    <2>4. CASE pc[p] = "save" /\ Lock!Rename(p) /\ Continue(p, "check")
      BY <1>0, <2>4 DEF UsesLock, Lock!Rename, Lock!TypeOK
    <2>5. CASE Lock!Abandon(p)
      BY <1>0, <2>5 DEF Lock!Abandon, Lock!TypeOK
    <2>. QED
      BY <2>1, <2>2, <2>3, <2>4, <2>5, FileSteps
  <1>2. /\ pc'[p] \in {"pins", "resolve", "drift"} /\ ~opt'[p].locked => p \in Writers
        /\ pc'[p] = "save" => p \in Writers
    <2>1. CASE pc'[p] \in {"idle", "done", "drifted", "locked", "check", "compile"}
      BY <2>1
    <2>2. CASE Start(p)
      BY <1>0, <2>2 DEF Start, Goto, ProcTypes
    <2>3. CASE ReadPins(p) /\ ~ Fail(p)
      BY <1>0, <2>3 DEF ReadPins, Goto, ProcTypes, UsesLock
    <2>4. CASE Resolve(p) /\ ~ Fail(p)
      <3>1. pc[p] = "resolve" /\ opt' = opt /\ pc'[p] = "drift"
        BY <1>0, <2>4 DEF Resolve, Goto, ProcTypes
      <3>. QED
        BY <3>1 DEF UsesLock
    <2>5. CASE CheckDrift(p)
      BY <1>0, <2>5 DEF CheckDrift, Continue, Goto, ProcTypes, UsesLock, Fail, Leave
    <2>6. CASE Save(p)
      BY <1>0, <2>6 DEF Save, Continue, Goto, ProcTypes, UsesLock, Fail, Leave
    <2>7. CASE \/ Fail(p) \/ CheckLocked(p) \/ Check(p) \/ Crash(p)
               \/ Compile(p) /\ (Fail(p) \/ Leave(p, "done"))
      BY <1>0, <2>1, <2>7 DEF CheckLocked, Check, Crash, Continue, Fail, Leave, Goto, ProcTypes
    <2>8. CASE Compile(p) /\ ~ (Fail(p) \/ Leave(p, "done"))
      BY <1>0, <2>8 DEF Compile
    <2>. QED
      BY <2>2, <2>3, <2>4, <2>5, <2>6, <2>7, <2>8 DEF Step
  <1>. QED
    BY <1>1, <1>2, <1>o DEF UsesLock, Untouched

\* The file keeps its shape.
LEMMA StepFileInv ==
    ASSUME FileInv, NEW p \in Procs, Start(p) \/ Step(p) \/ Crash(p)
    PROVE  FileInv'
  <1> USE DEF FileInv
  <1>0. Lock!TypeOK /\ ProcTypes
    BY TypeParts
  <1>1. Lock!TypeOK' /\ Apart' /\ NoStrays'
    <2>1. CASE UNCHANGED lockVars
      BY <1>0, <2>1 DEF lockVars, Lock!TypeOK, Apart, NoStrays, Lock!InUse
    <2>2. CASE Lock!Open(p)
      <3>1. stream[p] = NoInode
        BY <2>2 DEF Lock!Open, UsesLock
      <3>. QED
        BY <1>0, <2>2, <3>1, Opens
    <2>3. CASE Lock!Write(p, fresh[p])
      <3>1. fresh[p] \in Lockfile
        BY <1>0 DEF ProcTypes
      <3>. QED
        BY <1>0, <2>3, <3>1, Writes
    <2>4. CASE Lock!Rename(p)
      BY <1>0, <2>4, Renames
    <2>5. CASE Lock!Abandon(p)
      BY <1>0, <2>5, Abandons
    <2>. QED
      BY <2>1, <2>2, <2>3, <2>4, <2>5, FileSteps
  <1>2. TypeOK'
    <2>1. ProcTypes' /\ WorldTypes'
      BY StepProcTypes, StepWorldTypes
    <2>. QED
      BY <1>1, <2>1, Zenon DEF TypeOK, ProcTypes, WorldTypes
  <1>. QED
    BY <1>1, <1>2, StepUsesLock

\* A writer that nobody disturbs writes what it resolved, and that is the only way
\* a build changes Rexy.lock.
LEMMA StepWriting ==
    ASSUME FileInv, NEW p \in Procs, Writing(p), Start(p) \/ Step(p) \/ Crash(p)
    PROVE  /\ Writing(p)'
           /\ \/ Lock!Read' = Lock!Read
              \/ /\ pc[p] = "save" /\ Lock!Rename(p) /\ Continue(p, "check")
                 /\ Lock!Read' = fresh[p]
  <1> USE DEF FileInv
  <1>0. Lock!TypeOK /\ ProcTypes
    BY TypeParts
  <1>1. CASE pc[p] # "save" /\ UNCHANGED lockVars
    <2>1. at'[p] = "out"
      BY <1>1 DEF UsesLock, lockVars
    <2>. QED
      BY <1>1, <2>1 DEF Writing, lockVars, Lock!Read
  <1>2. CASE pc[p] = "save" /\ Lock!Open(p) /\ Continue(p, "save")
    <2>1. stream[p] = NoInode
      BY <1>2 DEF Lock!Open, UsesLock
    <2>2. /\ Lock!Read' = Lock!Read /\ at'[p] = "write" /\ stream'[p] = tmp'
          /\ tmp' # NoInode /\ data'[tmp'] = Empty
      BY <1>0, <1>2, <2>1, Opens, InodeAssumption DEF Lock!TypeOK
    <2>. QED
      BY <2>2 DEF Writing
  <1>3. CASE pc[p] = "save" /\ Lock!Write(p, fresh[p]) /\ Continue(p, "save")
    <2>1. fresh[p] \in Lockfile /\ fresh'[p] = fresh[p] /\ at[p] = "write"
      BY <1>0, <1>3 DEF ProcTypes, Continue, Lock!Write
    <2>2. stream[p] = tmp /\ tmp # NoInode /\ data[tmp] = Empty
      BY <2>1 DEF Writing
    <2>3. /\ Lock!Read' = Lock!Read /\ at'[p] = "rename"
          /\ tmp' = tmp /\ data'[tmp] = fresh[p]
      BY <1>0, <1>3, <2>1, <2>2, Writes DEF Lock!TypeOK
    <2>. QED
      BY <2>1, <2>2, <2>3 DEF Writing
  <1>4. CASE pc[p] = "save" /\ Lock!Rename(p) /\ Continue(p, "check")
    <2>1. at[p] = "rename" /\ at'[p] = "out" /\ Lock!Read' = data[tmp]
      BY <1>0, <1>4, Renames DEF Lock!TypeOK
    <2>2. data[tmp] = fresh[p]
      BY <2>1 DEF Writing
    <2>. QED
      BY <1>4, <2>1, <2>2 DEF Writing
  <1>5. CASE Lock!Abandon(p)
    <2>1. at'[p] = "out" /\ Lock!Read' = Lock!Read
      BY <1>0, <1>5, Abandons DEF Lock!TypeOK
    <2>. QED
      BY <2>1 DEF Writing
  <1>. QED
    BY <1>1, <1>2, <1>3, <1>4, <1>5, FileSteps

\* A build gets to its save from detect_drift only, and resolves nothing there.
LEMMA AtItsSave ==
    ASSUME FileInv, NEW p \in Procs, Start(p) \/ Step(p) \/ Crash(p), pc'[p] = "save"
    PROVE  /\ fresh'[p] = fresh[p]
           /\ pc[p] = "save" \/ (Readable /\ ~Drifted(Previous, fresh[p]))
  <1>0. ProcTypes
    BY TypeParts DEF FileInv
  <1>1. CASE Save(p)
    BY <1>0, <1>1 DEF Save, Continue, Fail, Leave, Goto, ProcTypes
  <1>2. CASE CheckDrift(p)
    BY <1>0, <1>2 DEF CheckDrift, Continue, Fail, Leave, Goto, ProcTypes
  <1>3. CASE Start(p) \/ ReadPins(p) \/ CheckLocked(p) \/ Check(p) \/ Crash(p)
    BY <1>0, <1>3
       DEF Start, ReadPins, CheckLocked, Check, Crash, Continue, Fail, Leave, Goto, ProcTypes
  <1>4. CASE Resolve(p)
    <2>1. pc'[p] \in {"idle", "drift"}
      BY <1>0, <1>4 DEF Resolve, Fail, Leave, Goto, ProcTypes
    <2>. QED
      BY <2>1
  <1>5. CASE Compile(p)
    BY <1>0, <1>5 DEF Compile, Fail, Leave, Goto, ProcTypes
  <1>. QED
    BY <1>1, <1>2, <1>3, <1>4, <1>5 DEF Step

\* What it compared stays so, when nobody else renames meanwhile.
LEMMA StepCompared ==
    ASSUME FileInv, NEW p \in Procs, Writing(p), Compared(p), Start(p) \/ Step(p) \/ Crash(p)
    PROVE  Compared(p)'
  <1> SUFFICES ASSUME pc'[p] = "save" PROVE Readable' /\ ~Drifted(Previous, fresh[p])'
    BY DEF Compared
  <1>1. /\ fresh'[p] = fresh[p]
        /\ pc[p] = "save" \/ (Readable /\ ~Drifted(Previous, fresh[p]))
    BY AtItsSave
  <1>2. Lock!Read' = Lock!Read
    BY StepWriting, TypeParts DEF FileInv, ProcTypes, Continue, Goto
  <1>. QED
    BY <1>1, <1>2, ReadKept DEF Compared, Drifted
-----------------------------------------------------------------------------
\* A build that has the package for itself keeps its record: what it compiles is
\* what Rexy.lock says, if there still is one.
LEMMA StepRecorded ==
    ASSUME FileInv, NEW p \in Procs, Writing(p), Recorded(p), Step(p) \/ Crash(p)
    PROVE  Recorded(p)'
  <1> USE DEF FileInv
  <1>0. ProcTypes /\ WorldTypes
    BY TypeParts
  <1>1. CASE pc'[p] \notin {"check", "compile", "done"}
    BY <1>1 DEF Recorded
  <1>2. CASE CheckLocked(p) /\ ~ Fail(p)
    <2>1. /\ pc'[p] = "check" /\ fresh' = fresh /\ Readable /\ Previous = fresh[p]
          /\ UNCHANGED lockVars
      BY <1>0, <1>2 DEF CheckLocked, Continue, Goto, ProcTypes, Readable
    <2>2. Lock!Read' = Lock!Read
      BY <2>1 DEF lockVars, Lock!Read
    <2>. QED
      BY <2>1, <2>2, ReadKept DEF Recorded
  <1>3. CASE pc[p] = "save" /\ Lock!Rename(p) /\ Continue(p, "check") /\ Lock!Read' = fresh[p]
    <2>1. pc'[p] = "check" /\ fresh' = fresh /\ fresh[p] \in Lockfile
      BY <1>0, <1>3 DEF Continue, Goto, ProcTypes
    <2>2. Readable' /\ Previous' = fresh[p]
      BY <1>3, <2>1, TextAssumption DEF Readable, Previous
    <2>. QED
      BY <2>1, <2>2 DEF Recorded
  <1>4. CASE Check(p) /\ ~ Fail(p)
    <2>1. /\ pc[p] = "check" /\ pc'[p] = "compile" /\ fresh' = fresh /\ picked'[p] = todo'[p]
          /\ UNCHANGED lockVars
      BY <1>0, <1>4 DEF Check, Goto, ProcTypes
    <2>2. Lock!Read' = Lock!Read
      BY <2>1 DEF lockVars, Lock!Read
    <2>. QED
      BY <2>1, <2>2, ReadKept DEF Recorded
  <1>5. CASE Compile(p) /\ ~ Fail(p)
    <2>1. pc[p] = "compile" /\ UNCHANGED lockVars
      BY <1>5 DEF Compile
    <2>2. Lock!Read' = Lock!Read
      BY <2>1 DEF lockVars, Lock!Read
    <2>3. PICK t \in todo[p] :
            /\ artifact' = [artifact EXCEPT ![t] = fresh[p]]
            /\ IF todo[p] = {t} THEN Leave(p, "done") ELSE
               /\ todo' = [todo EXCEPT ![p] = @ \ {t}]
               /\ UNCHANGED <<pc, opt, deps, locked, fresh, picked>>
      BY <1>5 DEF Compile
    <2>4. \A u \in (picked[p] \ todo[p]) \cup {t} : artifact'[u] = fresh[p]
      BY <1>0, <2>1, <2>3 DEF Recorded, ProcTypes, WorldTypes
    <2>5. Lock!Read' = Absent \/ (Readable' /\ fresh[p] = Previous')
      BY <2>1, <2>2, ReadKept DEF Recorded
    <2>6. CASE todo[p] = {t}
      <3>1. pc'[p] = "done" /\ picked' = picked
        BY <1>0, <2>3, <2>6, Leaves
      <3>. QED
        BY <2>4, <2>5, <2>6, <3>1 DEF Recorded
    <2>7. CASE todo[p] # {t}
      <3>1. /\ pc'[p] = "compile" /\ picked' = picked /\ fresh' = fresh
            /\ todo'[p] = todo[p] \ {t}
        BY <1>0, <2>1, <2>3, <2>7 DEF ProcTypes
      <3>. QED
        BY <2>4, <2>5, <3>1 DEF Recorded
    <2>. QED
      BY <2>6, <2>7
  <1>6. CASE \/ ReadPins(p) \/ Resolve(p) \/ CheckDrift(p) \/ Fail(p) \/ Crash(p)
    <2>1. CASE Fail(p) \/ Leave(p, "drifted")
      BY <1>0, <1>1, <2>1, Leaves DEF Fail
    <2>2. CASE ~ (Fail(p) \/ Leave(p, "drifted"))
      <3>1. pc'[p] \in {"resolve", "drift", "locked", "save"}
        BY <1>0, <1>6, <2>2 DEF ReadPins, Resolve, CheckDrift, Crash, Continue, Fail, Goto, ProcTypes
      <3>. QED
        BY <1>1, <3>1
    <2>. QED
      BY <2>1, <2>2
  <1>7. CASE Save(p) /\ ~ Fail(p)
    <2>1. CASE Lock!Rename(p) /\ Continue(p, "check")
      <3>1. pc[p] = "save" /\ data[tmp] = fresh[p]
        BY <1>7, <2>1 DEF Save, Writing, Lock!Rename
      <3>2. Lock!Read' = data[tmp]
        BY <2>1, TypeParts, Renames
      <3>. QED
        BY <1>3, <2>1, <3>1, <3>2
    <2>2. CASE Continue(p, "save")
      <3>1. pc'[p] = "save"
        BY <1>0, <2>2 DEF Continue, Goto, ProcTypes
      <3>. QED
        BY <1>1, <3>1
    <2>. QED
      BY <1>7, <2>1, <2>2 DEF Save
  <1>. QED
    BY <1>2, <1>4, <1>5, <1>6, <1>7 DEF Step

\* One that starts beside others, or beside which another starts, is alone no more.
LEMMA StepAloneInv ==
    ASSUME FileInv, AloneInv, NEW p \in Procs, Start(p) \/ Step(p) \/ Crash(p)
    PROVE  AloneInv'
  <1> USE DEF FileInv
  <1>0. ProcTypes /\ WorldTypes
    BY TypeParts
  <1>o. \A q \in Procs : q # p => (Stopped(q)' <=> Stopped(q))
    BY OthersUntouched DEF Untouched, Stopped
  <1>1. CASE Start(p)
    <2>1. alone' = {} \/ (alone' = {p} /\ \A q \in Procs : Stopped(q))
      BY <1>1 DEF Start
    <2>2. at[p] = "out" /\ pc'[p] \in {"pins", "drift"} /\ UNCHANGED lockVars
      BY <1>0, <1>1 DEF Start, Stopped, UsesLock, Goto, ProcTypes
    <2>3. Writing(p)' /\ Compared(p)' /\ Recorded(p)'
      BY <2>2 DEF Writing, Compared, Recorded, lockVars
    <2>. QED
      BY <1>o, <2>1, <2>3 DEF AloneInv
  <1>2. CASE Step(p) \/ Crash(p)
    <2>1. ~ Stopped(p) /\ alone' = alone
      BY <1>2 DEF Stopped, Step, ReadPins, Resolve, CheckDrift, CheckLocked, Save, Check,
                  Compile, Crash
    <2>2. alone \subseteq {p}
      BY <1>0, <2>1 DEF AloneInv, WorldTypes
    <2>3. ASSUME p \in alone
          PROVE  /\ Writing(p)' /\ Compared(p)' /\ Recorded(p)'
                 /\ \A q \in Procs : q # p => Stopped(q)'
      <3>1. /\ Writing(p) /\ Compared(p) /\ Recorded(p)
            /\ \A q \in Procs : q # p => Stopped(q)
        BY <2>3 DEF AloneInv
      <3>. QED
        BY <1>2, <1>o, <3>1, StepWriting, StepCompared, StepRecorded
    <2>. QED
      BY <2>1, <2>2, <2>3 DEF AloneInv
  <1>. QED
    BY <1>1, <1>2

\* One writer at a time is never disturbed.
LEMMA StepWriterInv ==
    ASSUME OneWriter, FileInv, WriterInv, NEW p \in Procs, Start(p) \/ Step(p) \/ Crash(p)
    PROVE  WriterInv'
  <1> USE DEF FileInv
  <1>0. Lock!TypeOK /\ ProcTypes /\ Writing(p)
    BY TypeParts DEF WriterInv
  <1>o. \A q \in Procs : q # p => Untouched(q)
    BY OthersUntouched
  <1>a. pc[p] = "save" => \A q \in Procs : q # p => pc[q] # "save" /\ at[q] = "out"
    BY DEF OneWriter, UsesLock
  <1>w. /\ Writing(p)'
        /\ \/ Lock!Read' = Lock!Read
           \/ pc[p] = "save" /\ Continue(p, "check") /\ Lock!Read' = fresh[p]
    BY <1>0, StepWriting
  <1>1. Lock!Read' \in Lockfile \cup {Absent}
    BY <1>0, <1>w DEF WriterInv, ProcTypes
  <1>2. ASSUME NEW q \in Procs, q # p PROVE Writing(q)'
    <2>1. Writing(q) /\ Untouched(q)
      BY <1>2, <1>o DEF WriterInv
    <2>2. CASE pc[p] = "save"
      BY <1>2, <1>a, <2>1, <2>2 DEF Writing, Untouched
    <2>3. CASE UNCHANGED lockVars
      BY <2>1, <2>3 DEF Writing, Untouched, lockVars
    <2>4. CASE Lock!Abandon(p)
      <3>1. tmp' = tmp /\ (tmp # NoInode => data'[tmp] = data[tmp])
        BY <1>0, <2>4, Abandons
      <3>. QED
        BY <2>1, <3>1 DEF Writing, Untouched
    <2>. QED
      BY <2>2, <2>3, <2>4, FileSteps
  <1>3. ASSUME NEW q \in Procs, pc'[q] = "save" PROVE ~Drifted(Previous, fresh[q])'
    <2>1. CASE Lock!Read' = Lock!Read
      <3>1. Previous' = Previous
        BY <2>1, ReadKept
      <3>2. fresh'[q] = fresh[q] /\ ~Drifted(Previous, fresh[q])
        <4>1. CASE pc[q] = "save" /\ q # p
          BY <1>o, <4>1 DEF WriterInv, Untouched
        <4>2. CASE q # p
          BY <1>3, <1>o, <4>1, <4>2 DEF Untouched
        <4>3. CASE q = p
          BY <1>3, <4>3, AtItsSave DEF WriterInv
        <4>. QED
          BY <4>2, <4>3
      <3>. QED
        BY <3>1, <3>2 DEF Drifted
    <2>2. CASE pc[p] = "save" /\ Continue(p, "check")
      <3>1. pc'[p] = "check"
        BY <1>0, <2>2 DEF Continue, Goto, ProcTypes
      <3>2. q # p /\ pc[q] = "save"
        BY <1>3, <1>o, <3>1 DEF Untouched
      <3>. QED
        BY <1>a, <2>2, <3>2
    <2>. QED
      BY <1>w, <2>1, <2>2
  <1>. QED
    BY <1>1, <1>w, <1>2, <1>3 DEF WriterInv
-----------------------------------------------------------------------------
\* What is published and yanked is an index again.
LEMMA ReleaseType == TypeOK /\ Release => index' \in [RegDeps -> Index]
  <1> SUFFICES ASSUME TypeOK, Release PROVE index' \in [RegDeps -> Index]
    OBVIOUS
  <1>1. PICK d \in RegDeps, v \in Versions : Publish(d, v) \/ Yank(d, v)
    BY DEF Release
  <1>2. index \in [RegDeps -> Index] /\ index[d] \in Index
    BY TypeParts DEF WorldTypes
  <1> DEFINE i == [index[d] EXCEPT !.pub = @ \cup {v}]
             j == [index[d] EXCEPT !.yanked = @ \cup {v}]
  <1>3. i \in Index /\ (v \in Candidates(index[d]) => j \in Index)
    BY <1>2 DEF Index, Candidates
  <1>4. (Publish(d, v) => index' = [index EXCEPT ![d] = i])
        /\ (Yank(d, v) => v \in Candidates(index[d]) /\ index' = [index EXCEPT ![d] = j])
    BY DEF Publish, Yank
  <1> HIDE DEF i, j
  <1>. QED
    BY <1>1, <1>2, <1>3, <1>4

\* What happens elsewhere: the author, the upstreams, the registry, a deleted
\* Rexy.lock.
World == Edit \/ DeleteLock \/ Release \/ \E d \in GitDeps, c \in Commits : Push(d, c)

\* None of that touches a build, and only the deletion touches Rexy.lock.
LEMMA WorldSteps ==
    ASSUME FileInv, World \/ UNCHANGED vars
    PROVE  /\ FileInv' /\ UNCHANGED <<procVars, artifact, alone>> /\ at' = at /\ stream' = stream
           /\ tmp' = tmp /\ (tmp # NoInode => data'[tmp] = data[tmp])
           /\ UNCHANGED lockVars \/ (Lock!Unlink /\ Lock!Read' = Absent)
  <1> USE DEF FileInv
  <1>0. Lock!TypeOK /\ ProcTypes /\ WorldTypes
    BY TypeParts
  <1>1. UNCHANGED <<procVars, artifact, alone>>
    BY DEF World, Edit, DeleteLock, Release, Push, vars
  <1>2. WorldTypes'
    <2>1. CASE Edit
      BY <1>0, <2>1, DepsAssumption DEF Edit, Add, Remove, WorldTypes, cacheVars
    <2>2. CASE DeleteLock \/ UNCHANGED vars
      BY <1>0, <2>2 DEF DeleteLock, WorldTypes, worldVars, cacheVars, vars
    <2>3. CASE Release
      BY <1>0, <2>3, ReleaseType DEF Release, WorldTypes, cacheVars
    <2>4. ASSUME NEW d \in GitDeps, NEW c \in Commits, Push(d, c) PROVE WorldTypes'
      BY <1>0, <2>4 DEF Push, WorldTypes, cacheVars
    <2>. QED
      BY <2>1, <2>2, <2>3, <2>4 DEF World
  <1>3. ProcTypes'
    BY <1>0, <1>1 DEF ProcTypes, procVars
  <1>4. \/ UNCHANGED lockVars
        \/ Lock!Unlink
    BY DEF World, Edit, DeleteLock, Release, Push, vars
  <1>5. /\ Lock!TypeOK' /\ Apart' /\ NoStrays' /\ at' = at /\ stream' = stream
        /\ tmp' = tmp /\ (tmp # NoInode => data'[tmp] = data[tmp])
        /\ UNCHANGED lockVars \/ (Lock!Unlink /\ Lock!Read' = Absent)
    <2>1. CASE UNCHANGED lockVars
      BY <1>0, <2>1 DEF lockVars, Lock!TypeOK, Apart, NoStrays, Lock!InUse
    <2>2. CASE Lock!Unlink
      BY <1>0, <2>2, Unlinks
    <2>. QED
      BY <1>4, <2>1, <2>2
  <1>6. UsesLock'
    BY <1>1, <1>5 DEF UsesLock, procVars
  <1>7. TypeOK'
    BY <1>2, <1>3, <1>5, Zenon DEF TypeOK, ProcTypes, WorldTypes
  <1>. QED
    BY <1>1, <1>5, <1>6, <1>7

\* Nor does it bring back a pin that some build has not compared.
LEMMA WorldComparisons ==
    ASSUME FileInv, World \/ UNCHANGED vars, NEW f, Readable, ~Drifted(Previous, f)
    PROVE  Readable' /\ ~Drifted(Previous', f)
  <1>1. CASE Lock!Read' = Absent
    BY <1>1, TextAssumption DEF Readable, Previous, Drifted, NoPackage, Deps
  <1>2. CASE UNCHANGED lockVars
    BY <1>2, ReadKept DEF lockVars, Lock!Read
  <1>. QED
    BY <1>1, <1>2, WorldSteps

\* Nothing of it makes a record wrong: where Rexy.lock is gone there is none.
LEMMA WorldAloneInv ==
    ASSUME FileInv, AloneInv, World \/ UNCHANGED vars
    PROVE  AloneInv'
  <1>1. /\ UNCHANGED <<procVars, artifact, alone>> /\ at' = at /\ stream' = stream
        /\ tmp' = tmp /\ (tmp # NoInode => data'[tmp] = data[tmp])
        /\ UNCHANGED lockVars \/ Lock!Read' = Absent
    BY WorldSteps
  <1>2. ASSUME NEW p \in alone PROVE Recorded(p)'
    <2>1. CASE Lock!Read' = Absent
      BY <1>1, <1>2, <2>1 DEF AloneInv, Recorded, procVars
    <2>2. CASE UNCHANGED lockVars
      <3>1. Lock!Read' = Lock!Read
        BY <2>2 DEF lockVars, Lock!Read
      <3>2. Recorded(p)
        BY DEF AloneInv
      <3>. QED
        BY <1>1, <3>1, <3>2, ReadKept DEF Recorded, procVars
    <2>. QED
      BY <1>1, <2>1, <2>2
  <1>3. ASSUME NEW p \in alone PROVE Compared(p)'
    BY <1>1, WorldComparisons DEF AloneInv, Compared, procVars
  <1>. QED
    BY <1>1, <1>2, <1>3 DEF AloneInv, Writing, Stopped, procVars

\* Nor does it disturb a writer, or bring back a pin.
LEMMA WorldWriterInv ==
    ASSUME FileInv, WriterInv, World \/ UNCHANGED vars
    PROVE  WriterInv'
  <1>1. /\ UNCHANGED procVars /\ at' = at /\ stream' = stream
        /\ tmp' = tmp /\ (tmp # NoInode => data'[tmp] = data[tmp])
        /\ UNCHANGED lockVars \/ Lock!Read' = Absent
    BY WorldSteps
  <1>2. CASE Lock!Read' = Absent
    <2>1. Previous' = NoPackage
      BY <1>2 DEF Previous
    <2>2. \A f : ~ Drifted(NoPackage, f)
      BY DEF Drifted, NoPackage, Deps
    <2>. QED
      BY <1>1, <1>2, <2>1, <2>2 DEF WriterInv, Writing, Drifted, procVars
  <1>3. CASE UNCHANGED lockVars
    <2>1. Lock!Read' = Lock!Read
      BY <1>3 DEF lockVars, Lock!Read
    <2>. QED
      BY <1>1, <2>1, ReadKept DEF WriterInv, Writing, Drifted, procVars
  <1>. QED
    BY <1>1, <1>2, <1>3
-----------------------------------------------------------------------------
\* There is no Rexy.lock, and no build, at first.
LEMMA InitInv == Init => FileInv /\ AloneInv /\ WriterInv
  <1> SUFFICES ASSUME Init PROVE FileInv /\ AloneInv /\ WriterInv
    OBVIOUS
  <1> USE DEF Init, Lock!Init
  <1>1. Lock!TypeOK
    BY DEF Lock!TypeOK, Lock!Named, Lock!Text
  <1>2. NoPackage \in Lockfile
    BY DEF NoPackage, Lockfile, Pin
  <1>3. ProcTypes /\ WorldTypes
    BY <1>2 DEF ProcTypes, WorldTypes, Index
  <1>4. UsesLock /\ Apart /\ NoStrays
    BY DEF UsesLock, Apart, NoStrays
  <1>5. Lock!Read = Absent
    BY DEF Lock!Read
  <1>. QED
    BY <1>1, <1>3, <1>4, <1>5, TypeParts DEF FileInv, AloneInv, WriterInv, Writing

\* Every step keeps the invariants.
LEMMA StepInv ==
    ASSUME FileInv, [Next]_vars
    PROVE  /\ FileInv' /\ (AloneInv => AloneInv') /\ (OneWriter /\ WriterInv => WriterInv')
  <1>1. CASE World \/ UNCHANGED vars
    BY <1>1, WorldSteps, WorldAloneInv, WorldWriterInv
  <1>2. ASSUME NEW p \in Procs, Start(p) \/ Step(p) \/ Crash(p)
        PROVE  /\ FileInv' /\ (AloneInv => AloneInv') /\ (OneWriter /\ WriterInv => WriterInv')
    BY <1>2, StepFileInv, StepAloneInv, StepWriterInv
  <1>. QED
    BY <1>1, <1>2 DEF Next, World

\* Both invariants hold for ever; the second is not needed for the first.
LEMMA FileInvariant == Spec => [](FileInv /\ AloneInv)
  <1>1. FileInv /\ AloneInv /\ [Next]_vars => (FileInv /\ AloneInv)'
    BY StepInv
  <1>. QED
    BY <1>1, InitInv, PTL DEF Spec

\* With one writer at a time it is never disturbed.
LEMMA WriterInvariant == ASSUME OneWriter PROVE Spec => [](FileInv /\ WriterInv)
  <1>1. FileInv /\ WriterInv /\ [Next]_vars => (FileInv /\ WriterInv)'
    BY StepInv
  <1>. QED
    BY <1>1, InitInv, PTL DEF Spec
-----------------------------------------------------------------------------
\* Every variable keeps its type, wherever builds overlap, fail or are killed.
THEOREM BuildTypeOK == Spec => []TypeOK
  BY FileInvariant, PTL DEF FileInv

\* For any number of builds, with --locked or without: one that succeeds and had
\* the package for itself leaves targets that were compiled against what
\* Rexy.lock says.
THEOREM SuccessAlwaysRecorded == Spec => []SuccessIsRecorded
  <1>1. AloneInv => SuccessIsRecorded
    BY DEF AloneInv, Recorded, SuccessIsRecorded
  <1>. QED
    BY <1>1, FileInvariant, PTL

\* A step keeps the pin of d, or brings or takes it.
Holds(d) == NoPin \in {Pinned(d), Pinned(d)'} \/ Pinned(d)' = Pinned(d)

\* As long as Rexy.lock is not written it keeps its pins; deleted it has none.
LEMMA UnwrittenHolds ==
    ASSUME Lock!Read' = Lock!Read \/ Lock!Read' = Absent, NEW d \in GitDeps
    PROVE  Holds(d)
  <1>1. CASE Lock!Read' = Lock!Read
    BY <1>1, ReadKept DEF Pinned, Holds
  <1>2. CASE Lock!Read' = Absent
    BY <1>2, TextAssumption DEF Pinned, Previous, NoPackage, Deps, Holds
  <1>. QED
    BY <1>1, <1>2

\* A rename replaces no pin that detect_drift compared with what is written.
LEMMA RenameHolds ==
    ASSUME FileInv, NEW p \in Procs, Readable, ~Drifted(Previous, fresh[p]),
           Lock!Read' = fresh[p], NEW d \in GitDeps
    PROVE  Holds(d)
  <1>1. fresh[p] \in Lockfile
    BY TypeParts DEF FileInv, ProcTypes
  <1>2. Pinned(d)' = fresh[p][d]
    BY <1>1, TextAssumption DEF Pinned, Readable, Previous
  <1>3. fresh[p][d] = NoPin \/ Previous[d] \in {NoPin, fresh[p][d]}
    BY DEF Drifted
  <1>. QED
    BY <1>2, <1>3 DEF Pinned, Holds

\* If only one process builds without --locked, no step replaces a pinned commit
\* by another: detect_drift of a build speaks of the file its rename replaces.
THEOREM PinsAlwaysHold == ASSUME OneWriter PROVE Spec => PinsHold
  <1>1. ASSUME FileInv, WriterInv, [Next]_vars, NEW d \in GitDeps PROVE Holds(d)
    <2>1. ASSUME NEW p \in Procs, Start(p) \/ Step(p) \/ Crash(p) PROVE Holds(d)
      <3>1. Writing(p) /\ Readable
        BY <1>1, TextAssumption DEF WriterInv, Readable
      <3>2. \/ Lock!Read' = Lock!Read
            \/ pc[p] = "save" /\ Lock!Read' = fresh[p]
        BY <1>1, <2>1, <3>1, StepWriting
      <3>. QED
        BY <1>1, <3>1, <3>2, UnwrittenHolds, RenameHolds DEF WriterInv
    <2>2. CASE World \/ UNCHANGED vars
      BY <1>1, <2>2, WorldSteps, UnwrittenHolds DEF lockVars, Lock!Read
    <2>. QED
      BY <1>1, <2>1, <2>2 DEF Next, World
  <1>2. FileInv /\ WriterInv /\ [Next]_vars => [\A d \in GitDeps : Holds(d)]_vars
    BY <1>1
  <1>. QED
    BY <1>2, WriterInvariant, PTL DEF Spec, PinsHold, Holds

\* FR-013 for any number of builds without --locked, after whatever histories: no
\* step replaces a pin while the build that started last has the package for itself.
PinsHoldAlone ==
    [][alone # {} => \A d \in GitDeps :
          NoPin \in {Pinned(d), Pinned(d)'} \/ Pinned(d)' = Pinned(d)]_vars

\* Builds that do not overlap never replace a pin, even where earlier ones did and
\* left a garbled lockfile; not only one process may write it.
THEOREM PinsAlwaysHoldAlone == Spec => PinsHoldAlone
  <1>1. ASSUME FileInv, AloneInv, [Next]_vars, alone # {}, NEW d \in GitDeps PROVE Holds(d)
    <2>1. ASSUME NEW p \in Procs, Start(p) \/ Step(p) \/ Crash(p) PROVE Holds(d)
      <3>1. CASE Stopped(p)
        <4>1. UNCHANGED lockVars
          BY <2>1, <3>1 DEF Stopped, Start, Step, ReadPins, Resolve, CheckDrift, CheckLocked,
                            Save, Check, Compile, Crash
        <4>. QED
          BY <4>1, UnwrittenHolds DEF lockVars, Lock!Read
      <3>2. CASE ~ Stopped(p)
        <4>1. p \in alone
          BY <1>1, <3>2, TypeParts DEF AloneInv, FileInv, WorldTypes
        <4>2. Writing(p) /\ Compared(p)
          BY <1>1, <4>1 DEF AloneInv
        <4>3. \/ Lock!Read' = Lock!Read
              \/ pc[p] = "save" /\ Lock!Read' = fresh[p]
          BY <1>1, <2>1, <4>2, StepWriting
        <4>. QED
          BY <1>1, <4>2, <4>3, UnwrittenHolds, RenameHolds DEF Compared
      <3>. QED
        BY <3>1, <3>2
    <2>2. CASE World \/ UNCHANGED vars
      BY <1>1, <2>2, WorldSteps, UnwrittenHolds DEF lockVars, Lock!Read
    <2>. QED
      BY <1>1, <2>1, <2>2 DEF Next, World
  <1>2. FileInv /\ AloneInv /\ [Next]_vars => [alone # {} => \A d \in GitDeps : Holds(d)]_vars
    BY <1>1
  <1>. QED
    BY <1>2, FileInvariant, PTL DEF Spec, PinsHoldAlone, Holds

\* In the calm at most one build is in atomic_write_text_file, and has there an
\* empty temporary file or a whole lockfile.
CalmWriter ==
    calm => /\ \A p, q \in Procs : at[p] # "out" /\ at[q] # "out" => p = q
            /\ \A p \in Procs :
                /\ at[p] = "write" => stream[p] = tmp /\ tmp # NoInode /\ data[tmp] = Empty
                /\ at[p] = "rename" => tmp # NoInode /\ data[tmp] \in Lockfile

\* No step of a build ends that.
LEMMA StepCalmWriter ==
    ASSUME FileInv, CalmWriter, Lock!FileWhole, NEW p \in Procs, Start(p) \/ Step(p) \/ Crash(p)
    PROVE  CalmWriter' /\ Lock!FileWhole'
  <1> USE DEF CalmWriter, Lock!FileWhole
  <1>0. /\ Lock!TypeOK /\ Apart /\ NoStrays /\ fresh[p] \in Lockfile
        /\ stream[p] # NoInode => at[p] = "write"
    BY TypeParts DEF FileInv, ProcTypes, UsesLock
  <1> USE DEF Lock!TypeOK
  <1>1. CASE UNCHANGED lockVars
    BY <1>1 DEF lockVars, Lock!Read
  <1>2. CASE Lock!Open(p)
    <2>1. (calm' => calm /\ Lock!Alone) /\ at[p] = "out"
      BY <1>2, Zenon DEF Lock!Open
    <2>2. /\ Lock!Read' = Lock!Read /\ at' = [at EXCEPT ![p] = "write"]
          /\ stream' = [stream EXCEPT ![p] = tmp']
          /\ tmp' # NoInode /\ data'[tmp'] = Empty
      BY <1>0, <1>2, <2>1, Opens, InodeAssumption
    <2>. QED
      BY <1>0, <2>1, <2>2 DEF Lock!Alone
  <1>3. CASE Lock!Write(p, fresh[p])
    <2>1. /\ calm' = calm /\ at[p] = "write" /\ at' = [at EXCEPT ![p] = "rename"] /\ tmp' = tmp
          /\ calm => Lock!Read' = Lock!Read /\ data'[tmp] = fresh[p]
      BY <1>0, <1>3, Writes DEF Lock!Write
    <2>. QED
      BY <1>0, <2>1
  <1>4. CASE Lock!Rename(p)
    <2>1. /\ calm' = calm /\ at[p] = "rename" /\ at' = [at EXCEPT ![p] = "out"]
          /\ Lock!Read' = data[tmp]
      BY <1>0, <1>4, Renames DEF Lock!Rename
    <2>. QED
      BY <1>0, <2>1
  <1>5. CASE Lock!Abandon(p)
    <2>1. /\ calm' = calm /\ at' = [at EXCEPT ![p] = "out"] /\ tmp' = tmp
          /\ stream' = [stream EXCEPT ![p] = NoInode]
          /\ tmp # NoInode => data'[tmp] = data[tmp]
          /\ Lock!Read' = Lock!Read
      BY <1>0, <1>5, Abandons DEF Lock!Abandon
    <2>. QED
      BY <1>0, <2>1
  <1>. QED
    BY <1>1, <1>2, <1>3, <1>4, <1>5, FileSteps

\* As long as no two builds write at once, whoever reads Rexy.lock finds no file or
\* one whole lockfile, wherever builds are killed.
THEOREM LockfileAlwaysWhole == Spec => []Lock!FileWhole
  <1>1. Init => CalmWriter /\ Lock!FileWhole
    BY DEF Init, Lock!Init, CalmWriter, Lock!FileWhole, Lock!Read
  <1>2. FileInv /\ CalmWriter /\ Lock!FileWhole /\ [Next]_vars => CalmWriter' /\ Lock!FileWhole'
    <2>1. ASSUME CalmWriter, Lock!FileWhole, UNCHANGED lockVars
          PROVE  CalmWriter' /\ Lock!FileWhole'
      BY <2>1 DEF lockVars, CalmWriter, Lock!FileWhole, Lock!Read
    <2>2. ASSUME FileInv, CalmWriter, Lock!FileWhole, World PROVE CalmWriter' /\ Lock!FileWhole'
      <3>1. /\ at' = at /\ stream' = stream
            /\ tmp' = tmp /\ (tmp # NoInode => data'[tmp] = data[tmp])
            /\ UNCHANGED lockVars \/ (Lock!Unlink /\ Lock!Read' = Absent)
        BY <2>2, WorldSteps
      <3>2. CASE Lock!Unlink /\ Lock!Read' = Absent
        <4>1. calm' = calm
          BY <3>2 DEF Lock!Unlink
        <4>2. CalmWriter'
          BY <2>2, <3>1, <4>1 DEF CalmWriter
        <4>3. Lock!FileWhole'
          BY <3>2 DEF Lock!FileWhole
        <4>. QED
          BY <4>2, <4>3
      <3>. QED
        BY <2>1, <2>2, <3>1, <3>2
    <2>. QED
      BY <2>1, <2>2, StepCalmWriter DEF Next, World, vars
  <1>. QED
    BY <1>1, <1>2, FileInvariant, PTL DEF Spec
=============================================================================
