------------------------ MODULE RxyBuildScriptProofs ------------------------
(***************************************************************************)
(* Proofs about RxyBuildScript, for any number of builds, files, texts and  *)
(* environments.  CacheIsFresh is an action property: what makes it hold is *)
(* an invariant that ties the cached output to the sources and to the files *)
(* newer than it (SourcesCached), and to the recorded environment           *)
(* (EnvCached), as long as the history is orderly; a build that compares     *)
(* with an earlier output misses no newer file (CutoffHolds), and one that  *)
(* has decided to use the cache is still right when it reads it             *)
(* (DecisionHolds).                                                         *)
(***************************************************************************)
EXTENDS RxyBuildScript, TLAPS

\* The environment a build of p depends on.
EnvOf(p) == IF DeclaresEnv THEN env[p] ELSE NoEnv

\* A build that ran its script knows what it read, and every file whose text
\* changed since.
Evidence ==
    \A p \in Procs : pc[p] \in {"detect", "persist"} =>
        /\ read[p] \in Reading /\ read[p].env = EnvOf(p)
        /\ \A f \in Reads : src[f] # read[p].files[f] => f \in touched[p]

\* Between the check for mutations and writing the output, nothing was edited.
Unmutated == orderly => \A p \in Procs : pc[p] = "persist" => touched[p] = {}

\* The cached output was computed from the present text of every file that is
\* there and not newer.
SourcesCached ==
    orderly /\ output # None =>
        \A f \in Reads : src[f] = Gone \/ f \in newer \/ src[f] = output.files[f]

\* One build at most writes the pair of files of a cache entry, and outside of
\* that they agree on the environment.
EnvCached ==
    orderly =>
        /\ \A p, q \in Procs : pc[p] = "invoke" /\ pc[q] = "invoke" => p = q
        /\ \A p \in Procs : pc[p] = "invoke" => output.env = EnvOf(p)
        /\ output # None /\ (\A p \in Procs : pc[p] # "invoke") =>
             invoked # None /\ output.env = (IF DeclaresEnv THEN invoked ELSE NoEnv)

\* A build that compares counts every file newer than the output as newer, even
\* if the output was replaced after it took its time.
CutoffHolds ==
    \A p \in Procs : pc[p] = "compare" => newer \subseteq touched[p] /\ output # None

IInv == TypeOK /\ Evidence /\ Unmutated /\ SourcesCached /\ EnvCached /\ CutoffHolds

\* Whether a decision to use the cache says something of what the script reads:
\* a missing file is noticed, or none is missing.
Telling(p) == (Watched # {} /\ MissingIsNewer) \/ NothingMissing(p)

\* From the decision to the reading, the output is what the script would have
\* read at some moment in between.
DecisionHolds ==
    orderly => \A p \in Procs : pc[p] = "use" =>
        /\ \A v \in valid[p] : v.env = EnvOf(p)
        /\ Now(p) \in valid[p]
        /\ Telling(p) => output \in valid[p]
-----------------------------------------------------------------------------
\* What a script reads now is a reading, of the present texts and environment.
LEMMA NowReads ==
  ASSUME TypeOK, NEW p \in Procs
  PROVE  /\ Now(p) \in Reading /\ Now(p).env = EnvOf(p)
         /\ \A f \in Reads : Now(p).files[f] = src[f]
  <1>1. Reads \subseteq Files
    BY FileAssumption DEF Reads
  <1>2. [f \in Reads |-> src[f]] \in [Reads -> Texts \cup {Gone}]
    BY <1>1 DEF TypeOK
  <1>3. EnvOf(p) \in EnvValues \cup {NoEnv}
    BY DEF TypeOK, EnvOf
  <1>. QED
    BY <1>2, <1>3 DEF Now, Reading, EnvOf

\* Nothing is cached and no build runs at first.
LEMMA InitIInv == Init => IInv
  BY DEF Init, IInv, TypeOK, Evidence, Unmutated, SourcesCached, EnvCached, CutoffHolds

\* Every step keeps the types.
LEMMA StepTypes == IInv /\ [Next]_vars => TypeOK'
  <1> SUFFICES ASSUME IInv, [Next]_vars PROVE TypeOK'
    OBVIOUS
  <1> USE DEF IInv, TypeOK, Goto, Leave, Throw, cacheVars
  <1>1. ASSUME NEW p \in Procs, Start(p) PROVE TypeOK'
    BY <1>1 DEF Start
  <1>2. ASSUME NEW p \in Procs, Compare(p) PROVE TypeOK'
    <2>1. orderly' \in BOOLEAN
      BY <1>2, Zenon DEF Compare
    <2>2. Now(p) \in Reading
      BY NowReads
    <2>. QED
      BY <1>2, <2>1, <2>2 DEF Compare
  <1>3. ASSUME NEW p \in Procs,
               Examine(p) \/ UseCache(p) \/ Compile(p) \/ Snapshot(p) \/ Detect(p)
        PROVE  TypeOK'
    BY <1>3 DEF Examine, UseCache, Compile, Snapshot, Detect
  <1>4. ASSUME NEW p \in Procs, RunScript(p) PROVE TypeOK'
    BY <1>4, NowReads DEF RunScript
  <1>5. ASSUME NEW p \in Procs, Persist(p) PROVE TypeOK'
    <2>1. orderly' \in BOOLEAN
      BY <1>5, Zenon DEF Persist
    <2>. QED
      BY <1>5, <2>1 DEF Persist
  <1>6. ASSUME NEW p \in Procs, Invoke(p) PROVE TypeOK'
    BY <1>6 DEF Invoke
  <1>7. ASSUME NEW p \in Procs, Crash(p) PROVE TypeOK'
    <2>1. orderly' \in BOOLEAN
      BY <1>7, Zenon DEF Crash
    <2>. QED
      BY <1>7, <2>1 DEF Crash
  <1>8. ASSUME NEW f \in Files, NEW t \in Texts \cup {Gone}, Change(f, t),
               newer' \in {newer \cup {f}, newer \ {f}}
        PROVE  TypeOK'
    <2>1. orderly' \in BOOLEAN
      BY <1>8, Zenon DEF Change
    <2>2. src' \in [Files -> Texts \cup {Gone}]
      BY <1>8 DEF Change
    <2>3. ASSUME NEW p \in Procs PROVE Now(p)' \in Reading
      <3>1. [f0 \in Reads |-> src'[f0]] \in [Reads -> Texts \cup {Gone}]
        BY <2>2, FileAssumption DEF Reads
      <3>2. env' = env
        BY <1>8 DEF Change
      <3>. QED
        BY <3>1, <3>2 DEF Now, Reading
    <2>4. valid' \in [Procs -> SUBSET Reading]
      BY <1>8, <2>3 DEF Change
    <2>. QED
      BY <1>8, <2>1, <2>2, <2>4 DEF Change
  <1>9. CASE UNCHANGED vars
    BY <1>9 DEF vars, procVars
  <1>. QED
    BY <1>1, <1>2, <1>3, <1>4, <1>5, <1>6, <1>7, <1>8, <1>9 DEF Next, Step, Edit, Delete

\* What a build read stays known while the author edits.
LEMMA StepEvidence == IInv /\ [Next]_vars => Evidence'
  <1> SUFFICES ASSUME IInv, [Next]_vars PROVE Evidence'
    OBVIOUS
  <1> USE DEF IInv, TypeOK, Evidence, EnvOf, Goto, Leave, Throw
  <1>1. ASSUME NEW p \in Procs, Start(p) PROVE Evidence'
    BY <1>1 DEF Start
  <1>2. ASSUME NEW p \in Procs, Examine(p) \/ Compare(p) \/ UseCache(p) \/ Compile(p)
                                   \/ Snapshot(p) \/ Detect(p)
        PROVE  Evidence'
    BY <1>2 DEF Examine, Compare, UseCache, Compile, Snapshot, Detect
  <1>3. ASSUME NEW p \in Procs, RunScript(p) PROVE Evidence'
    BY <1>3, NowReads DEF RunScript
  <1>4. ASSUME NEW p \in Procs, Persist(p) \/ Invoke(p) \/ Crash(p) PROVE Evidence'
    BY <1>4 DEF Persist, Invoke, Crash
  <1>5. ASSUME NEW f \in Files, NEW t \in Texts \cup {Gone}, Change(f, t) PROVE Evidence'
    <2>1. ASSUME NEW g \in Reads PROVE src'[g] = src[g] \/ g = f
      BY <1>5, <2>1, FileAssumption DEF Change, Reads
    <2>. QED
      BY <1>5, <2>1 DEF Change
  <1>6. CASE UNCHANGED vars
    BY <1>6 DEF vars, procVars
  <1>. QED
    BY <1>1, <1>2, <1>3, <1>4, <1>5, <1>6 DEF Next, Step, Edit, Delete

\* A build gets to persist only unmutated, and an edit there is not orderly.
LEMMA StepUnmutated == IInv /\ [Next]_vars => Unmutated'
  <1> SUFFICES ASSUME IInv, [Next]_vars PROVE Unmutated'
    OBVIOUS
  <1> USE DEF IInv, TypeOK, Unmutated, Goto, Leave, Throw
  <1>1. ASSUME NEW p \in Procs, Start(p) \/ Step(p) \/ Crash(p) PROVE Unmutated'
    BY <1>1 DEF Start, Step, Examine, Compare, UseCache, Compile, Snapshot, RunScript, Detect,
       Persist, Invoke, Crash
  <1>2. ASSUME NEW f \in Files, NEW t \in Texts \cup {Gone}, Change(f, t) PROVE Unmutated'
    BY <1>2 DEF Change
  <1>3. CASE UNCHANGED vars
    BY <1>3 DEF vars, procVars
  <1>. QED
    BY <1>1, <1>2, <1>3 DEF Next, Edit, Delete

\* An edit makes the file newer than the output, and an output is written from
\* the present texts.
LEMMA StepSourcesCached == IInv /\ [Next]_vars => SourcesCached'
  <1> SUFFICES ASSUME IInv, [Next]_vars PROVE SourcesCached'
    OBVIOUS
  <1> USE DEF IInv, TypeOK, SourcesCached
  <1>1. ASSUME NEW p \in Procs,
               \/ Start(p) \/ Examine(p) \/ Compare(p) \/ UseCache(p) \/ Compile(p)
               \/ Snapshot(p) \/ RunScript(p) \/ Detect(p) \/ Invoke(p) \/ Crash(p)
        PROVE  SourcesCached'
    BY <1>1 DEF Start, Examine, Compare, UseCache, Compile, Snapshot, RunScript, Detect, Invoke, Crash, cacheVars
  <1>2. ASSUME NEW p \in Procs, Persist(p) PROVE SourcesCached'
    BY <1>2 DEF Persist, Unmutated, Evidence
  <1>3. ASSUME NEW f \in Files, \/ Delete(f) \/ \E t \in Texts : Edit(f, t)
        PROVE  SourcesCached'
    <2>1. PICK t \in Texts \cup {Gone} : Change(f, t)
      BY <1>3 DEF Edit, Delete
    <2>2. src'[f] = Gone \/ f \in newer'
      BY <1>3 DEF Edit, Delete, Change
    <2>3. ASSUME NEW g \in Reads, g # f PROVE src'[g] = src[g] /\ (g \in newer => g \in newer')
      BY <1>3, <2>1, <2>3, FileAssumption DEF Edit, Delete, Change, Reads
    <2>. QED
      BY <2>1, <2>2, <2>3 DEF Change, cacheVars
  <1>4. CASE UNCHANGED vars
    BY <1>4 DEF vars, cacheVars
  <1>. QED
    BY <1>1, <1>2, <1>3, <1>4 DEF Next, Step

\* A second writer, or one that dies between the files, is not orderly.
LEMMA StepEnvCached == IInv /\ [Next]_vars => EnvCached'
  <1> SUFFICES ASSUME IInv, [Next]_vars PROVE EnvCached'
    OBVIOUS
  <1> USE DEF IInv, TypeOK, EnvCached, EnvOf, Goto, Leave, Throw, cacheVars
  <1>1. ASSUME NEW p \in Procs, Start(p) PROVE EnvCached'
    BY <1>1 DEF Start
  <1>2. ASSUME NEW p \in Procs,
               Examine(p) \/ Compare(p) \/ UseCache(p) \/ Compile(p) \/ Snapshot(p)
               \/ RunScript(p) \/ Detect(p)
        PROVE  EnvCached'
    <2>1. CASE Examine(p) \/ Compare(p) \/ UseCache(p)
      BY <2>1 DEF Examine, Compare, UseCache
    <2>2. CASE Compile(p)
      BY <2>2 DEF Compile
    <2>3. CASE Snapshot(p)
      BY <2>3 DEF Snapshot
    <2>4. CASE RunScript(p)
      BY <2>4 DEF RunScript
    <2>5. CASE Detect(p)
      BY <2>5 DEF Detect
    <2>. QED
      BY <1>2, <2>1, <2>2, <2>3, <2>4, <2>5
  <1>3. ASSUME NEW p \in Procs, Persist(p) PROVE EnvCached'
    <2>1. orderly' => orderly /\ \A q \in Procs \ {p} : pc[q] # "invoke"
      BY <1>3, Zenon DEF Persist, HalfWritten
    <2>2. read[p].env = EnvOf(p)
      BY <1>3 DEF Persist, Evidence
    <2>. QED
      BY <1>3, <2>1, <2>2 DEF Persist
  <1>4. ASSUME NEW p \in Procs, Invoke(p) PROVE EnvCached'
    BY <1>4, EnvAssumption DEF Invoke
  <1>5. ASSUME NEW p \in Procs, Crash(p) PROVE EnvCached'
    BY <1>5 DEF Crash
  <1>6. ASSUME NEW f \in Files, NEW t \in Texts \cup {Gone}, Change(f, t) PROVE EnvCached'
    BY <1>6 DEF Change
  <1>7. CASE UNCHANGED vars
    BY <1>7 DEF vars, procVars
  <1>. QED
    BY <1>1, <1>2, <1>3, <1>4, <1>5, <1>6, <1>7 DEF Next, Step, Edit, Delete

\* A new output leaves no file newer, and an edit counts for both.
LEMMA StepCutoffHolds == IInv /\ [Next]_vars => CutoffHolds'
  <1> SUFFICES ASSUME IInv, [Next]_vars PROVE CutoffHolds'
    OBVIOUS
  <1> USE DEF IInv, TypeOK, CutoffHolds, Goto, Leave, Throw, cacheVars
  <1>1. ASSUME NEW p \in Procs,
               \/ Start(p) \/ Examine(p) \/ Compare(p) \/ UseCache(p) \/ Compile(p) \/ Snapshot(p)
               \/ RunScript(p) \/ Detect(p) \/ Invoke(p) \/ Crash(p)
        PROVE  CutoffHolds'
    BY <1>1 DEF Start, Examine, Compare, UseCache, Compile, Snapshot, RunScript, Detect, Invoke,
       Crash
  <1>2. ASSUME NEW p \in Procs, Persist(p) PROVE CutoffHolds'
    BY <1>2, NoneAssumption DEF Persist, Evidence
  <1>3. ASSUME NEW f \in Files, \/ Delete(f) \/ \E t \in Texts : Edit(f, t)
        PROVE  CutoffHolds'
    BY <1>3 DEF Delete, Edit, Change
  <1>4. CASE UNCHANGED vars
    BY <1>4 DEF vars, procVars
  <1>. QED
    BY <1>1, <1>2, <1>3, <1>4 DEF Next, Step

\* The invariant holds in every reachable state.
LEMMA Inductive == Spec => []IInv
  <1>1. IInv /\ [Next]_vars => IInv'
    BY StepTypes, StepEvidence, StepUnmutated, StepSourcesCached, StepEnvCached, StepCutoffHolds
    DEF IInv
  <1>. QED
    BY <1>1, InitIInv, PTL DEF Spec

\* The types, in particular that the cached output is a whole reading: never
\* what a failed script printed.
THEOREM ScriptTypeOK == Spec => []TypeOK
  BY Inductive, PTL DEF IInv

\* A reading of the present texts in the present environment is what the script
\* would read now.
LEMMA SameReading ==
  ASSUME TypeOK, NEW p \in Procs, NEW r \in Reading, r.env = EnvOf(p),
         \A f \in Reads : src[f] = r.files[f]
  PROVE  r = Now(p)
  <1>1. r.files = [f \in Reads |-> src[f]]
    BY DEF Reading
  <1>2. r = [files |-> r.files, env |-> r.env]
    BY DEF Reading
  <1>. QED
    BY <1>1, <1>2 DEF Now, EnvOf

\* An orderly persist writes what the script would print now.
LEMMA PersistsNow ==
  ASSUME IInv, NEW p \in Procs, Persist(p), orderly
  PROVE  output' = Now(p)
  <1>1. touched[p] = {} /\ read[p] \in Reading /\ read[p].env = EnvOf(p)
    BY DEF IInv, Unmutated, Evidence, Persist
  <1>2. \A f \in Reads : src[f] = read[p].files[f]
    BY <1>1 DEF IInv, Evidence, Persist
  <1>. QED
    BY <1>1, <1>2, SameReading DEF IInv, Persist

\* An orderly decision to use the cache is right at that moment.
LEMMA DecidesRightly ==
  ASSUME IInv, NEW p \in Procs, Compare(p), ~NeedsRerun(p), orderly',
         (Watched # {} /\ MissingIsNewer) \/ \A f \in Reads : src[f] # Gone
  PROVE  output = Now(p)
  <1>1. orderly /\ ~HalfWritten(p) /\ pc[p] = "compare"
    BY Zenon DEF Compare
  <1>2. output # None /\ newer \subseteq touched[p] /\ \A q \in Procs : pc[q] # "invoke"
    BY <1>1 DEF IInv, CutoffHolds, HalfWritten
  <1>3. invoked # None /\ output.env = (IF DeclaresEnv THEN invoked ELSE NoEnv)
    BY <1>1, <1>2 DEF IInv, EnvCached
  <1>4. output \in Reading /\ output.env = EnvOf(p)
    BY <1>2, <1>3 DEF IInv, TypeOK, NeedsRerun, EnvOf
  <1>5. \A f \in Reads : src[f] = Gone \/ f \in newer \/ src[f] = output.files[f]
    BY <1>1, <1>2 DEF IInv, SourcesCached
  <1>6. \A f \in Reads : src[f] # Gone /\ f \notin newer
    BY <1>2, <1>3, FileAssumption
    DEF IInv, TypeOK, NeedsRerun, SourcesNewer, WatchedIsNewer, Newer, Reads
  <1>. QED
    BY <1>4, <1>5, <1>6, SameReading DEF IInv

\* What the script reads does not depend on the control points.
LEMMA SameNow ==
  ASSUME NEW p \in Procs, UNCHANGED src, env'[p] = env[p]
  PROVE  Now(p)' = Now(p) /\ EnvOf(p)' = EnvOf(p)
  BY DEF Now, EnvOf

\* A decision to use the cache stays right until the output is read: an edit
\* adds a moment, and only an output of the same environment may replace it.
LEMMA StepDecisionHolds == IInv /\ DecisionHolds /\ [Next]_vars => DecisionHolds'
  <1> SUFFICES ASSUME IInv, DecisionHolds, [Next]_vars, orderly',
                      NEW p \in Procs, pc'[p] = "use"
               PROVE  /\ \A v \in valid'[p] : v.env = EnvOf(p)'
                      /\ Now(p)' \in valid'[p]
                      /\ Telling(p)' => output' \in valid'[p]
    BY DEF DecisionHolds
  <1> USE DEF IInv, TypeOK, Goto, Leave, Throw, cacheVars
  <1>1. ASSUME NEW q \in Procs,
               \/ Start(q) \/ Examine(q) \/ UseCache(q) \/ Compile(q) \/ Snapshot(q)
               \/ RunScript(q) \/ Detect(q) \/ Invoke(q) \/ Crash(q)
        PROVE  /\ orderly /\ pc[p] = "use" /\ valid'[p] = valid[p]
               /\ UNCHANGED <<src, output>> /\ env'[p] = env[p]
    BY <1>1 DEF Start, Examine, UseCache, Compile, Snapshot, RunScript, Detect, Invoke, Crash
  <1>2. ASSUME /\ orderly /\ pc[p] = "use" /\ valid'[p] = valid[p]
               /\ UNCHANGED <<src, output>> /\ env'[p] = env[p]
        PROVE  /\ \A v \in valid'[p] : v.env = EnvOf(p)'
               /\ Now(p)' \in valid'[p]
               /\ Telling(p)' => output' \in valid'[p]
    BY <1>2, SameNow DEF DecisionHolds, Telling, NothingMissing
  <1>3. ASSUME NEW q \in Procs, Compare(q), q # p
        PROVE  /\ orderly /\ pc[p] = "use" /\ valid'[p] = valid[p]
               /\ UNCHANGED <<src, output>> /\ env'[p] = env[p]
    BY <1>3, Zenon DEF Compare
  <1>4. ASSUME Compare(p)
        PROVE  /\ \A v \in valid'[p] : v.env = EnvOf(p)'
               /\ Now(p)' \in valid'[p]
               /\ Telling(p)' => output' \in valid'[p]
    <2>1. ~NeedsRerun(p) /\ valid'[p] = {Now(p)} /\ UNCHANGED <<src, env, output>>
      BY <1>4 DEF Compare
    <2>2. Now(p).env = EnvOf(p) /\ \A f \in Reads : Now(p).files[f] = src[f]
      BY NowReads
    <2>3. Now(p)' = Now(p) /\ EnvOf(p)' = EnvOf(p)
      BY <2>1, SameNow
    <2>4. Telling(p)' => output = Now(p)
      BY <1>4, <2>1, <2>2, DecidesRightly DEF Telling, NothingMissing
    <2>. QED
      BY <2>1, <2>2, <2>3, <2>4
  <1>5. ASSUME NEW q \in Procs, Persist(q)
        PROVE  /\ \A v \in valid'[p] : v.env = EnvOf(p)'
               /\ Now(p)' \in valid'[p]
               /\ Telling(p)' => output' \in valid'[p]
    <2>1. orderly /\ ~ReadElsewhere(q)
      BY <1>5, Zenon DEF Persist
    <2>2. pc[p] = "use" /\ p # q /\ valid' = valid /\ UNCHANGED <<src, env>>
      BY <1>5 DEF Persist
    <2>3. Now(p) = Now(q)
      BY <2>1, <2>2 DEF ReadElsewhere, Now
    <2>4. output' = Now(p)
      BY <1>5, <2>1, <2>3, PersistsNow
    <2>5. Now(p)' = Now(p) /\ EnvOf(p)' = EnvOf(p)
      BY <2>2, SameNow
    <2>. QED
      BY <2>1, <2>2, <2>4, <2>5 DEF DecisionHolds
  <1>6. ASSUME NEW f \in Files, NEW t \in Texts \cup {Gone}, Change(f, t)
        PROVE  /\ \A v \in valid'[p] : v.env = EnvOf(p)'
               /\ Now(p)' \in valid'[p]
               /\ Telling(p)' => output' \in valid'[p]
    <2>1. /\ orderly /\ pc[p] = "use" /\ UNCHANGED <<output, env>>
          /\ valid'[p] = valid[p] \cup {Now(p)'}
      BY <1>6, Zenon DEF Change
    <2>2. Now(p)'.env = EnvOf(p)' /\ EnvOf(p)' = EnvOf(p)
      BY <2>1 DEF Now, EnvOf
    <2>3. Telling(p)' => Telling(p)
      BY <2>1 DEF Telling, NothingMissing
    <2>. QED
      BY <2>1, <2>2, <2>3 DEF DecisionHolds
  <1>7. CASE UNCHANGED vars
    BY <1>2, <1>7 DEF vars, procVars
  <1>. QED
    BY <1>1, <1>2, <1>3, <1>4, <1>5, <1>6, <1>7 DEF Next, Step, Edit, Delete

\* A decision to use the cache is right whenever the output is read.
LEMMA Decided == Spec => [](IInv /\ DecisionHolds)
  <1>1. Init => DecisionHolds
    BY DEF Init, DecisionHolds
  <1>. QED
    BY <1>1, InitIInv, StepDecisionHolds, Inductive, PTL DEF Spec

\* Reading the output is an action of its own and changes nothing of it.
LEMMA OnlyUseCache ==
  ASSUME IInv, Next, NEW p \in Procs, orderly', pc[p] = "use", pc'[p] = "done"
  PROVE  orderly
  <1> USE DEF IInv, TypeOK, Goto, Leave, Throw
  <1>1. ASSUME NEW q \in Procs, Start(q) \/ Step(q) \/ Crash(q) PROVE orderly
    BY <1>1, Zenon DEF Start, Step, Examine, Compare, UseCache, Compile, Snapshot, RunScript,
       Detect, Persist, Invoke, Crash
  <1>2. ASSUME NEW f \in Files, NEW t \in Texts \cup {Gone}, Change(f, t) PROVE orderly
    BY <1>2, Zenon DEF Change
  <1>. QED
    BY <1>1, <1>2 DEF Next, Edit, Delete

\* CacheIsFresh, for any builds, sources, watch list, environments and clock: in
\* an orderly history, and while none of the files the script reads is missing,
\* the directives taken from the cache are what the script would have printed at
\* some moment between the decision to use them and the reading of `output`.
THEOREM CachedDirectivesAreFresh == Spec => CacheIsFresh
  <1>1. IInv /\ DecisionHolds /\ [Next]_vars
          => [\A p \in Procs : orderly' /\ pc[p] = "use" /\ pc'[p] = "done" /\ NothingMissing(p)
                               => output \in valid[p]]_vars
    BY OnlyUseCache DEF DecisionHolds, Telling
  <1>. QED
    BY <1>1, Decided, PTL DEF Spec, CacheIsFresh

\* The same even while files are missing, for a script that names the files it
\* reads, where the time of a missing file lies in the future (libstdc++).
\* Neither hypothesis can be dropped: under the default policy, and under a clock
\* whose epoch lies in the past, a deleted file goes unnoticed.
THEOREM DeletionIsNoticed ==
  ASSUME Watched # {}, MissingIsNewer
  PROVE  Spec => [][\A p \in Procs : orderly' /\ pc[p] = "use" /\ pc'[p] = "done"
                                     => output \in valid[p]]_vars
  <1>1. IInv /\ DecisionHolds /\ [Next]_vars
          => [\A p \in Procs : orderly' /\ pc[p] = "use" /\ pc'[p] = "done"
                               => output \in valid[p]]_vars
    BY OnlyUseCache DEF DecisionHolds, Telling
  <1>. QED
    BY <1>1, Decided, PTL DEF Spec

\* What goes into the cache is what the script would print of the sources as
\* they are at that moment, not as they were when it ran, whichever builds share
\* the entry and however many of them run at once: every file that changed
\* meanwhile would have been found (detect_source_mutation), even one that was
\* changed back.
THEOREM CacheIsWrittenFresh ==
  Spec => [][orderly /\ output' # output =>
               \E p \in Procs : pc[p] = "persist" /\ output' = Now(p)]_vars
  <1>1. ASSUME IInv, Next, orderly, output' # output
        PROVE  \E p \in Procs : pc[p] = "persist" /\ output' = Now(p)
    <2>1. PICK p \in Procs : Persist(p)
      BY <1>1 DEF Next, Start, Step, Crash, Examine, Compare, UseCache, Compile, Snapshot,
         RunScript, Detect, Invoke, Edit, Delete, Change, cacheVars
    <2>. QED
      BY <1>1, <2>1, PersistsNow DEF Persist
  <1>2. IInv /\ [Next]_vars
          => [orderly /\ output' # output =>
                \E p \in Procs : pc[p] = "persist" /\ output' = Now(p)]_vars
    BY <1>1
  <1>. QED
    BY <1>2, Inductive, PTL DEF Spec
=============================================================================
