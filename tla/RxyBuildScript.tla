--------------------------- MODULE RxyBuildScript ---------------------------
(***************************************************************************)
(* The build script of one package: when rxy runs it again, what it caches  *)
(* (output and invoked.toml in target/build/<name>-<hash>/) and whether a   *)
(* build may be handed the cached directives, while its author edits the    *)
(* sources and builds fail, are killed or run side by side.  Translated     *)
(* from run_for and needs_rerun of rxy/build_script/build_script.cpp, for   *)
(* one cache key.                                                           *)
(*                                                                         *)
(* Modification times are compared with that of `output` only, so the model *)
(* keeps the set of files that are newer than it.                           *)
(***************************************************************************)
EXTENDS FiniteSets

CONSTANTS
    Procs,
    Files, Texts, Gone,     \* the sources and what may be in them
    Watched,                \* what the script names in rerun-if-changed
    EnvValues, NoEnv,       \* of the variable it names in rerun-if-env-changed,
    DeclaresEnv,            \*   if it names one
    None,                   \* no file
    MissingIsNewer          \* file_time_type{}, the time of a file that does not
                            \*   exist, lies in the future (libstdc++)

ASSUME FileAssumption   == Watched \subseteq Files /\ Gone \notin Texts
ASSUME EnvAssumption    == NoEnv \notin EnvValues /\ None \notin EnvValues \cup {NoEnv}
ASSUME SwitchAssumption == {DeclaresEnv, MissingIsNewer} \subseteq BOOLEAN

VARIABLES
    src,        \* [Files -> text or Gone]
    newer,      \* the files modified after `output` was written
    output,     \* None, or what the cached stdout was computed from
    invoked,    \* None, or the environment recorded in invoked.toml
    pc, env,    \* per process: control point, its environment
    touched,    \* files changed since its snapshot; before that, files newer
                \*   than the output whose time it took
    read,       \* what its script run was computed from
    valid,      \* history: what the script would have read at any moment since
                \*   it decided to use the cache
    orderly     \* history: nothing came between the two files of a cache entry,
                \*   no edit between the mutation check and the first, and no
                \*   output of another environment between a build's decision
                \*   to use the cache and its reading of it

cacheVars == <<output, invoked>>
procVars  == <<pc, env, touched, read, valid>>
vars == <<src, newer, cacheVars, procVars, orderly>>

\* What a script reads: the files it watches (all, if it names none) and its
\* variable, if it names one.
Reads   == IF Watched = {} THEN Files ELSE Watched
Reading == [files : [Reads -> Texts \cup {Gone}], env : EnvValues \cup {NoEnv}]
ASSUME NoneAssumption == None \notin Reading
Now(p)  == [files |-> [f \in Reads |-> src[f]], env |-> IF DeclaresEnv THEN env[p] ELSE NoEnv]

TypeOK ==
    /\ src \in [Files -> Texts \cup {Gone}] /\ newer \subseteq Files
    /\ output \in Reading \cup {None}
    /\ invoked \in EnvValues \cup {NoEnv, None}
    /\ pc \in [Procs -> {"idle", "examine", "compare", "use", "compile", "snapshot", "running", "failed",
                         "detect", "persist", "invoke", "done"}]
    /\ env \in [Procs -> EnvValues]
    /\ touched \in [Procs -> SUBSET Files]
    /\ read \in [Procs -> Reading \cup {None}]
    /\ valid \in [Procs -> SUBSET Reading]
    /\ orderly \in BOOLEAN

Init ==
    /\ src \in [Files -> Texts] /\ newer = {}
    /\ output = None /\ invoked = None /\ orderly = TRUE
    /\ pc = [p \in Procs |-> "idle"] /\ env \in [Procs -> EnvValues]
    /\ touched = [p \in Procs |-> {}]
    /\ read = [p \in Procs |-> None] /\ valid = [p \in Procs |-> {}]

-----------------------------------------------------------------------------
Goto(p, l) == pc' = [pc EXCEPT ![p] = l]

\* Leaving run_for with directives ("done") or with an exception.
Leave(p, l) ==
    /\ Goto(p, l)
    /\ touched' = [touched EXCEPT ![p] = {}] /\ read' = [read EXCEPT ![p] = None]
    /\ valid' = [valid EXCEPT ![p] = {}]
Throw(p) == Leave(p, "idle")

\* Whether another build is between writing `output` and invoked.toml.
HalfWritten(p) == \E q \in Procs \ {p} : pc[q] = "invoke"

\* Whether another build, of another environment, has decided to use the output
\* and is about to read it.
ReadElsewhere(p) ==
    DeclaresEnv /\ \E q \in Procs \ {p} : pc[q] = "use" /\ env[q] # env[p]

Start(p) ==
    /\ pc[p] \in {"idle", "done"}
    /\ orderly      \* bound: afterwards only the running builds go on
    /\ \E e \in EnvValues : env' = [env EXCEPT ![p] = e]
    /\ Goto(p, "examine")
    /\ UNCHANGED <<src, newer, cacheVars, touched, read, valid, orderly>>

\* needs_rerun, first: without an output it runs; otherwise the time of output
\* is the cutoff that the sources are compared with from now on.
Examine(p) ==
    /\ pc[p] = "examine"
    /\ \/ /\ output = None /\ Goto(p, "compile") /\ UNCHANGED touched
       \/ /\ output # None /\ Goto(p, "compare")
          /\ touched' = [touched EXCEPT ![p] = newer]
    /\ UNCHANGED <<src, newer, cacheVars, env, read, valid, orderly>>

\* mtime_or_zero(f) > cutoff.
Newer(p, f) == IF src[f] = Gone THEN MissingIsNewer ELSE f \in touched[p]

\* The watch list is every quoted string from "rerun-if-changed = [" to the end
\* of invoked.toml, hence also the name and the value of a declared variable:
\* as a rule these name no file.
WatchedIsNewer(p) ==
    (\E f \in Watched : Newer(p, f)) \/ (DeclaresEnv /\ MissingIsNewer)

SourcesNewer(p) == IF invoked # None /\ Watched # {}
                   THEN WatchedIsNewer(p)
                   ELSE \E f \in touched[p] : src[f] # Gone

\* Mutant: the recorded environment is not compared.
NeedsRerunNoEnv(p) == SourcesNewer(p)

\* needs_rerun, then: the recorded environment and watch list count only where
\* invoked.toml exists; otherwise any newer file of the tree does.
NeedsRerun(p) == (invoked # None /\ DeclaresEnv /\ invoked # env[p]) \/ SourcesNewer(p)

Compare(p) ==
    /\ pc[p] = "compare"
    /\ \/ /\ ~NeedsRerun(p) /\ Goto(p, "use")
          /\ valid' = [valid EXCEPT ![p] = {Now(p)}]
       \/ NeedsRerun(p) /\ Goto(p, "compile") /\ UNCHANGED valid
    /\ orderly' = (orderly /\ ~HalfWritten(p))
    /\ UNCHANGED <<src, newer, cacheVars, env, touched, read>>

\* run_for reads `output`, whatever another build has made of it meanwhile.
UseCache(p) ==
    /\ pc[p] = "use" /\ Leave(p, "done")
    /\ UNCHANGED <<src, newer, cacheVars, env, orderly>>

\* rexc build.rx; then the fingerprints of the source tree.
Compile(p) ==
    /\ pc[p] = "compile"
    /\ \/ Goto(p, "snapshot") /\ UNCHANGED <<touched, read, valid>>
       \/ Throw(p)
    /\ UNCHANGED <<src, newer, cacheVars, env, orderly>>
Snapshot(p) ==
    /\ pc[p] = "snapshot" /\ Goto(p, "running")
    /\ touched' = [touched EXCEPT ![p] = {}]
    /\ UNCHANGED <<src, newer, cacheVars, env, read, valid, orderly>>

\* The script prints its directives, or exits with an error.
RunScript(p) ==
    /\ pc[p] = "running"
    /\ \/ /\ read' = [read EXCEPT ![p] = Now(p)]
          /\ Goto(p, "detect")
       \/ Goto(p, "failed") /\ UNCHANGED read
    /\ UNCHANGED <<src, newer, cacheVars, env, touched, valid, orderly>>

\* detect_source_mutation, then the exit code.
Detect(p) ==
    /\ pc[p] \in {"detect", "failed"}
    /\ \/ (touched[p] # {} \/ pc[p] = "failed") /\ Throw(p)
       \/ /\ touched[p] = {} /\ pc[p] = "detect"
          /\ Goto(p, "persist") /\ UNCHANGED <<touched, read, valid>>
    /\ UNCHANGED <<src, newer, cacheVars, env, orderly>>

\* atomic_write_text_file(output), then persist_invoked.
Persist(p) ==
    /\ pc[p] = "persist" /\ Goto(p, "invoke")
    /\ output' = read[p] /\ newer' = {}
    /\ orderly' = (orderly /\ ~HalfWritten(p) /\ ~ReadElsewhere(p))
    /\ UNCHANGED <<src, invoked, env, touched, read, valid>>
Invoke(p) ==
    /\ pc[p] = "invoke"
    /\ invoked' = IF DeclaresEnv THEN env[p] ELSE NoEnv
    /\ Leave(p, "done")
    /\ UNCHANGED <<src, newer, output, env, orderly>>

\* The build is killed.
Crash(p) == /\ pc[p] \notin {"idle", "done"} /\ Throw(p)
            /\ orderly' = (orderly /\ pc[p] # "invoke")
            /\ UNCHANGED <<src, newer, cacheVars, env>>

\* The author writes or deletes a file.
Change(f, t) ==
    /\ src[f] # t /\ src' = [src EXCEPT ![f] = t]
    /\ UNCHANGED <<cacheVars, pc, env, read>>
    /\ touched' = [p \in Procs |-> touched[p] \cup {f}]
    /\ valid' = [p \in Procs |-> IF pc[p] = "use" THEN valid[p] \cup {Now(p)'} ELSE valid[p]]
    /\ orderly' = (orderly /\ \A p \in Procs : pc[p] # "persist")
Edit(f, t) == Change(f, t) /\ newer' = newer \cup {f}
Delete(f)  == Change(f, Gone) /\ newer' = newer \ {f}

Step(p) == \/ Examine(p) \/ Compare(p) \/ UseCache(p)
           \/ Compile(p) \/ Snapshot(p) \/ RunScript(p) \/ Detect(p) \/ Persist(p) \/ Invoke(p)

Next == \/ \E p \in Procs : Start(p) \/ Step(p) \/ Crash(p)
        \/ \E f \in Files : Delete(f) \/ \E t \in Texts : Edit(f, t)

Spec == Init /\ [][Next]_vars
-----------------------------------------------------------------------------
\* The directives rxy takes from the cache are what the script would have printed
\* at some moment between the decision to use them and the reading: whatever was
\* edited, failed or killed since they were computed, and whichever builds of
\* other environments share the cache.  Of orderly histories, and while no file
\* the script reads is missing (a deletion is noticed under one clock only).
NothingMissing(p) == \A v \in valid[p] : \A f \in Reads : v.files[f] # Gone
CacheIsFresh ==
    [][\A p \in Procs : orderly' /\ pc[p] = "use" /\ pc'[p] = "done" /\ NothingMissing(p)
                        => output \in valid[p]]_vars
=============================================================================
