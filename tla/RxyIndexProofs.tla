--------------------------- MODULE RxyIndexProofs ---------------------------
(***************************************************************************)
(* Proofs about RxyIndex, for any number of processes and upstream commits. *)
(* LookupIsRecent rests on what a fresh stamp vouches for (FreshIsRecent),   *)
(* on what git was told when it asked (AskedLate, CheckedOut), and on who    *)
(* may be about while the index is emptied or cloned (EmptiesAlone), and    *)
(* thus who may take something out of it (Cleared).                         *)
(***************************************************************************)
EXTENDS RxyIndex, TLAPS

\* As long as the history is calm, whoever empties the index is alone with it.
EmptiesAlone ==
    calm => \A p \in Procs : pc[p] \in Emptying => Alone(p)

\* No stamp comes of age between git's question and the stamp that follows.
AskedLate ==
    \A p \in Procs : pc[p] \in {"cloning", "pulling", "stamp"} =>
        fetched[p] >= due /\ fetched[p] # 0

\* A stamp is written over what git answered, or something later.
CheckedOut ==
    calm => \A p \in Procs : pc[p] = "stamp" => file >= fetched[p]

\* Under a fresh stamp the index has what upstream had when one came of age.
FreshIsRecent ==
    calm /\ stamp = "fresh" => file # None /\ file >= due

IInv == TypeOK /\ EmptiesAlone /\ AskedLate /\ CheckedOut /\ FreshIsRecent /\ LookupIsRecent
-----------------------------------------------------------------------------
\* The types in three parts: switches, control points, commits.
Switches == used \in BOOLEAN /\ markers \in BOOLEAN /\ edited \in BOOLEAN /\ calm \in BOOLEAN

Points ==
    /\ git \in {"none", "half", "whole"} /\ stamp \in {"none", "fresh", "old"}
    /\ pc \in [Procs -> {"idle", "check", "probe", "decide", "remove", "clone", "cloning",
                         "pull", "pulling", "stamp", "lookup", "offline lookup"}]

\* The commits, compared with upstream's.
Counts ==
    /\ head \in Nat /\ head >= 1 /\ head <= MaxHead
    /\ file \in Nat /\ file <= head /\ due \in Nat /\ due <= head
    /\ fetched \in [Procs -> Nat] /\ \A p \in Procs : fetched[p] <= head
    /\ since \in [Procs -> Nat] /\ \A p \in Procs : since[p] <= due

\* Together they are TypeOK.
LEMMA TypeParts == TypeOK <=> Switches /\ Points /\ Counts
  <1>1. (fetched \in [Procs -> 0..head] /\ since \in [Procs -> 0..due]
           /\ head \in 1..MaxHead /\ file \in 0..head /\ due \in 0..head) <=> Counts
    BY HeadAssumption DEF Counts
  <1>. QED
    BY <1>1, Zenon DEF TypeOK, Switches, Points, None

\* There is no index, and nobody uses it, at first.
LEMMA InitIInv == Init => IInv
  <1> SUFFICES ASSUME Init PROVE IInv
    OBVIOUS
  <1>1. Switches
    BY Zenon DEF Init, Switches
  <1>2. Points /\ Counts
    BY HeadAssumption DEF Init, Points, Counts, None
  <1>3. EmptiesAlone /\ AskedLate /\ CheckedOut /\ FreshIsRecent /\ LookupIsRecent
    BY DEF Init, EmptiesAlone, Emptying, AskedLate, CheckedOut, FreshIsRecent, LookupIsRecent
  <1>. QED
    BY <1>1, <1>2, <1>3, TypeParts DEF IInv

\* The four switches stay switches.
LEMMA StepSwitches == TypeOK /\ [Next]_vars => Switches'
  <1> SUFFICES ASSUME TypeOK, [Next]_vars PROVE Switches'
    OBVIOUS
  <1> USE TypeParts DEF Switches, indexVars, Emptied
  <1>1. ASSUME NEW p \in Procs,
               \/ Check(p) \/ Remove(p) \/ StartPull(p) \/ EndPull(p) \/ Stamp(p) \/ Lookup(p)
        PROVE  Switches'
    BY <1>1, Zenon DEF Check, Remove, StartPull, EndPull, Stamp, Lookup
  <1>2. ASSUME NEW p \in Procs, Open(p) PROVE Switches'
    BY <1>2, Zenon DEF Open
  <1>3. ASSUME NEW p \in Procs, Probe(p) PROVE Switches'
    BY <1>3, Zenon DEF Probe
  <1>4. ASSUME NEW p \in Procs, Decide(p) PROVE Switches'
    BY <1>4, Zenon DEF Decide
  <1>5. ASSUME NEW p \in Procs, StartClone(p) \/ EndClone(p) PROVE Switches'
    BY <1>5, Zenon DEF StartClone, EndClone
  <1>6. ASSUME NEW p \in Procs, Kill(p) PROVE Switches'
    BY <1>6, Zenon DEF Kill
  <1>7. CASE Age \/ Push \/ Commit \/ Merge \/ UNCHANGED vars
    BY <1>7, Zenon DEF Age, Push, Commit, Merge, vars
  <1>8. CASE Publish
    BY <1>8, Zenon DEF Publish
  <1>. QED
    BY <1>1, <1>2, <1>3, <1>4, <1>5, <1>6, <1>7, <1>8 DEF Next, Run

\* Every step leads to a control point, and a .git and a stamp that can be.
LEMMA StepPoints == TypeOK /\ [Next]_vars => Points'
  <1> SUFFICES ASSUME TypeOK, [Next]_vars PROVE Points'
    OBVIOUS
  <1> USE TypeParts DEF Points, Goto, indexVars
  <1>1. ASSUME NEW p \in Procs,
               \/ Open(p) \/ Check(p) \/ Decide(p) \/ StartPull(p) \/ EndPull(p) \/ Stamp(p)
               \/ Lookup(p)
        PROVE  Points'
    BY <1>1 DEF Open, Check, Decide, StartPull, EndPull, Stamp, Lookup
  <1>2. ASSUME NEW p \in Procs, Probe(p) \/ Remove(p) \/ StartClone(p) \/ EndClone(p)
        PROVE  Points'
    BY <1>2 DEF Probe, Remove, StartClone, EndClone, Emptied
  <1>3. ASSUME NEW p \in Procs, Kill(p) PROVE Points'
    BY <1>3 DEF Kill
  <1>4. CASE Age \/ Push \/ Publish \/ Commit \/ Merge \/ UNCHANGED vars
    BY <1>4 DEF Age, Push, Publish, Commit, Merge, vars
  <1>. QED
    BY <1>1, <1>2, <1>3, <1>4 DEF Next, Run

\* No commit is known anywhere that upstream has not made.
LEMMA StepCounts == TypeOK /\ [Next]_vars => Counts'
  <1> SUFFICES ASSUME TypeOK, [Next]_vars PROVE Counts'
    OBVIOUS
  <1> USE TypeParts, HeadAssumption DEF Counts, indexVars, None
  <1>0. ASSUME NEW p \in Procs, Check(p) PROVE Counts'
    BY <1>0 DEF Check
  <1>1. ASSUME NEW p \in Procs, Open(p) \/ Decide(p) \/ Stamp(p) \/ Lookup(p) PROVE Counts'
    BY <1>1 DEF Open, Decide, Stamp, Lookup
  <1>2. ASSUME NEW p \in Procs, Probe(p) \/ Remove(p) \/ EndClone(p) PROVE Counts'
    BY <1>2 DEF Probe, Remove, EndClone, Emptied
  <1>3. ASSUME NEW p \in Procs, StartClone(p) \/ StartPull(p) PROVE Counts'
    BY <1>3 DEF StartClone, StartPull, Fetch
  <1>4. ASSUME NEW p \in Procs, EndPull(p) PROVE Counts'
    BY <1>4 DEF EndPull
  <1>5. ASSUME NEW p \in Procs, Kill(p) PROVE Counts'
    BY <1>5 DEF Kill
  <1>6. CASE Age \/ Push \/ Commit
    BY <1>6 DEF Age, Push, Commit
  <1>7. CASE Publish \/ Merge \/ UNCHANGED vars
    BY <1>7 DEF Publish, Merge, vars
  <1>. QED
    BY <1>0, <1>1, <1>2, <1>3, <1>4, <1>5, <1>6, <1>7 DEF Next, Run

\* Opening the index beside a process that empties it is not calm, nor is
\* beginning to empty it beside another.
LEMMA StepEmptiesAlone == IInv /\ [Next]_vars => EmptiesAlone'
  <1> SUFFICES ASSUME IInv, [Next]_vars PROVE EmptiesAlone'
    OBVIOUS
  <1> USE TypeParts DEF IInv, Points, EmptiesAlone, Emptying, Alone, Goto, indexVars
  <1>1. ASSUME NEW p \in Procs, Open(p) PROVE EmptiesAlone'
    <2>1. calm' => calm /\ Undisturbed(p)
      BY <1>1, Zenon DEF Open
    <2>. QED
      BY <1>1, <2>1 DEF Open, Undisturbed
  <1>2. ASSUME NEW p \in Procs, Check(p) \/ StartPull(p) \/ Stamp(p) \/ Lookup(p)
        PROVE  EmptiesAlone'
    BY <1>2, ZenonT(60) DEF Check, StartPull, Stamp, Lookup
  <1>3. ASSUME NEW p \in Procs, Probe(p) PROVE EmptiesAlone'
    <2>1. calm' => calm
      BY <1>3, Zenon DEF Probe
    <2>. QED
      BY <1>3, <2>1 DEF Probe
  <1>4. ASSUME NEW p \in Procs, Decide(p) PROVE EmptiesAlone'
    <2>1. calm' => calm /\ (git = "none" => Alone(p))
      BY <1>4, Zenon DEF Decide
    <2>. QED
      BY <1>4, <2>1 DEF Decide
  <1>5. ASSUME NEW p \in Procs, Kill(p) PROVE EmptiesAlone'
    <2>1. calm' => calm
      BY <1>5, Zenon DEF Kill
    <2>. QED
      BY <1>5, <2>1 DEF Kill
  <1>6. CASE Publish
    <2>1. calm' => calm
      BY <1>6, Zenon DEF Publish
    <2>. QED
      BY <1>6, <2>1 DEF Publish
  <1>7. CASE Age \/ Push \/ Commit \/ Merge \/ UNCHANGED vars
    BY <1>7 DEF Age, Push, Commit, Merge, vars
  <1>8. ASSUME NEW p \in Procs, Remove(p) PROVE EmptiesAlone'
    BY <1>8, ZenonT(60) DEF Remove
  <1>9. ASSUME NEW p \in Procs, StartClone(p) PROVE EmptiesAlone'
    BY <1>9, ZenonT(60) DEF StartClone
  <1>10. ASSUME NEW p \in Procs, EndClone(p) \/ EndPull(p) PROVE EmptiesAlone'
    BY <1>10, ZenonT(60) DEF EndClone, EndPull
  <1>. QED
    BY <1>1, <1>2, <1>3, <1>4, <1>5, <1>6, <1>7, <1>8, <1>9, <1>10 DEF Next, Run

\* Git asks for what upstream has then, and a refresh takes less than the ttl.
LEMMA StepAskedLate == IInv /\ [Next]_vars => AskedLate'
  <1> SUFFICES ASSUME IInv, [Next]_vars PROVE AskedLate'
    OBVIOUS
  <1>0. head \in Nat /\ due \in Nat /\ head >= due /\ head # 0
    BY TypeParts DEF IInv, Counts
  <1> USE TypeParts DEF IInv, Points, Counts, AskedLate, Goto, indexVars
  <1>1. ASSUME NEW p \in Procs,
               \/ Open(p) \/ Check(p) \/ Probe(p) \/ Decide(p) \/ Remove(p) \/ EndClone(p)
               \/ EndPull(p) \/ Stamp(p) \/ Lookup(p) \/ Kill(p)
        PROVE  AskedLate'
    BY <1>1 DEF Open, Check, Probe, Decide, Remove, EndClone, EndPull, Stamp, Lookup, Kill
  <1>2. ASSUME NEW p \in Procs, StartClone(p) \/ StartPull(p) PROVE AskedLate'
    <2>1. UNCHANGED due /\ \A q \in Procs \ {p} : pc'[q] = pc[q] /\ fetched'[q] = fetched[q]
      BY <1>2 DEF StartClone, StartPull, Fetch
    <2>2. fetched'[p] = head \/ pc'[p] = "idle"
      <3>1. CASE StartClone(p)
        BY <3>1 DEF StartClone, Fetch
      <3>2. CASE StartPull(p)
        BY <3>2 DEF StartPull, Fetch
      <3>. QED
        BY <1>2, <3>1, <3>2
    <2>3. ASSUME NEW q \in Procs, pc'[q] \in {"cloning", "pulling", "stamp"}
          PROVE  fetched'[q] >= due /\ fetched'[q] # 0
      BY <1>0, <2>1, <2>2, <2>3
    <2>. QED
      BY <2>1, <2>3
  <1>3. CASE Age \/ Push \/ Publish \/ Commit \/ Merge \/ UNCHANGED vars
    BY <1>3 DEF Age, Push, Publish, Commit, Merge, vars
  <1>. QED
    BY <1>1, <1>2, <1>3 DEF Next, Run

\* What may be lost without harm: nothing of the file, and nobody comes to a
\* stamp or a lookup.
LEMMA RecentKept ==
  ASSUME IInv, calm' => calm, file' \in Nat, file' >= file,
         stamp' = "fresh" => stamp = "fresh" /\ due' = due,
         \A q \in Procs : pc'[q] = "stamp" => pc[q] = "stamp" /\ fetched'[q] = fetched[q],
         \A q \in Procs : pc'[q] = "lookup" => pc[q] = "lookup" /\ since'[q] = since[q]
  PROVE  (CheckedOut /\ FreshIsRecent /\ LookupIsRecent)'
  <1>1. file \in Nat /\ due \in Nat /\ \A q \in Procs : fetched[q] \in Nat /\ since[q] \in Nat
    BY TypeParts DEF IInv, Counts
  <1>. QED
    BY <1>1 DEF IInv, CheckedOut, FreshIsRecent, LookupIsRecent, None

\* Going to a control point moves nobody else.
LEMMA GotoOthers ==
  ASSUME TypeOK, NEW p \in Procs, NEW l, Goto(p, l)
  PROVE  pc'[p] = l /\ \A q \in Procs : q # p => pc'[q] = pc[q]
  BY TypeParts DEF Points, Goto

\* A step within which the index, as far as a lookup is concerned, stays.
LEMMA QuietStep ==
  ASSUME IInv, NEW p \in Procs, NEW l, Goto(p, l), l \notin {"stamp", "lookup"}, calm' => calm,
         UNCHANGED <<file, stamp, due, since>>,
         \A q \in Procs : q # p => fetched'[q] = fetched[q]
  PROVE  (CheckedOut /\ FreshIsRecent /\ LookupIsRecent)'
  <1>1. file \in Nat /\ file' >= file
    BY TypeParts DEF IInv, Counts
  <1>. QED
    BY <1>1, GotoOthers, RecentKept DEF IInv

\* The file goes back only under a process that is alone with the index, and
\* then there is no fresh stamp; a clone brings what git answered.
LEMMA StepRecent == IInv /\ [Next]_vars => (CheckedOut /\ FreshIsRecent /\ LookupIsRecent)'
  <1> DEFINE Recent == CheckedOut /\ FreshIsRecent /\ LookupIsRecent
  <1> SUFFICES ASSUME IInv, [Next]_vars PROVE Recent'
    OBVIOUS
  <1>0. file \in Nat /\ file' \in Nat
    BY TypeParts, StepCounts DEF IInv, Counts
  <1>1. ASSUME NEW p \in Procs, Open(p) PROVE Recent'
    <2>1. calm' => calm
      BY <1>1, Zenon DEF Open
    <2>. QED
      BY <1>1, <2>1, QuietStep DEF Open
  <1>2. ASSUME NEW p \in Procs, Decide(p) PROVE Recent'
    <2>1. calm' => calm
      BY <1>2, Zenon DEF Decide
    <2>. QED
      BY <1>2, <2>1, QuietStep DEF Decide, indexVars
  <1>3. ASSUME NEW p \in Procs, StartClone(p) \/ StartPull(p) \/ Lookup(p) PROVE Recent'
    <2>1. \A q \in Procs : q # p => fetched'[q] = fetched[q]
      BY <1>3, TypeParts DEF StartClone, StartPull, Lookup, Fetch, IInv, Counts
    <2>2. PICK l \in {"idle", "cloning", "pulling"} : Goto(p, l)
      BY <1>3 DEF StartClone, StartPull, Lookup
    <2>3. UNCHANGED <<file, stamp, due, since, calm>>
      BY <1>3 DEF StartClone, StartPull, Lookup, indexVars
    <2>. QED
      BY <2>1, <2>2, <2>3, QuietStep
  <1>4. CASE Push \/ Merge \/ Commit \/ Age
    <2>1. file' >= file
      BY <1>0, <1>4 DEF Push, Merge, Commit, Age, indexVars
    <2>. QED
      BY <1>0, <1>4, <2>1, RecentKept DEF Push, Merge, Commit, Age, indexVars
  <1>5. CASE UNCHANGED vars
    <2>1. file' >= file
      BY <1>0, <1>5 DEF vars, indexVars
    <2>. QED
      BY <1>0, <1>5, <2>1, RecentKept DEF vars, indexVars
  <1>6. CASE Publish
    <2>1. calm' => calm
      BY <1>6, Zenon DEF Publish
    <2>2. file' >= file
      BY <1>0, <1>6 DEF Publish
    <2>. QED
      BY <1>0, <1>6, <2>1, <2>2, RecentKept DEF Publish
  <1>numbers. /\ file \in Nat /\ due \in Nat
        /\ \A q \in Procs : fetched[q] \in Nat /\ since[q] \in Nat /\ since[q] <= due
    BY TypeParts DEF IInv, Counts
  <1>stamped. calm => \A q \in Procs : pc[q] = "stamp" => file >= fetched[q]
    BY DEF IInv, CheckedOut
  <1>fresh. calm /\ stamp = "fresh" => file # 0 /\ file >= due
    BY DEF IInv, FreshIsRecent, None
  <1>looked. calm => \A q \in Procs : pc[q] = "lookup" => file # 0 /\ file >= since[q]
    BY DEF IInv, LookupIsRecent, None
  <1> USE DEF CheckedOut, FreshIsRecent, LookupIsRecent, None
  <1>7. ASSUME NEW p \in Procs, Check(p) PROVE Recent'
    <2>1. pc'[p] \in {"probe", "lookup"} /\ (pc'[p] = "lookup" => stamp = "fresh")
      BY <1>7, TypeParts DEF Check, Goto, IInv, Points
    <2>2. \A q \in Procs : q # p => pc'[q] = pc[q] /\ since'[q] = since[q]
      BY <1>7, TypeParts, GotoOthers DEF Check, IInv, Counts
    <2>3. since'[p] = due /\ UNCHANGED <<file, stamp, due, fetched, calm>>
      BY <1>7, TypeParts DEF Check, IInv, Counts, indexVars
    <2>. QED
      BY <1>numbers, <1>stamped, <1>fresh, <1>looked, <2>1, <2>2, <2>3
  <1>8. ASSUME NEW p \in Procs, Probe(p) PROVE Recent'
    <2>1. CASE ~markers
      BY <1>8, <2>1, QuietStep DEF Probe, indexVars
    <2>2. CASE markers
      <3>1. calm' => \A q \in Procs : q # p => pc[q] = "idle"
        BY <1>8, <2>2, Zenon DEF Probe, Alone
      <3>2. pc'[p] = "decide" /\ \A q \in Procs : q # p => pc'[q] = pc[q]
        BY <1>8, GotoOthers DEF Probe, IInv
      <3>3. stamp' = "none"
        BY <1>8, <2>2 DEF Probe, Emptied
      <3>. QED
        BY <3>1, <3>2, <3>3
    <2>. QED
      BY <2>1, <2>2
  <1>9. ASSUME NEW p \in Procs, Remove(p) PROVE Recent'
    <2>1. calm' => \A q \in Procs : q # p => pc[q] = "idle"
      BY <1>9 DEF Remove, IInv, EmptiesAlone, Emptying, Alone
    <2>2. pc'[p] = "clone" /\ \A q \in Procs : q # p => pc'[q] = pc[q]
      BY <1>9, GotoOthers DEF Remove, IInv
    <2>3. stamp' = "none"
      BY <1>9 DEF Remove, Emptied
    <2>. QED
      BY <2>1, <2>2, <2>3
  <1>10. ASSUME NEW p \in Procs, EndClone(p) PROVE Recent'
    <2>1. calm => \A q \in Procs : q # p => pc[q] = "idle"
      BY <1>10 DEF EndClone, IInv, EmptiesAlone, Emptying, Alone
    <2>2. UNCHANGED <<calm, due, fetched>>
      BY <1>10 DEF EndClone
    <2>3. CASE Emptied /\ Goto(p, "idle")
      <3>1. pc'[p] = "idle" /\ \A q \in Procs : q # p => pc'[q] = pc[q]
        BY <2>3, GotoOthers DEF IInv
      <3>. QED
        BY <2>1, <2>2, <2>3, <3>1 DEF Emptied
    <2>4. CASE file' = fetched[p] /\ Goto(p, "stamp")
      <3>1. pc'[p] = "stamp" /\ \A q \in Procs : q # p => pc'[q] = pc[q]
        BY <2>4, GotoOthers DEF IInv
      <3>2. fetched[p] \in Nat /\ fetched[p] >= due /\ fetched[p] # 0
        BY <1>numbers, <1>10 DEF EndClone, IInv, AskedLate
      <3>. QED
        BY <2>1, <2>2, <2>4, <3>1, <3>2
    <2>. QED
      BY <1>10, <2>3, <2>4 DEF EndClone
  <1>11. ASSUME NEW p \in Procs, EndPull(p) PROVE Recent'
    <2>1. CASE UNCHANGED file /\ Goto(p, "idle")
      BY <1>11, <2>1, QuietStep DEF EndPull
    <2>2. CASE file' = (IF file >= fetched[p] THEN file ELSE fetched[p]) /\ Goto(p, "stamp")
      <3>1. file' >= file /\ file' >= fetched[p]
        BY <1>numbers, <2>2
      <3>2. pc'[p] = "stamp" /\ \A q \in Procs : q # p => pc'[q] = pc[q]
        BY <2>2, GotoOthers DEF IInv
      <3>3. UNCHANGED <<calm, stamp, due, since, fetched>>
        BY <1>11 DEF EndPull
      <3>4. calm => \A q \in Procs : pc'[q] = "stamp" => file' >= fetched[q]
        <4>1. ASSUME calm, NEW q \in Procs, q # p, pc'[q] = "stamp" PROVE file' >= fetched[q]
          <5>1. file >= fetched[q] /\ fetched[q] \in Nat
            BY <1>numbers, <1>stamped, <3>2, <4>1
          <5>. QED
            BY <1>0, <3>1, <5>1
        <4>. QED
          BY <3>1, <4>1
      <3>5. calm => \A q \in Procs : pc'[q] = "lookup" => file' # 0 /\ file' >= since[q]
        <4>1. ASSUME calm, NEW q \in Procs, pc'[q] = "lookup" PROVE file' # 0 /\ file' >= since[q]
          <5>1. file # 0 /\ file >= since[q] /\ since[q] \in Nat
            BY <1>numbers, <1>looked, <3>2, <4>1
          <5>. QED
            BY <1>0, <3>1, <5>1
        <4>. QED
          BY <4>1
      <3>6. calm /\ stamp = "fresh" => file' # 0 /\ file' >= due
        BY <1>0, <1>numbers, <1>fresh, <3>1
      <3>. QED
        BY <3>3, <3>4, <3>5, <3>6
    <2>. QED
      BY <1>11, <2>1, <2>2 DEF EndPull
  <1>12. ASSUME NEW p \in Procs, Stamp(p) PROVE Recent'
    <2>1. calm => file >= fetched[p] /\ fetched[p] >= due /\ fetched[p] # 0
      BY <1>stamped, <1>12 DEF Stamp, IInv, AskedLate
    <2>2. calm => file # 0 /\ file >= due /\ file >= since[p]
      BY <1>numbers, <2>1
    <2>3. pc'[p] = "lookup" /\ \A q \in Procs : q # p => pc'[q] = pc[q]
      BY <1>12, GotoOthers DEF Stamp, IInv
    <2>4. UNCHANGED <<file, due, fetched, since, calm>>
      BY <1>12 DEF Stamp
    <2>. QED
      BY <1>stamped, <1>looked, <2>2, <2>3, <2>4
  <1>13. ASSUME NEW p \in Procs, Kill(p) PROVE Recent'
    <2>1. CASE UNCHANGED <<file, calm>>
      BY <1>13, <2>1, QuietStep DEF Kill
    <2>2. CASE calm' = (calm /\ Alone(p) /\ stamp # "fresh")
      <3>1. calm' => stamp # "fresh" /\ \A q \in Procs : q # p => pc[q] = "idle"
        BY <2>2, Zenon DEF Alone
      <3>2. pc'[p] = "idle" /\ \A q \in Procs : q # p => pc'[q] = pc[q]
        BY <1>13, GotoOthers DEF Kill, IInv
      <3>. QED
        BY <1>13, <3>1, <3>2 DEF Kill
    <2>. QED
      BY <1>13, <2>1, <2>2 DEF Kill
  <1>. QED
    BY <1>1, <1>2, <1>3, <1>4, <1>5, <1>6, <1>7, <1>8, <1>9, <1>10, <1>11, <1>12, <1>13
       DEF Next, Run

-----------------------------------------------------------------------------
\* The invariant holds in every reachable state.
LEMMA Inductive == Spec => []IInv
  <1>1. (Switches /\ Points /\ Counts)' => TypeOK'
    <2>1. Counts' => (/\ fetched \in [Procs -> 0..head] /\ since \in [Procs -> 0..due]
                     /\ head \in 1..MaxHead /\ file \in 0..head /\ due \in 0..head)'
      BY HeadAssumption DEF Counts
    <2>. QED
      BY <2>1, Zenon DEF TypeOK, Switches, Points, None
  <1>2. IInv /\ [Next]_vars => IInv'
    BY <1>1, StepSwitches, StepPoints, StepCounts, StepEmptiesAlone, StepAskedLate, StepRecent
       DEF IInv
  <1>. QED
    BY <1>2, InitIInv, PTL DEF Spec

\* Every variable keeps its type: in particular no file, and no answer of git,
\* is of a commit that upstream has not made.
THEOREM IndexTypeOK == Spec => []TypeOK
  BY Inductive, PTL DEF IInv

\* An online resolution reads an index that is there and no older than its
\* stamp says, for any number of processes, kills, failed pulls, publications
\* and merges, as long as none empties the index under another.
THEOREM LookupAlwaysRecent == Spec => []LookupIsRecent
  BY Inductive, PTL DEF IInv
-----------------------------------------------------------------------------
\* In a calm history, what was emptied stays empty until the clone is through.
Cleared ==
    calm => \A p \in Procs : pc[p] \in {"clone", "cloning"} => file = None /\ stamp = "none"

\* The index goes back only by being deleted to be cloned again, under a process
\* that is alone with it, and leaves no fresh stamp behind: whoever opens it
\* next, offline lookups aside, asks upstream before it reads.
GoesBackAlone ==
    calm' /\ file' < file =>
        /\ stamp' # "fresh"
        /\ \E p \in Procs : pc[p] \in {"probe", "remove"} /\ Alone(p)

\* Nobody writes into an emptied index but the one clone.
LEMMA StepCleared == IInv /\ Cleared /\ [Next]_vars => Cleared'
  <1> SUFFICES ASSUME IInv, Cleared, [Next]_vars PROVE Cleared'
    OBVIOUS
  <1>0. file \in Nat /\ head \in Nat /\ head >= 1
    BY TypeParts DEF IInv, Counts
  <1>1. calm => \A p, q \in Procs : pc[p] \in {"clone", "cloning"} /\ q # p => pc[q] = "idle"
    BY DEF IInv, EmptiesAlone, Emptying, Alone
  <1> USE TypeParts DEF Cleared, None
  <1>2. ASSUME NEW p \in Procs, Open(p) PROVE Cleared'
    <2>1. (calm' => calm) /\ UNCHANGED <<file, stamp>>
      BY <1>2, Zenon DEF Open
    <2>2. \A q \in Procs : pc'[q] \in {"clone", "cloning"} => pc'[q] = pc[q]
      BY <1>2, GotoOthers DEF Open, IInv
    <2>. QED
      BY <2>1, <2>2
  <1>3. ASSUME NEW p \in Procs, Decide(p) PROVE Cleared'
    <2>1. (calm' => calm) /\ UNCHANGED <<file, stamp>>
      BY <1>3, Zenon DEF Decide, indexVars
    <2>2. \A q \in Procs : pc'[q] \in {"clone", "cloning"} => pc'[q] = pc[q]
      BY <1>3, GotoOthers DEF Decide, IInv
    <2>. QED
      BY <2>1, <2>2
  <1>4. ASSUME NEW p \in Procs, Probe(p) PROVE Cleared'
    <2>1. CASE markers
      <3>1. file' = 0 /\ stamp' = "none"
        BY <1>4, <2>1 DEF Probe, Emptied
      <3>. QED
        BY <3>1
    <2>2. CASE ~markers
      <3>1. UNCHANGED <<file, stamp, calm>>
        BY <1>4, <2>2 DEF Probe, indexVars
      <3>2. \A q \in Procs : pc'[q] \in {"clone", "cloning"} => pc'[q] = pc[q]
        BY <1>4, GotoOthers DEF Probe, IInv
      <3>. QED
        BY <3>1, <3>2
    <2>. QED
      BY <2>1, <2>2
  <1>5. ASSUME NEW p \in Procs, Remove(p) PROVE Cleared'
    BY <1>5 DEF Remove, Emptied
  <1>6. ASSUME NEW p \in Procs, StartClone(p) PROVE Cleared'
    <2>1. pc[p] = "clone" /\ UNCHANGED <<file, stamp, calm>>
      BY <1>6 DEF StartClone
    <2>2. \A q \in Procs : q # p => pc'[q] = pc[q]
      BY <1>6, GotoOthers DEF StartClone, IInv
    <2>. QED
      BY <2>1, <2>2
  <1>7. ASSUME NEW p \in Procs,
               \/ Check(p) \/ EndClone(p) \/ StartPull(p) \/ EndPull(p) \/ Stamp(p) \/ Lookup(p)
        PROVE  Cleared'
    <2>1. PICK l \in {"lookup", "probe", "stamp", "idle", "pulling"} : Goto(p, l)
      BY <1>7 DEF Check, EndClone, StartPull, EndPull, Stamp, Lookup
    <2>2. pc[p] # "idle" /\ pc'[p] = l /\ \A q \in Procs : q # p => pc'[q] = pc[q]
      BY <1>7, <2>1, GotoOthers
      DEF Check, EndClone, StartPull, EndPull, Stamp, Lookup, IInv
    <2>3. UNCHANGED calm
      BY <1>7 DEF Check, EndClone, StartPull, EndPull, Stamp, Lookup
    <2>. QED
      BY <1>1, <2>2, <2>3
  <1>8. ASSUME NEW p \in Procs, Kill(p) PROVE Cleared'
    <2>1. calm' => calm
      BY <1>8, Zenon DEF Kill
    <2>2. pc[p] # "idle"
      BY <1>8 DEF Kill
    <2>3. pc'[p] = "idle" /\ \A q \in Procs : q # p => pc'[q] = pc[q]
      BY <1>8, GotoOthers DEF Kill, IInv
    <2>. QED
      BY <1>1, <2>1, <2>2, <2>3
  <1>9. CASE Publish
    <2>1. calm' => calm /\ \A p \in Procs : pc[p] \notin Emptying
      BY <1>9, Zenon DEF Publish
    <2>. QED
      BY <1>9, <2>1 DEF Publish, Emptying
  <1>10. CASE Commit
    <2>1. file # 0 /\ UNCHANGED <<pc, calm>>
      BY <1>0, <1>10 DEF Commit
    <2>. QED
      BY <2>1
  <1>11. CASE Age
    BY <1>11 DEF Age
  <1>12. CASE Push \/ Merge \/ UNCHANGED vars
    BY <1>12 DEF Push, Merge, vars, indexVars
  <1>. QED
    BY <1>2, <1>3, <1>4, <1>5, <1>6, <1>7, <1>8, <1>9, <1>10, <1>11, <1>12 DEF Next, Run

\* No pull, publication, merge, kill of a pull or lost clone takes a commit back
\* that a lookup may have seen, in a history that is calm.
THEOREM IndexGoesBackAlone == Spec => [][GoesBackAlone]_vars
  <1>1. IInv /\ Cleared /\ [Next]_vars => [GoesBackAlone]_vars
    <2> SUFFICES ASSUME IInv, Cleared, Next, calm', file' < file
                 PROVE  /\ stamp' # "fresh"
                        /\ \E p \in Procs : pc[p] \in {"probe", "remove"} /\ Alone(p)
      BY DEF GoesBackAlone
    <2>0. file \in Nat /\ head \in Nat /\ file <= head /\ \A q \in Procs : fetched[q] \in Nat
      BY TypeParts DEF IInv, Counts
    <2>1. file' # file /\ file # 0 /\ ~(file' >= file)
      <3>1. file' \in Nat
        BY StepCounts, TypeParts DEF IInv, Counts
      <3>. QED
        BY <2>0, <3>1
    <2>2. ASSUME NEW p \in Procs,
                 \/ Open(p) \/ Check(p) \/ Decide(p) \/ StartClone(p) \/ StartPull(p) \/ Stamp(p)
                 \/ Lookup(p)
          PROVE  FALSE
      BY <2>1, <2>2 DEF Open, Check, Decide, StartClone, StartPull, Stamp, Lookup, indexVars
    <2>3. ASSUME NEW p \in Procs, EndPull(p) PROVE FALSE
      BY <2>0, <2>1, <2>3 DEF EndPull
    <2>4. ~(Age \/ Push \/ Publish \/ Merge)
      BY <2>1 DEF Age, Push, Publish, Merge, indexVars
    <2>5. ASSUME Commit PROVE FALSE
      <3>1. file = head /\ file' = head + 1
        BY <2>5 DEF Commit
      <3>. QED
        BY <2>0, <2>1, <3>1
    <2>6. ASSUME NEW p \in Procs, EndClone(p) PROVE FALSE
      <3>1. calm /\ pc[p] = "cloning"
        BY <2>6 DEF EndClone
      <3>. QED
        BY <2>1, <3>1 DEF Cleared, None
    <2>7. ASSUME NEW p \in Procs, Probe(p) PROVE stamp' # "fresh" /\ pc[p] = "probe" /\ Alone(p)
      BY <2>1, <2>7, Zenon DEF Probe, Emptied, indexVars
    <2>8. ASSUME NEW p \in Procs, Remove(p) PROVE stamp' # "fresh" /\ pc[p] = "remove" /\ Alone(p)
      BY <2>8 DEF Remove, Emptied, IInv, EmptiesAlone, Emptying
    <2>9. ASSUME NEW p \in Procs, Kill(p)
          PROVE  stamp' # "fresh" /\ pc[p] \in {"remove", "probe"} /\ Alone(p)
      BY <2>1, <2>9, Zenon DEF Kill
    <2>. QED
      BY <2>2, <2>3, <2>4, <2>5, <2>6, <2>7, <2>8, <2>9 DEF Next, Run
  <1>2. Init => Cleared
    BY DEF Init, Cleared
  <1>. QED
    BY <1>1, <1>2, StepCleared, Inductive, PTL DEF Spec
=============================================================================
