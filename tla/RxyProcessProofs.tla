-------------------------- MODULE RxyProcessProofs --------------------------
(***************************************************************************)
(* Proofs about RxyProcess, for any number of threads, slots, chunks and    *)
(* signals.  The inductive invariant says which control points own a slot   *)
(* and a child (Owning, SlotsTrackRuns), that a child that is not reaped    *)
(* belongs to one run (OneRun, ChildrenAreReaped), what is still on its way *)
(* between a child and its run (Accounts), and which children the handler's *)
(* scan has still to meet (ScanAhead).  Who holds a pipe's write ends       *)
(* (HoldersRun) and how much stderr there is (ErrFits) decides whether      *)
(* somebody can always go on.                                               *)
(***************************************************************************)
EXTENDS RxyProcess, TLAPS

WithChild == {"set", "out", "err", "wait"}
WithSlot  == WithChild \cup {"spawn", "clear"}

\* The control points with a slot, and with the pid of a child.
Owning ==
    \A t \in Threads :
        /\ mine[t] # 0 <=> pc[t] \in WithSlot
        /\ kid[t] # NoPid <=> pc[t] \in WithChild \cup {"clear"}

\* A run before its waitpid has a child of its own, whose stdio is its pipes.
OneRun ==
    /\ \A t \in Threads : pc[t] \in WithChild => life[kid[t]] # "none" /\ owner[kid[t]] = t
    /\ \A p \in Pids : life[p] # "none" => \E t \in Threads : kid[t] = p /\ pc[t] \in WithChild

\* A child that ended while rxy runs has written all it wanted, or was killed.
Finished ==
    alive => \A p \in Pids : life[p] = "zombie" => toOut[p] + toErr[p] = 0

\* Pipes exist while they are drained, and rxy holds both ends until set.
PipesOpen ==
    \A t \in Threads :
        /\ pc[t] \in {"out", "err"} => open[t] /\ ~wend[t]
        /\ open[t] /\ pc[t] \in {"slot", "spawn", "set"} => wend[t]
        /\ pc[t] = "wait" => ~open[t]

\* A child that runs holds the write ends of its run's pipes.
Writers ==
    \A t \in Threads :
        pc[t] \in {"set", "out", "err"} /\ open[t] /\ life[kid[t]] = "run" => kid[t] \in inherits[t]

\* After end of file, nobody writes to the pipes again.
AtEnd ==
    \A t \in Threads :
        pc[t] = "err" => outPipe[t] = 0 /\ inherits[t] = {}

\* A captured run's output is drained, in a pipe, or still the child's to
\* write; a streamed run captures nothing.
Account(t) ==
    /\ pc[t] \in {"slot", "spawn"} => outPipe[t] = 0 /\ errPipe[t] = 0 /\ got[t] = 0
    /\ pc[t] \in {"set", "out", "err"} /\ open[t] =>
         got[t] + outPipe[t] + errPipe[t] + toOut[kid[t]] + toErr[kid[t]] = due[t]
    /\ pc[t] = "set" /\ ~open[t] => got[t] = 0 /\ due[t] = 0
    /\ pc[t] = "wait" =>
         got[t] = due[t] \/ (Gone(kid[t]) /\ got[t] + toOut[kid[t]] + toErr[kid[t]] = due[t])
Accounts == \A t \in Threads : Account(t)

\* Whom the handler has to signal and has not met yet sits in a slot it has
\* still to reach.
ScanAhead ==
    /\ scan # 0 => alive
    /\ \A p \in expected : life[p] # "none"
    /\ scan # 0 =>
         \A p \in (expected \cap Running) \ hit :
            \E t \in Threads : /\ kid[t] = p /\ mine[t] >= scan
                               /\ pc[t] \in {"out", "err", "wait"}

TableInv == TypeOK /\ Owning /\ SlotsTrackRuns /\ OneRun /\ ScanAhead
PipeInv  == PipesOpen /\ Writers /\ AtEnd /\ Finished /\ Accounts
IInv     == TableInv /\ PipeInv
-----------------------------------------------------------------------------
\* TypeOK in four parts, by the variables each part is about.
ThreadTypes ==
    /\ pc \in [Threads -> Resting \cup WithSlot \cup {"slot"}]
    /\ mine \in [Threads -> Slots \cup {0}] /\ kid \in [Threads -> Pids \cup {NoPid}]
    /\ slots \in [Slots -> {Free, Guard} \cup Pids]

PipeTypes ==
    /\ open \in [Threads -> BOOLEAN] /\ wend \in [Threads -> BOOLEAN]
    /\ outPipe \in [Threads -> 0..Cap] /\ errPipe \in [Threads -> 0..Cap]
    /\ got \in [Threads -> 0..(MaxOut + MaxErr)] /\ due \in [Threads -> 0..(MaxOut + MaxErr)]

ChildTypes ==
    /\ life \in [Pids -> {"none", "run", "zombie", "dead"}]
    /\ owner \in [Pids -> Threads \cup {NoThread}]
    /\ toOut \in [Pids -> 0..MaxOut] /\ toErr \in [Pids -> 0..MaxErr]
    /\ inherits \in [Threads -> SUBSET Pids]

SignalTypes ==
    /\ scan \in 0..(NSlots + 1) /\ on \in Threads \cup {NoThread} /\ any \in BOOLEAN
    /\ hit \subseteq Pids /\ expected \subseteq Pids
    /\ alive \in BOOLEAN /\ sent \in 0..MaxSignals

\* TypeOK is its four parts.
LEMMA TypeParts == TypeOK <=> ThreadTypes /\ PipeTypes /\ ChildTypes /\ SignalTypes
  BY DEF TypeOK, ThreadTypes, PipeTypes, ChildTypes, SignalTypes, WithSlot, WithChild, Resting

\* The assumptions on sizes, one by one.
LEMMA Sizes == /\ NSlots \in Nat /\ NSlots > 0 /\ Cap \in Nat /\ Cap > 0
               /\ MaxOut \in Nat /\ MaxErr \in Nat /\ MaxSignals \in Nat
  BY SizeAssumption

\* Nothing runs, no slot is taken and every pipe is empty at first.
LEMMA InitIInv == Init => IInv
  <1> SUFFICES ASSUME Init PROVE IInv
    OBVIOUS
  <1> USE PidAssumption, ThreadAssumption, Sizes DEF Init, Resting, NoPid
  <1>1. ThreadTypes
    BY DEF ThreadTypes
  <1>2. PipeTypes
    BY DEF PipeTypes
  <1>3. ChildTypes
    BY DEF ChildTypes
  <1>4. SignalTypes
    <2>1. any \in BOOLEAN /\ alive \in BOOLEAN
      BY Zenon
    <2>. QED
      BY <2>1, Sizes DEF SignalTypes
  <1>5. Owning /\ OneRun /\ ScanAhead
    BY DEF Owning, OneRun, ScanAhead, WithSlot, WithChild
  <1>6. SlotsTrackRuns
    BY DEF SlotsTrackRuns
  <1>7. PipeInv
    BY DEF PipeInv, PipesOpen, Writers, AtEnd, Finished, Accounts, Account
  <1>. QED
    BY <1>1, <1>2, <1>3, <1>4, <1>5, <1>6, <1>7, TypeParts DEF IInv, TableInv

\* What the invariant says of a thread with a child.
LEMMA OwnKid ==
  ASSUME TableInv, NEW t \in Threads, pc[t] \in WithChild
  PROVE  /\ kid[t] \in Pids /\ mine[t] \in Slots
         /\ life[kid[t]] # "none" /\ owner[kid[t]] = t
         /\ \A u \in Threads : pc[u] \in WithChild /\ kid[u] = kid[t] => u = t
  BY TypeParts DEF TableInv, ThreadTypes, Owning, OneRun, WithSlot

-----------------------------------------------------------------------------
\* Every step keeps the types of the threads and the slot table: set stores a pid.
LEMMA StepThreadTypes == IInv /\ [Next]_vars => ThreadTypes'
  <1> SUFFICES ASSUME IInv, [Next]_vars PROVE ThreadTypes'
    OBVIOUS
  <1> USE TypeParts DEF IInv, TableInv, ThreadTypes, Goto, threadVars
  <1>1. ASSUME NEW t \in Threads, Start(t) \/ SpawnFails(t) \/ Return(t) PROVE ThreadTypes'
    BY <1>1 DEF Start, SpawnFails, Return, ReleaseSlot, Resting
  <1>2. ASSUME NEW t \in Threads, TakeSlot(t) PROVE ThreadTypes'
    BY <1>2 DEF TakeSlot, Resting, WithSlot
  <1>3. ASSUME NEW t \in Threads, Spawn(t) PROVE ThreadTypes'
    BY <1>3 DEF Spawn, WithSlot, WithChild
  <1>4. ASSUME NEW t \in Threads, SetPid(t) PROVE ThreadTypes'
    BY <1>4, OwnKid DEF SetPid, At, WithSlot, WithChild
  <1>5. ASSUME NEW t \in Threads, DrainOut(t) \/ DrainErr(t) \/ Wait(t) PROVE ThreadTypes'
    BY <1>5 DEF DrainOut, DrainErr, Wait, WithSlot, WithChild
  <1>6. ASSUME NEW t \in Threads, Signal(t) PROVE ThreadTypes'
    BY <1>6 DEF Signal
  <1>7. ASSUME NEW p \in Pids, ChildWrites(p) \/ ChildExits(p) \/ ChildDies(p)
        PROVE  ThreadTypes'
    BY <1>7 DEF ChildWrites, ChildExits, ChildDies, Ends
  <1>8. CASE Scan \/ EndScan \/ UNCHANGED vars
    BY <1>8 DEF Scan, EndScan, vars
  <1>. QED
    BY <1>1, <1>2, <1>3, <1>4, <1>5, <1>6, <1>7, <1>8 DEF Next, Run

\* Every step keeps the types of the children.
LEMMA StepChildTypes == IInv /\ [Next]_vars => ChildTypes'
  <1> SUFFICES ASSUME IInv, [Next]_vars PROVE ChildTypes'
    OBVIOUS
  <1> USE TypeParts DEF IInv, TableInv, ChildTypes, childVars
  <1>1. ASSUME NEW t \in Threads, Start(t) PROVE ChildTypes'
    BY <1>1 DEF Start
  <1>2. ASSUME NEW t \in Threads,
               \/ TakeSlot(t) \/ SpawnFails(t) \/ SetPid(t) \/ DrainOut(t) \/ DrainErr(t)
               \/ Return(t) \/ Signal(t)
        PROVE  ChildTypes'
    BY <1>2 DEF TakeSlot, SpawnFails, SetPid, DrainOut, DrainErr, Return, Signal
  <1>3. ASSUME NEW t \in Threads, Spawn(t) PROVE ChildTypes'
    BY <1>3 DEF Spawn
  <1>4. ASSUME NEW t \in Threads, Wait(t) PROVE ChildTypes'
    BY <1>4 DEF Wait
  <1>5. ASSUME NEW p \in Pids, ChildWrites(p) PROVE ChildTypes'
    <2>1. ASSUME NEW m \in Nat, NEW left \in [Pids -> 0..m], left[p] > 0
          PROVE  [left EXCEPT ![p] = @ - 1] \in [Pids -> 0..m]
      BY <2>1
    <2>. QED
      BY <1>5, <2>1, Sizes DEF ChildWrites, Writes
  <1>6. ASSUME NEW p \in Pids, ChildExits(p) \/ ChildDies(p) PROVE ChildTypes'
    BY <1>6 DEF ChildExits, ChildDies, Ends
  <1>7. CASE Scan \/ EndScan \/ UNCHANGED vars
    BY <1>7 DEF Scan, EndScan, vars
  <1>. QED
    BY <1>1, <1>2, <1>3, <1>4, <1>5, <1>6, <1>7 DEF Next, Run

\* Every step keeps the types of the handler's variables.
LEMMA StepSignalTypes == IInv /\ [Next]_vars => SignalTypes'
  <1> SUFFICES ASSUME IInv, [Next]_vars PROVE SignalTypes'
    OBVIOUS
  <1> USE TypeParts DEF IInv, TableInv, SignalTypes, sigVars
  <1>1. ASSUME NEW t \in Threads, Start(t) \/ Run(t) PROVE SignalTypes'
    BY <1>1 DEF Start, Run, TakeSlot, Spawn, SpawnFails, SetPid, DrainOut, DrainErr, Wait, Return
  <1>2. ASSUME NEW t \in Threads, Signal(t) PROVE SignalTypes'
    <2>1. Registered \cap Running \subseteq Pids
      BY DEF Running
    <2>2. any' \in BOOLEAN /\ alive' \in BOOLEAN
      BY <1>2, Zenon DEF Signal
    <2>. QED
      BY <1>2, <2>1, <2>2, Sizes DEF Signal
  <1>3. ASSUME NEW p \in Pids, ChildWrites(p) \/ ChildExits(p) \/ ChildDies(p)
        PROVE  SignalTypes'
    BY <1>3 DEF ChildWrites, ChildExits, ChildDies, Ends
  <1>4. CASE Scan
    BY <1>4, Sizes DEF Scan, Running, Slots
  <1>5. CASE EndScan \/ UNCHANGED vars
    BY <1>5, Sizes DEF EndScan, vars
  <1>. QED
    BY <1>1, <1>2, <1>3, <1>4, <1>5 DEF Next
-----------------------------------------------------------------------------
\* A slot and a pid come and go at the control points Owning names.
LEMMA StepOwning == TableInv /\ [Next]_vars => Owning'
  <1> SUFFICES ASSUME TableInv, [Next]_vars PROVE Owning'
    OBVIOUS
  <1> USE TypeParts, PidAssumption DEF TableInv, ThreadTypes, Owning, WithSlot, WithChild, Goto,
          At, NoPid, Slots
  <1>1. ASSUME NEW t \in Threads, Start(t) PROVE Owning'
    BY <1>1 DEF Start
  <1>2. ASSUME NEW t \in Threads, TakeSlot(t) PROVE Owning'
    BY <1>2 DEF TakeSlot
  <1>3. ASSUME NEW t \in Threads, Spawn(t) PROVE Owning'
    BY <1>3 DEF Spawn
  <1>4. ASSUME NEW t \in Threads, SpawnFails(t) PROVE Owning'
    BY <1>4 DEF SpawnFails, ReleaseSlot
  <1>5. ASSUME NEW t \in Threads, SetPid(t) \/ DrainOut(t) \/ DrainErr(t) \/ Wait(t)
        PROVE  Owning'
    BY <1>5 DEF SetPid, DrainOut, DrainErr, Wait
  <1>6. ASSUME NEW t \in Threads, Return(t) PROVE Owning'
    BY <1>6 DEF Return, ReleaseSlot
  <1>7. ASSUME NEW t \in Threads, Signal(t) PROVE Owning'
    BY <1>7 DEF Signal, threadVars
  <1>8. ASSUME NEW p \in Pids, ChildWrites(p) \/ ChildExits(p) \/ ChildDies(p) PROVE Owning'
    BY <1>8 DEF ChildWrites, ChildExits, ChildDies, Ends, threadVars
  <1>9. CASE Scan \/ EndScan \/ UNCHANGED vars
    BY <1>9 DEF Scan, EndScan, vars, threadVars
  <1>. QED
    BY <1>1, <1>2, <1>3, <1>4, <1>5, <1>6, <1>7, <1>8, <1>9 DEF Next, Run

\* No step disturbs another run's slot: a free one belongs to nobody.
LEMMA StepSlots == TableInv /\ [Next]_vars => SlotsTrackRuns'
  <1> SUFFICES ASSUME TableInv, [Next]_vars PROVE SlotsTrackRuns'
    OBVIOUS
  <1> USE TypeParts DEF TableInv, ThreadTypes, Owning, SlotsTrackRuns, WithSlot, WithChild, Goto,
          At
  <1>0. 0 \notin Slots
    BY DEF Slots
  <1>1. ASSUME NEW t \in Threads, Start(t) PROVE SlotsTrackRuns'
    BY <1>1 DEF Start
  <1>2. ASSUME NEW t \in Threads, TakeSlot(t) PROVE SlotsTrackRuns'
    <2>1. CASE UNCHANGED <<slots, mine>>
      BY <1>2, <2>1 DEF TakeSlot
    <2>2. ASSUME NEW i \in Slots, slots[i] = Free, slots' = [slots EXCEPT ![i] = Guard],
                 mine' = [mine EXCEPT ![t] = i], pc[t] = "slot", Goto(t, "spawn"), UNCHANGED kid
          PROVE  SlotsTrackRuns'
      <3>1. \A u \in Threads : mine[u] # i
        BY <1>0, <2>2, PidAssumption DEF Free, Guard
      <3>. QED
        BY <1>0, <2>2, <3>1
    <2>. QED
      BY <1>2, <2>1, <2>2 DEF TakeSlot
  <1>3. ASSUME NEW t \in Threads, Spawn(t) PROVE SlotsTrackRuns'
    BY <1>3 DEF Spawn
  <1>4. ASSUME NEW t \in Threads, SpawnFails(t) PROVE SlotsTrackRuns'
    BY <1>4, <1>0 DEF SpawnFails, ReleaseSlot
  <1>5. ASSUME NEW t \in Threads, SetPid(t) PROVE SlotsTrackRuns'
    BY <1>5, <1>0 DEF SetPid
  <1>6. ASSUME NEW t \in Threads, DrainOut(t) \/ DrainErr(t) \/ Wait(t)
        PROVE  SlotsTrackRuns'
    BY <1>6 DEF DrainOut, DrainErr, Wait
  <1>7. ASSUME NEW t \in Threads, Return(t) PROVE SlotsTrackRuns'
    BY <1>7, <1>0 DEF Return, ReleaseSlot
  <1>8. ASSUME NEW t \in Threads, Signal(t) PROVE SlotsTrackRuns'
    BY <1>8 DEF Signal, threadVars
  <1>9. ASSUME NEW p \in Pids, ChildWrites(p) \/ ChildExits(p) \/ ChildDies(p)
        PROVE  SlotsTrackRuns'
    BY <1>9 DEF ChildWrites, ChildExits, ChildDies, Ends, threadVars
  <1>10. CASE Scan \/ EndScan \/ UNCHANGED vars
    BY <1>10 DEF Scan, EndScan, vars, threadVars
  <1>. QED
    BY <1>1, <1>2, <1>3, <1>4, <1>5, <1>6, <1>7, <1>8, <1>9, <1>10 DEF Next, Run

\* A pid is handed out only when no child has it, and given back by its run.
LEMMA StepOneRun == TableInv /\ [Next]_vars => OneRun'
  <1> SUFFICES ASSUME TableInv, [Next]_vars PROVE OneRun'
    OBVIOUS
  <1> USE TypeParts DEF TableInv, ThreadTypes, ChildTypes, Owning, OneRun, WithSlot, WithChild,
          Goto, At
  <1>1. ASSUME NEW t \in Threads, Start(t) PROVE OneRun'
    BY <1>1 DEF Start, Resting
  <1>2. ASSUME NEW t \in Threads, TakeSlot(t) PROVE OneRun'
    BY <1>2 DEF TakeSlot, childVars
  <1>3. ASSUME NEW t \in Threads, Spawn(t) PROVE OneRun'
    BY <1>3 DEF Spawn
  <1>4. ASSUME NEW t \in Threads, SpawnFails(t) \/ Return(t) PROVE OneRun'
    BY <1>4 DEF SpawnFails, Return, ReleaseSlot, childVars
  <1>5. ASSUME NEW t \in Threads, SetPid(t) \/ DrainOut(t) \/ DrainErr(t) PROVE OneRun'
    BY <1>5 DEF SetPid, DrainOut, DrainErr, childVars
  <1>6. ASSUME NEW t \in Threads, Wait(t) PROVE OneRun'
    BY <1>6, OwnKid DEF Wait
  <1>7. ASSUME NEW t \in Threads, Signal(t) PROVE OneRun'
    BY <1>7 DEF Signal, threadVars, childVars
  <1>8. ASSUME NEW p \in Pids, ChildWrites(p) PROVE OneRun'
    BY <1>8 DEF ChildWrites, threadVars
  <1>9. ASSUME NEW p \in Pids, ChildExits(p) \/ ChildDies(p) PROVE OneRun'
    BY <1>9 DEF ChildExits, ChildDies, Ends, Running, threadVars
  <1>10. CASE Scan \/ EndScan \/ UNCHANGED vars
    BY <1>10 DEF Scan, EndScan, vars, threadVars, childVars
  <1>. QED
    BY <1>1, <1>2, <1>3, <1>4, <1>5, <1>6, <1>7, <1>8, <1>9, <1>10 DEF Next, Run

\* A registered child stays in its slot until it is reaped, so the scan meets it.
LEMMA StepScan == TableInv /\ [Next]_vars => ScanAhead'
  <1> SUFFICES ASSUME TableInv, [Next]_vars PROVE ScanAhead'
    OBVIOUS
  <1> USE TypeParts DEF TableInv, ThreadTypes, SignalTypes, ScanAhead, Goto, At, Running
  <1>1. ASSUME NEW t \in Threads, Start(t) \/ TakeSlot(t) \/ SpawnFails(t) PROVE ScanAhead'
    BY <1>1 DEF Start, TakeSlot, SpawnFails, ReleaseSlot, Resting, childVars, sigVars
  <1>2. ASSUME NEW t \in Threads, Spawn(t) PROVE ScanAhead'
    BY <1>2 DEF Spawn, ChildTypes, sigVars
  <1>3. ASSUME NEW t \in Threads, SetPid(t) \/ DrainOut(t) \/ DrainErr(t) PROVE ScanAhead'
    BY <1>3 DEF SetPid, DrainOut, DrainErr, childVars, sigVars
  <1>4. ASSUME NEW t \in Threads, Wait(t) PROVE ScanAhead'
    BY <1>4, OwnKid DEF Wait, WithChild, ChildTypes
  <1>5. ASSUME NEW t \in Threads, Return(t) PROVE ScanAhead'
    BY <1>5 DEF Return, ReleaseSlot, childVars, sigVars
  <1>6. ASSUME NEW t \in Threads, Signal(t) PROVE ScanAhead'
    <2>1. \A p \in Registered \cap Running :
            \E u \in Threads : kid[u] = p /\ mine[u] >= 1 /\ pc[u] \in {"out", "err", "wait"}
      BY OwnKid DEF Registered, WithChild, Slots
    <2>. QED
      BY <1>6, <2>1 DEF Signal, threadVars, childVars
  <1>7. ASSUME NEW p \in Pids, ChildWrites(p) PROVE ScanAhead'
    BY <1>7 DEF ChildWrites, threadVars, sigVars
  <1>8. ASSUME NEW p \in Pids, ChildExits(p) \/ ChildDies(p) PROVE ScanAhead'
    BY <1>8 DEF ChildExits, ChildDies, Ends, threadVars, sigVars, ChildTypes
  <1>9. CASE Scan
    <2>1. ASSUME NEW t \in Threads, pc[t] \in {"out", "err", "wait"}, mine[t] = scan
          PROVE  slots[scan] = kid[t]
      BY <2>1, <1>9 DEF SlotsTrackRuns, Owning, WithSlot, WithChild
    <2>. QED
      BY <1>9, <2>1, OwnKid DEF Scan, threadVars, childVars, Slots, WithChild
  <1>10. CASE EndScan
    BY <1>10 DEF EndScan, threadVars, childVars
  <1>11. CASE UNCHANGED vars
    BY <1>11 DEF vars, threadVars, childVars, sigVars
  <1>. QED
    BY <1>1, <1>2, <1>3, <1>4, <1>5, <1>6, <1>7, <1>8, <1>9, <1>10, <1>11 DEF Next, Run
-----------------------------------------------------------------------------
\* Pipes are closed after the drain, their write ends before it.
LEMMA StepPipesOpen == IInv /\ [Next]_vars => PipesOpen'
  <1> SUFFICES ASSUME IInv, [Next]_vars PROVE PipesOpen'
    OBVIOUS
  <1> USE TypeParts DEF IInv, TableInv, PipeInv, ThreadTypes, PipeTypes, PipesOpen, Goto, At
  <1>1. ASSUME NEW t \in Threads, Start(t) PROVE PipesOpen'
    BY <1>1 DEF Start
  <1>2. ASSUME NEW t \in Threads, TakeSlot(t) \/ Spawn(t) \/ SpawnFails(t) PROVE PipesOpen'
    BY <1>2 DEF TakeSlot, Spawn, SpawnFails, pipeVars
  <1>3. ASSUME NEW t \in Threads, SetPid(t) PROVE PipesOpen'
    BY <1>3 DEF SetPid
  <1>4. ASSUME NEW t \in Threads, DrainOut(t) \/ DrainErr(t) PROVE PipesOpen'
    BY <1>4 DEF DrainOut, DrainErr
  <1>5. ASSUME NEW t \in Threads, Wait(t) \/ Return(t) PROVE PipesOpen'
    BY <1>5 DEF Wait, Return, pipeVars
  <1>6. ASSUME NEW t \in Threads, Signal(t) PROVE PipesOpen'
    BY <1>6 DEF Signal, threadVars, pipeVars
  <1>7. ASSUME NEW p \in Pids, ChildWrites(p) \/ ChildExits(p) \/ ChildDies(p) PROVE PipesOpen'
    BY <1>7 DEF ChildWrites, ChildExits, ChildDies, Ends, threadVars, pipeVars
  <1>8. CASE Scan \/ EndScan \/ UNCHANGED vars
    BY <1>8 DEF Scan, EndScan, vars, threadVars, pipeVars
  <1>. QED
    BY <1>1, <1>2, <1>3, <1>4, <1>5, <1>6, <1>7, <1>8 DEF Next, Run

\* End of file on stdout means that no writer of either pipe is left.
LEMMA StepWriters == IInv /\ [Next]_vars => Writers' /\ AtEnd'
  <1> SUFFICES ASSUME IInv, [Next]_vars PROVE Writers' /\ AtEnd'
    OBVIOUS
  <1> USE TypeParts DEF IInv, TableInv, PipeInv, ThreadTypes, PipeTypes, ChildTypes, PipesOpen,
          Writers, AtEnd, Goto, At
  <1>1. ASSUME NEW t \in Threads, Start(t) PROVE Writers' /\ AtEnd'
    BY <1>1 DEF Start
  <1>2. ASSUME NEW t \in Threads, TakeSlot(t) \/ SpawnFails(t) PROVE Writers' /\ AtEnd'
    BY <1>2 DEF TakeSlot, SpawnFails, pipeVars, childVars
  <1>3. ASSUME NEW t \in Threads, Spawn(t) PROVE Writers' /\ AtEnd'
    <2>1. \A u \in Threads : kid'[u] = IF u = t THEN kid'[t] ELSE kid[u]
      BY <1>3 DEF Spawn
    <2>2. \A u \in Threads : pc[u] \in WithChild => life[kid[u]] # "none"
      BY OwnKid
    <2>. QED
      BY <1>3, <2>1, <2>2 DEF Spawn, WithChild
  <1>4. ASSUME NEW t \in Threads, SetPid(t) PROVE Writers' /\ AtEnd'
    BY <1>4 DEF SetPid, childVars
  <1>5. ASSUME NEW t \in Threads, DrainOut(t) PROVE Writers' /\ AtEnd'
    BY <1>5 DEF DrainOut, Drained, EndOfFile, childVars
  <1>6. ASSUME NEW t \in Threads, DrainErr(t) PROVE Writers' /\ AtEnd'
    BY <1>6 DEF DrainErr, childVars
  <1>7. ASSUME NEW t \in Threads, Wait(t) \/ Return(t) PROVE Writers' /\ AtEnd'
    BY <1>7, OwnKid DEF Wait, Return, pipeVars, childVars, WithChild
  <1>8. ASSUME NEW t \in Threads, Signal(t) PROVE Writers' /\ AtEnd'
    BY <1>8 DEF Signal, threadVars, pipeVars, childVars
  <1>9. ASSUME NEW p \in Pids, ChildWrites(p) PROVE Writers' /\ AtEnd'
    <2>1. PICK t \in Threads : kid[t] = p /\ owner[p] = t /\ pc[t] \in WithChild
      BY <1>9 DEF ChildWrites, Writes, Running, OneRun
    <2>2. pc[t] # "err"
      BY <1>9, <2>1 DEF ChildWrites, Writes, Running
    <2>. QED
      BY <1>9, <2>1, <2>2 DEF ChildWrites, Writes, threadVars
  <1>10. ASSUME NEW p \in Pids, ChildExits(p) \/ ChildDies(p) PROVE Writers' /\ AtEnd'
    BY <1>10, OwnKid DEF ChildExits, ChildDies, Ends, threadVars, pipeVars, WithChild
  <1>11. CASE Scan \/ EndScan \/ UNCHANGED vars
    BY <1>11 DEF Scan, EndScan, vars, threadVars, pipeVars, childVars
  <1>. QED
    BY <1>1, <1>2, <1>3, <1>4, <1>5, <1>6, <1>7, <1>8, <1>9, <1>10, <1>11 DEF Next, Run

\* Children exit of themselves only when they have written everything.
LEMMA StepFinished == IInv /\ [Next]_vars => Finished'
  <1> SUFFICES ASSUME IInv, [Next]_vars PROVE Finished'
    OBVIOUS
  <1> USE TypeParts DEF IInv, TableInv, PipeInv, ThreadTypes, ChildTypes, Finished
  <1>1. ASSUME NEW t \in Threads,
               \/ Start(t) \/ TakeSlot(t) \/ SpawnFails(t) \/ SetPid(t) \/ DrainOut(t)
               \/ DrainErr(t) \/ Return(t) \/ Signal(t)
        PROVE  Finished'
    BY <1>1 DEF Start, TakeSlot, SpawnFails, SetPid, DrainOut, DrainErr, Return, Signal,
       childVars, sigVars
  <1>2. ASSUME NEW t \in Threads, Spawn(t) PROVE Finished'
    BY <1>2 DEF Spawn, sigVars
  <1>3. ASSUME NEW t \in Threads, Wait(t) PROVE Finished'
    BY <1>3 DEF Wait
  <1>4. ASSUME NEW p \in Pids, ChildWrites(p) PROVE Finished'
    BY <1>4 DEF ChildWrites, Writes, Running, sigVars
  <1>5. ASSUME NEW p \in Pids, ChildExits(p) \/ ChildDies(p) PROVE Finished'
    BY <1>5 DEF ChildExits, ChildDies, Ends, sigVars
  <1>6. CASE Scan \/ UNCHANGED vars
    BY <1>6 DEF Scan, vars, childVars, sigVars
  <1>7. CASE EndScan
    <2>1. alive
      BY <1>7, Sizes DEF ScanAhead, EndScan
    <2>. QED
      BY <1>7, <2>1 DEF EndScan, childVars
  <1>. QED
    BY <1>1, <1>2, <1>3, <1>4, <1>5, <1>6, <1>7 DEF Next, Run
-----------------------------------------------------------------------------
\* What a captured run has drained and has in its pipes is no more than what
\* its child writes.
LEMMA WithinDue ==
  ASSUME IInv, NEW t \in Threads, pc[t] \in {"set", "out", "err"}, open[t]
  PROVE  /\ kid[t] \in Pids
         /\ got[t] + outPipe[t] + errPipe[t] + toOut[kid[t]] + toErr[kid[t]] = due[t]
         /\ got[t] + outPipe[t] <= due[t] /\ got[t] + errPipe[t] <= due[t]
  <1>1. kid[t] \in Pids
    BY OwnKid DEF IInv, WithChild
  <1>2. /\ got[t] \in Nat /\ outPipe[t] \in Nat /\ errPipe[t] \in Nat
        /\ toOut[kid[t]] \in Nat /\ toErr[kid[t]] \in Nat /\ due[t] \in Nat
    BY <1>1, TypeParts, Sizes DEF IInv, TableInv, PipeTypes, ChildTypes
  <1>3. got[t] + outPipe[t] + errPipe[t] + toOut[kid[t]] + toErr[kid[t]] = due[t]
    BY DEF IInv, PipeInv, Accounts, Account
  <1>. QED
    BY <1>1, <1>2, <1>3

\* Every step keeps the pipes within Cap and what is drained within what is due.
LEMMA StepPipeTypes == IInv /\ [Next]_vars => PipeTypes'
  <1> SUFFICES ASSUME IInv, [Next]_vars PROVE PipeTypes'
    OBVIOUS
  <1> USE TypeParts DEF IInv, TableInv, PipeTypes
  <1>1. ASSUME NEW t \in Threads, Start(t) PROVE PipeTypes'
    BY <1>1, Sizes DEF Start
  <1>2. ASSUME NEW t \in Threads, TakeSlot(t) \/ Wait(t) \/ Return(t) \/ Signal(t)
        PROVE  PipeTypes'
    BY <1>2 DEF TakeSlot, Wait, Return, Signal, pipeVars
  <1>3. ASSUME NEW t \in Threads, Spawn(t) PROVE PipeTypes'
    BY <1>3, Sizes DEF Spawn
  <1>4. ASSUME NEW t \in Threads, SpawnFails(t) \/ SetPid(t) PROVE PipeTypes'
    BY <1>4 DEF SpawnFails, SetPid
  <1>5. ASSUME NEW t \in Threads, DrainOut(t) PROVE PipeTypes'
    <2>1. CASE UNCHANGED <<outPipe, got>>
      BY <1>5, <2>1 DEF DrainOut
    <2>2. CASE outPipe[t] > 0 /\ Drained(t, outPipe)
      <3>1. open[t] /\ pc[t] = "out"
        BY <1>5 DEF DrainOut, At, PipeInv, PipesOpen
      <3>2. got[t] + 1 \in 0..(MaxOut + MaxErr) /\ outPipe[t] - 1 \in 0..Cap
        BY <2>2, <3>1, WithinDue, Sizes
      <3>. QED
        BY <1>5, <2>2, <3>2 DEF DrainOut, Drained
    <2>. QED
      BY <1>5, <2>1, <2>2 DEF DrainOut
  <1>6. ASSUME NEW t \in Threads, DrainErr(t) PROVE PipeTypes'
    <2>1. CASE UNCHANGED <<errPipe, got>>
      BY <1>6, <2>1 DEF DrainErr
    <2>2. CASE errPipe[t] > 0 /\ Drained(t, errPipe) /\ UNCHANGED <<pc, open>>
      <3>1. open[t] /\ pc[t] = "err"
        BY <1>6 DEF DrainErr, At, PipeInv, PipesOpen
      <3>2. got[t] + 1 \in 0..(MaxOut + MaxErr) /\ errPipe[t] - 1 \in 0..Cap
        BY <2>2, <3>1, WithinDue, Sizes
      <3>. QED
        BY <1>6, <2>2, <3>2 DEF DrainErr, Drained
    <2>. QED
      BY <1>6, <2>1, <2>2 DEF DrainErr
  <1>7. ASSUME NEW p \in Pids, ChildWrites(p) PROVE PipeTypes'
    <2>1. ASSUME NEW pipe \in [Threads -> 0..Cap], NEW t \in Threads, pipe[t] < Cap
          PROVE  [pipe EXCEPT ![t] = @ + 1] \in [Threads -> 0..Cap]
      BY <2>1, Sizes
    <2>2. owner[p] \in Threads
      BY <1>7, OwnKid DEF ChildWrites, Writes, Running, OneRun
    <2>. QED
      BY <1>7, <2>1, <2>2 DEF ChildWrites, Writes
  <1>8. ASSUME NEW p \in Pids, ChildExits(p) \/ ChildDies(p) PROVE PipeTypes'
    BY <1>8 DEF ChildExits, ChildDies, Ends, pipeVars
  <1>9. CASE Scan \/ EndScan \/ UNCHANGED vars
    BY <1>9 DEF Scan, EndScan, vars, pipeVars
  <1>. QED
    BY <1>1, <1>2, <1>3, <1>4, <1>5, <1>6, <1>7, <1>8, <1>9 DEF Next, Run

\* What changes nothing of a run and its child leaves its account as it is.
LEMMA AccountKept ==
  ASSUME IInv, NEW u \in Threads, Account(u),
         pc'[u] = pc[u], open'[u] <=> open[u], got'[u] = got[u], due'[u] = due[u],
         outPipe'[u] = outPipe[u], errPipe'[u] = errPipe[u],
         pc[u] \in WithChild =>
            /\ kid'[u] = kid[u]
            /\ toOut'[kid[u]] = toOut[kid[u]] /\ toErr'[kid[u]] = toErr[kid[u]]
            /\ Gone(kid[u]) => Gone(kid[u])'
  PROVE  Account(u)'
  BY DEF Account, WithChild, Gone

\* A chunk is written once and drained once.
LEMMA StepAccounts == IInv /\ [Next]_vars => Accounts'
  <1> SUFFICES ASSUME IInv, [Next]_vars PROVE Accounts'
    OBVIOUS
  <1> USE TypeParts DEF IInv, TableInv, PipeInv, ThreadTypes, PipeTypes, PipesOpen, Accounts,
          Goto, At
  <1>1. ASSUME NEW t \in Threads, Start(t) PROVE Accounts'
    <2>1. Account(t)'
      BY <1>1 DEF Start, Account
    <2>2. ASSUME NEW u \in Threads, u # t PROVE Account(u)'
      BY <1>1, <2>2, AccountKept DEF Start, Gone
    <2>. QED
      BY <2>1, <2>2
  <1>2. ASSUME NEW t \in Threads, TakeSlot(t) \/ SpawnFails(t) PROVE Accounts'
    <2>1. Account(t)'
      BY <1>2 DEF TakeSlot, SpawnFails, pipeVars, Account
    <2>2. ASSUME NEW u \in Threads, u # t PROVE Account(u)'
      BY <1>2, <2>2, AccountKept DEF TakeSlot, SpawnFails, pipeVars, childVars, Gone
    <2>. QED
      BY <2>1, <2>2
  <1>3. ASSUME NEW t \in Threads, Spawn(t) PROVE Accounts'
    <2>1. PICK p \in Pids, o \in 0..MaxOut, e \in 0..MaxErr :
            /\ life[p] = "none" /\ life' = [life EXCEPT ![p] = "run"]
            /\ toOut' = [toOut EXCEPT ![p] = o] /\ toErr' = [toErr EXCEPT ![p] = e]
            /\ due' = [due EXCEPT ![t] = IF open[t] THEN o + e ELSE 0]
            /\ kid' = [kid EXCEPT ![t] = p]
      BY <1>3 DEF Spawn
    <2>2. /\ UNCHANGED <<open, outPipe, errPipe, got>>
          /\ pc[t] = "spawn" /\ pc' = [pc EXCEPT ![t] = "set"]
      BY <1>3 DEF Spawn
    <2>3. Account(t)'
      <3>1. kid'[t] = p /\ toOut'[p] = o /\ toErr'[p] = e /\ due'[t] = IF open[t] THEN o + e ELSE 0
        BY <2>1 DEF ChildTypes
      <3>2. got[t] = 0 /\ outPipe[t] = 0 /\ errPipe[t] = 0
        BY <2>2 DEF Account
      <3>3. o \in Nat /\ e \in Nat
        BY Sizes
      <3>. QED
        BY <2>2, <3>1, <3>2, <3>3 DEF Account
    <2>4. ASSUME NEW u \in Threads, u # t PROVE Account(u)'
      BY <2>1, <2>2, <2>4, OwnKid, AccountKept DEF Gone, ChildTypes
    <2>. QED
      BY <2>3, <2>4
  <1>4. ASSUME NEW t \in Threads, SetPid(t) PROVE Accounts'
    <2>1. Account(t)'
      BY <1>4, Sizes DEF SetPid, childVars, Account
    <2>2. ASSUME NEW u \in Threads, u # t PROVE Account(u)'
      BY <1>4, <2>2, AccountKept DEF SetPid, childVars, Gone
    <2>. QED
      BY <2>1, <2>2
  <1>5. ASSUME NEW t \in Threads, DrainOut(t) PROVE Accounts'
    <2>1. Account(t)'
      <3>1. CASE UNCHANGED <<outPipe, got>> /\ Goto(t, "err")
        BY <1>5, <3>1 DEF DrainOut, childVars, Account
      <3>2. CASE outPipe[t] > 0 /\ Drained(t, outPipe) /\ UNCHANGED pc
        <4>1. kid[t] \in Pids
          BY <1>5, OwnKid DEF DrainOut, WithChild
        <4>2. toOut[kid[t]] \in Nat /\ toErr[kid[t]] \in Nat
          BY <4>1, Sizes DEF ChildTypes
        <4>. QED
          BY <1>5, <3>2, <4>2, Sizes DEF DrainOut, Drained, childVars, Account
      <3>. QED
        BY <1>5, <3>1, <3>2 DEF DrainOut
    <2>2. ASSUME NEW u \in Threads, u # t PROVE Account(u)'
      BY <1>5, <2>2, AccountKept DEF DrainOut, Drained, childVars, Gone
    <2>. QED
      BY <2>1, <2>2
  <1>6. ASSUME NEW t \in Threads, DrainErr(t) PROVE Accounts'
    <2>0. kid[t] \in Pids /\ life[kid[t]] # "none"
      BY <1>6, OwnKid DEF DrainErr, WithChild
    <2>1. toOut[kid[t]] \in Nat /\ toErr[kid[t]] \in Nat
      BY <2>0, Sizes DEF ChildTypes
    <2>2. Account(t)'
      <3>1. CASE errPipe[t] > 0 /\ Drained(t, errPipe) /\ UNCHANGED <<pc, open>>
        BY <1>6, <2>1, <3>1, Sizes DEF DrainErr, Drained, childVars, Account
      <3>2. CASE EndOfFile(t, errPipe) /\ Goto(t, "wait") /\ UNCHANGED <<errPipe, got>>
        <4>1. Gone(kid[t])
          BY <1>6, <2>0 DEF DrainErr, Writers, AtEnd, Gone, ChildTypes
        <4>2. got[t] + toOut[kid[t]] + toErr[kid[t]] = due[t]
          BY <1>6, <2>1, <3>2, Sizes DEF DrainErr, EndOfFile, AtEnd, Account
        <4>. QED
          BY <1>6, <3>2, <4>1, <4>2 DEF DrainErr, childVars, Account, Gone
      <3>. QED
        BY <1>6, <3>1, <3>2 DEF DrainErr
    <2>3. ASSUME NEW u \in Threads, u # t PROVE Account(u)'
      BY <1>6, <2>3, AccountKept DEF DrainErr, Drained, childVars, Gone
    <2>. QED
      BY <2>2, <2>3
  <1>7. ASSUME NEW t \in Threads, Wait(t) PROVE Accounts'
    <2>1. Account(t)'
      BY <1>7 DEF Wait, Account
    <2>2. ASSUME NEW u \in Threads, u # t PROVE Account(u)'
      <3>1. kid[u] # kid[t] \/ pc[u] \notin WithChild
        BY <1>7, <2>2, OwnKid DEF Wait, WithChild
      <3>. QED
        BY <1>7, <2>2, <3>1, AccountKept DEF Wait, pipeVars, Gone, ChildTypes
    <2>. QED
      BY <2>1, <2>2
  <1>8. ASSUME NEW t \in Threads, Return(t) \/ Signal(t) PROVE Accounts'
    <2>1. ASSUME NEW u \in Threads PROVE Account(u)'
      BY <1>8 DEF Return, Signal, threadVars, pipeVars, childVars, Account, Gone
    <2>. QED
      BY <2>1
  <1>9. ASSUME NEW p \in Pids, ChildWrites(p) PROVE Accounts'
    <2>1. PICK t \in Threads : kid[t] = p /\ owner[p] = t /\ pc[t] \in WithChild
      BY <1>9 DEF ChildWrites, Writes, Running, OneRun
    <2>2. UNCHANGED <<threadVars, open, got, due, life>> /\ life[p] = "run"
      BY <1>9 DEF ChildWrites, Writes, Running
    <2>3. Account(t)'
      <3>1. toOut[p] \in Nat /\ toErr[p] \in Nat
        BY Sizes DEF ChildTypes
      <3>2. CASE open[t]
        <4>1. outPipe'[t] + errPipe'[t] + toOut'[p] + toErr'[p]
                 = outPipe[t] + errPipe[t] + toOut[p] + toErr[p]
          BY <1>9, <2>1, <3>1, <3>2, Sizes DEF ChildWrites, Writes, ChildTypes
        <4>2. /\ outPipe'[t] \in Int /\ errPipe'[t] \in Int /\ toOut'[p] \in Int
              /\ toErr'[p] \in Int /\ got[t] \in Int /\ due[t] \in Int
          BY <1>9, <2>1, <3>1, <3>2, Sizes DEF ChildWrites, Writes, ChildTypes
        <4>. QED
          <5>1. pc[t] \in {"set", "out", "err"} /\ kid'[t] = p /\ pc'[t] = pc[t]
            BY <2>1, <2>2, <3>2 DEF threadVars, WithChild
          <5>2. got[t] + outPipe[t] + errPipe[t] + toOut[p] + toErr[p] = due[t]
            BY <2>1, <3>2, <5>1 DEF Account
          <5>3. got'[t] + outPipe'[t] + errPipe'[t] + toOut'[p] + toErr'[p] = due'[t]
            BY <2>2, <3>1, <4>1, <4>2, <5>2, Sizes
          <5>. QED
            BY <2>2, <3>2, <5>1, <5>3 DEF Account
      <3>3. CASE ~open[t]
        BY <2>1, <2>2, <3>3 DEF threadVars, WithChild, Account, Gone
      <3>. QED
        BY <3>2, <3>3
    <2>4. ASSUME NEW u \in Threads, u # t PROVE Account(u)'
      <3>1. kid[u] # p \/ pc[u] \notin WithChild
        BY <2>1, <2>4, OwnKid
      <3>2. outPipe'[u] = outPipe[u] /\ errPipe'[u] = errPipe[u]
        BY <1>9, <2>1, <2>4 DEF ChildWrites, Writes
      <3>3. pc[u] \in WithChild => toOut'[kid[u]] = toOut[kid[u]] /\ toErr'[kid[u]] = toErr[kid[u]]
        BY <1>9, <3>1, OwnKid DEF ChildWrites, Writes, ChildTypes
      <3>. QED
        BY <2>2, <3>2, <3>3, AccountKept DEF threadVars, Gone
    <2>. QED
      BY <2>3, <2>4
  <1>10. ASSUME NEW p \in Pids, ChildExits(p) \/ ChildDies(p) PROVE Accounts'
    <2>1. ASSUME NEW u \in Threads PROVE Account(u)'
      BY <1>10, OwnKid, AccountKept DEF ChildExits, ChildDies, Ends, threadVars, pipeVars, Gone,
         ChildTypes
    <2>. QED
      BY <2>1
  <1>11. CASE Scan \/ EndScan \/ UNCHANGED vars
    <2>1. ASSUME NEW u \in Threads PROVE Account(u)'
      BY <1>11, AccountKept DEF Scan, EndScan, vars, threadVars, pipeVars, childVars, Gone
    <2>. QED
      BY <2>1
  <1>. QED
    BY <1>1, <1>2, <1>3, <1>4, <1>5, <1>6, <1>7, <1>8, <1>9, <1>10, <1>11 DEF Next, Run

-----------------------------------------------------------------------------
\* The invariant holds in every reachable state.
LEMMA Inductive == Spec => []IInv
  <1>1. (ThreadTypes /\ PipeTypes /\ ChildTypes /\ SignalTypes)' => TypeOK'
    BY DEF TypeOK, ThreadTypes, PipeTypes, ChildTypes, SignalTypes, WithSlot, WithChild, Resting
  <1>2. IInv /\ [Next]_vars => IInv'
    BY <1>1, StepThreadTypes, StepPipeTypes, StepChildTypes, StepSignalTypes, StepOwning, StepSlots,
       StepOneRun, StepScan, StepPipesOpen, StepWriters, StepFinished, StepAccounts
       DEF IInv, TableInv, PipeInv
  <1>. QED
    BY <1>2, InitIInv, PTL DEF Spec

\* Every variable keeps its type: a pipe never holds more than Cap chunks, no
\* run captures more than a child can write, and slots hold pids or the two
\* reserved values.
THEOREM ProcessTypeOK == Spec => []TypeOK
  BY Inductive, PTL DEF IInv, TableInv

\* The table of active children never loses track: a run owns one slot from
\* taking it to returning, and nothing else occupies one.
THEOREM SlotsAlwaysTrack == Spec => []SlotsTrackRuns
  BY Inductive, PTL DEF IInv, TableInv

\* No child outlives the run that spawned it unreaped.
THEOREM ChildrenAlwaysReaped == Spec => []ChildrenAreReaped
  <1>1. TableInv => ChildrenAreReaped
    BY DEF TableInv, OneRun, ChildrenAreReaped, WithChild, Resting
  <1>. QED
    BY <1>1, Inductive, PTL DEF IInv

\* A signal handler that has looked at every slot has signalled every child
\* that was registered when it started and still runs, however runs took,
\* filled and released slots meanwhile.
THEOREM SignalAlwaysReaches == Spec => []SignalReachesRegistered
  <1>1. TableInv => SignalReachesRegistered
    <2> SUFFICES ASSUME TableInv, scan = NSlots + 1, NEW p \in (expected \cap Running) \ hit
                 PROVE  FALSE
      BY DEF SignalReachesRegistered
    <2>1. PICK t \in Threads : mine[t] >= NSlots + 1 /\ pc[t] \in {"out", "err", "wait"}
      BY Sizes DEF TableInv, ScanAhead
    <2>2. mine[t] \in 1..NSlots
      BY <2>1, OwnKid DEF WithChild, Slots
    <2>. QED
      BY <2>1, <2>2, Sizes
  <1>. QED
    BY <1>1, Inductive, PTL DEF IInv

\* The output of a child that ran to its end is in the result whole, and
\* nothing else is, however many runs share the inherited pipe ends.
THEOREM CaptureAlwaysWhole == Spec => []CaptureIsWhole
  <1>1. IInv => CaptureIsWhole
    <2> SUFFICES ASSUME IInv, NEW t \in Threads, alive, pc[t] = "wait", life[kid[t]] = "zombie"
                 PROVE  got[t] = due[t]
      BY DEF CaptureIsWhole
    <2>1. kid[t] \in Pids
      BY OwnKid DEF IInv, WithChild
    <2>2. toOut[kid[t]] \in Nat /\ toErr[kid[t]] \in Nat /\ got[t] \in Nat
      BY <2>1, TypeParts, Sizes DEF IInv, TableInv, ChildTypes, PipeTypes
    <2>3. toOut[kid[t]] + toErr[kid[t]] = 0
      BY <2>1 DEF IInv, PipeInv, Finished
    <2>. QED
      BY <2>2, <2>3 DEF IInv, PipeInv, Accounts, Account
  <1>. QED
    BY <1>1, Inductive, PTL
-----------------------------------------------------------------------------
\* A run that can only wait: for a chunk or end of file, or for its child's end.
Stuck(t) ==
    \/ pc[t] = "out" /\ outPipe[t] = 0 /\ ~EndOfFile(t, outPipe)
    \/ pc[t] = "err" /\ errPipe[t] = 0 /\ ~EndOfFile(t, errPipe)
    \/ pc[t] = "wait" /\ ~Gone(kid[t])

\* A child that can only wait: it has something to write, to full pipes.
Blocked(p) ==
    /\ open[owner[p]] /\ toOut[p] + toErr[p] > 0
    /\ toOut[p] > 0 => outPipe[owner[p]] = Cap
    /\ toErr[p] > 0 => errPipe[owner[p]] = Cap

\* Whenever a run can only wait, another run or a child can move.
SomeoneMoves ==
    \A t \in Threads : Stuck(t) =>
        \/ \E u \in Threads : pc[u] \notin Resting /\ ~Stuck(u)
        \/ \E p \in Running : ~Blocked(p)

\* Only a child that runs holds the write ends of a pipe.
HoldersRun == \A t \in Threads : inherits[t] \subseteq Running

\* What a child has written to stderr and has yet to write is what it was to.
ErrFits ==
    \A t \in Threads : pc[t] \in {"set", "out", "err"} /\ open[t] =>
        errPipe[t] + toErr[kid[t]] <= MaxErr

\* A child takes the write ends when it starts and drops them when it ends.
LEMMA StepHolders == IInv /\ HoldersRun /\ [Next]_vars => HoldersRun'
  <1> SUFFICES ASSUME IInv, HoldersRun, [Next]_vars PROVE HoldersRun'
    OBVIOUS
  <1> USE TypeParts DEF IInv, TableInv, ChildTypes, HoldersRun, Running
  <1>1. ASSUME NEW t \in Threads, Start(t) PROVE HoldersRun'
    BY <1>1 DEF Start
  <1>2. ASSUME NEW t \in Threads,
               \/ TakeSlot(t) \/ SpawnFails(t) \/ SetPid(t) \/ DrainOut(t) \/ DrainErr(t)
               \/ Return(t) \/ Signal(t)
        PROVE  HoldersRun'
    BY <1>2 DEF TakeSlot, SpawnFails, SetPid, DrainOut, DrainErr, Return, Signal, childVars
  <1>3. ASSUME NEW t \in Threads, Spawn(t) PROVE HoldersRun'
    BY <1>3 DEF Spawn
  <1>4. ASSUME NEW t \in Threads, Wait(t) PROVE HoldersRun'
    BY <1>4 DEF Wait, Gone
  <1>5. ASSUME NEW p \in Pids, ChildWrites(p) PROVE HoldersRun'
    BY <1>5 DEF ChildWrites
  <1>6. ASSUME NEW p \in Pids, ChildExits(p) \/ ChildDies(p) PROVE HoldersRun'
    BY <1>6 DEF ChildExits, ChildDies, Ends
  <1>7. CASE Scan \/ EndScan \/ UNCHANGED vars
    BY <1>7 DEF Scan, EndScan, vars, childVars
  <1>. QED
    BY <1>1, <1>2, <1>3, <1>4, <1>5, <1>6, <1>7 DEF Next, Run

\* A run whose child and whose stderr pipe stay as they are keeps to its share.
LEMMA ErrKept ==
  ASSUME ErrFits, NEW u \in Threads,
         pc'[u] \in {"set", "out", "err"} /\ open'[u] =>
            /\ pc[u] \in {"set", "out", "err"} /\ open[u]
            /\ kid'[u] = kid[u] /\ errPipe'[u] = errPipe[u] /\ toErr'[kid[u]] = toErr[kid[u]],
         pc'[u] \in {"set", "out", "err"}, open'[u]
  PROVE  errPipe'[u] + toErr'[kid'[u]] <= MaxErr
  BY DEF ErrFits

\* A chunk of stderr goes from the child to the pipe, and from the pipe to rxy.
LEMMA StepErrFits == IInv /\ ErrFits /\ [Next]_vars => ErrFits'
  <1> SUFFICES ASSUME IInv, ErrFits, [Next]_vars,
                      NEW u \in Threads, pc'[u] \in {"set", "out", "err"}, open'[u]
               PROVE  errPipe'[u] + toErr'[kid'[u]] <= MaxErr
    BY DEF ErrFits
  <1> USE TypeParts DEF IInv, TableInv, PipeInv, ThreadTypes, PipeTypes, Goto, At
  <1>1. ASSUME NEW t \in Threads, Start(t) PROVE errPipe'[u] + toErr'[kid'[u]] <= MaxErr
    BY <1>1, ErrKept DEF Start
  <1>2. ASSUME NEW t \in Threads, TakeSlot(t) \/ SpawnFails(t)
        PROVE  errPipe'[u] + toErr'[kid'[u]] <= MaxErr
    BY <1>2, ErrKept DEF TakeSlot, SpawnFails, pipeVars, childVars
  <1>3. ASSUME NEW t \in Threads, Spawn(t) PROVE errPipe'[u] + toErr'[kid'[u]] <= MaxErr
    <2>1. PICK p \in Pids, e \in 0..MaxErr :
            /\ life[p] = "none" /\ kid' = [kid EXCEPT ![t] = p]
            /\ toErr' = [toErr EXCEPT ![p] = e]
      BY <1>3 DEF Spawn
    <2>2. /\ UNCHANGED <<open, errPipe>>
          /\ pc[t] = "spawn" /\ pc' = [pc EXCEPT ![t] = "set"]
      BY <1>3 DEF Spawn
    <2>3. CASE u = t
      <3>1. errPipe'[u] = 0 /\ kid'[u] = p /\ toErr'[p] = e
        BY <2>1, <2>2, <2>3 DEF Accounts, Account, ChildTypes
      <3>. QED
        BY <3>1, Sizes
    <2>4. CASE u # t
      <3>1. pc[u] \in {"set", "out", "err"} /\ kid'[u] = kid[u] /\ kid[u] # p
        BY <2>1, <2>2, <2>4, OwnKid DEF WithChild
      <3>. QED
        BY <2>1, <2>2, <3>1, ErrKept, OwnKid DEF ChildTypes, WithChild
    <2>. QED
      BY <2>3, <2>4
  <1>4. ASSUME NEW t \in Threads, SetPid(t) \/ DrainOut(t)
        PROVE  errPipe'[u] + toErr'[kid'[u]] <= MaxErr
    BY <1>4, ErrKept DEF SetPid, DrainOut, childVars
  <1>5. ASSUME NEW t \in Threads, DrainErr(t) PROVE errPipe'[u] + toErr'[kid'[u]] <= MaxErr
    <2>1. CASE u = t /\ Drained(t, errPipe)
      <3>1. kid[t] \in Pids
        BY <1>5, OwnKid DEF DrainErr, WithChild
      <3>2. toErr[kid[t]] \in Nat /\ errPipe[t] \in Nat
        BY <3>1, Sizes DEF ChildTypes
      <3>3. errPipe[t] + toErr[kid[t]] <= MaxErr
        BY <1>5, <2>1 DEF DrainErr, ErrFits
      <3>4. errPipe'[t] = errPipe[t] - 1 /\ toErr' = toErr /\ kid' = kid
        BY <1>5, <2>1 DEF DrainErr, Drained, childVars
      <3>. QED
        BY <2>1, <3>2, <3>3, <3>4, Sizes
    <2>2. CASE u # t \/ UNCHANGED errPipe
      BY <1>5, <2>2, ErrKept DEF DrainErr, Drained, childVars
    <2>. QED
      BY <1>5, <2>1, <2>2 DEF DrainErr
  <1>6. ASSUME NEW t \in Threads, Wait(t) \/ Return(t) \/ Signal(t)
        PROVE  errPipe'[u] + toErr'[kid'[u]] <= MaxErr
    BY <1>6, ErrKept DEF Wait, Return, Signal, threadVars, pipeVars, childVars
  <1>7. ASSUME NEW p \in Pids, ChildWrites(p) PROVE errPipe'[u] + toErr'[kid'[u]] <= MaxErr
    <2>1. /\ UNCHANGED <<threadVars, open>>
          /\ \/ UNCHANGED <<errPipe, toErr>>
             \/ Writes(p, errPipe, toErr)
      BY <1>7 DEF ChildWrites
    <2>2. PICK t \in Threads : kid[t] = p /\ owner[p] = t /\ pc[t] \in WithChild
      BY <1>7 DEF ChildWrites, Writes, Running, OneRun
    <2>3. pc[u] \in {"set", "out", "err"} /\ open[u] /\ kid'[u] = kid[u] /\ kid[u] \in Pids
      BY <2>1, OwnKid DEF threadVars, WithChild
    <2>4. errPipe[u] \in Nat /\ toErr[kid[u]] \in Nat /\ errPipe[u] + toErr[kid[u]] <= MaxErr
      BY <2>3, Sizes DEF ChildTypes, ErrFits
    <2>5. CASE UNCHANGED <<errPipe, toErr>>
      BY <2>3, <2>4, <2>5
    <2>6. CASE Writes(p, errPipe, toErr) /\ u = t
      <3>1. errPipe'[u] = errPipe[u] + 1 /\ toErr'[kid[u]] = toErr[kid[u]] - 1
        BY <2>2, <2>3, <2>6 DEF Writes, ChildTypes
      <3>. QED
        BY <2>3, <2>4, <3>1, Sizes
    <2>7. CASE Writes(p, errPipe, toErr) /\ u # t
      <3>1. kid[u] # p
        BY <2>2, <2>3, <2>7, OwnKid DEF WithChild
      <3>2. errPipe'[u] = errPipe[u] /\ toErr'[kid[u]] = toErr[kid[u]]
        BY <2>2, <2>3, <2>7, <3>1 DEF Writes, ChildTypes
      <3>. QED
        BY <2>3, <2>4, <3>2
    <2>. QED
      BY <2>1, <2>5, <2>6, <2>7
  <1>8. ASSUME NEW p \in Pids, ChildExits(p) \/ ChildDies(p)
        PROVE  errPipe'[u] + toErr'[kid'[u]] <= MaxErr
    BY <1>8, ErrKept DEF ChildExits, ChildDies, Ends, threadVars, pipeVars
  <1>9. CASE Scan \/ EndScan \/ UNCHANGED vars
    BY <1>9, ErrKept DEF Scan, EndScan, vars, threadVars, pipeVars, childVars
  <1>. QED
    BY <1>1, <1>2, <1>3, <1>4, <1>5, <1>6, <1>7, <1>8, <1>9 DEF Next, Run

\* A child that is blocked is blocked on stdout, by a run that has yet to drain it.
LEMMA BlockedOnStdout ==
  ASSUME MaxErr <= Cap, IInv, ErrFits, NEW p \in Running, Blocked(p)
  PROVE  \E u \in Threads : pc[u] \notin Resting /\ ~Stuck(u)
  <1> USE TypeParts, Sizes DEF IInv, TableInv, PipeInv, ThreadTypes, PipeTypes, ChildTypes
  <1>1. PICK u \in Threads : kid[u] = p /\ owner[p] = u /\ pc[u] \in WithChild
    BY DEF OneRun, Running
  <1>2. open[u] /\ pc[u] \in {"set", "out", "err"}
    BY <1>1 DEF Blocked, PipesOpen, WithChild
  <1>3. toErr[p] \in Nat /\ toOut[p] \in Nat /\ errPipe[u] \in Nat
    BY DEF Running
  <1>4. errPipe[u] + toErr[p] <= MaxErr
    BY <1>1, <1>2 DEF ErrFits
  <1>5. toErr[p] = 0
    BY <1>1, <1>3, <1>4 DEF Blocked
  <1>6. outPipe[u] = Cap
    BY <1>1, <1>3, <1>5 DEF Blocked
  <1>7. pc[u] # "err"
    BY <1>6 DEF AtEnd
  <1>8. pc[u] \notin Resting /\ ~Stuck(u)
    BY <1>2, <1>6, <1>7 DEF Stuck, Resting
  <1>. QED
    BY <1>8

\* Draining stdout to its end before stderr jams nothing, as long as what a
\* child writes to stderr fits its pipe: not with other runs' children holding
\* the write ends (no O_CLOEXEC), not with any number of runs at once.  The
\* condition is that of RunsReturn, and the half of it that needs no fairness.
THEOREM PipesNeverJam == ASSUME MaxErr <= Cap PROVE Spec => []SomeoneMoves
  <1>1. IInv /\ HoldersRun /\ ErrFits => SomeoneMoves
    <2> SUFFICES ASSUME IInv, HoldersRun, ErrFits, NEW t \in Threads, Stuck(t),
                        \A p \in Running : Blocked(p)
                 PROVE  \E u \in Threads : pc[u] \notin Resting /\ ~Stuck(u)
      BY DEF SomeoneMoves
    <2>1. pc[t] # "err"
      BY DEF Stuck, EndOfFile, IInv, PipeInv, PipesOpen, AtEnd
    <2>2. pc[t] # "wait"
      <3> SUFFICES ASSUME pc[t] = "wait" PROVE FALSE
        OBVIOUS
      <3>1. kid[t] \in Running /\ owner[kid[t]] = t /\ ~open[t]
        BY OwnKid, TypeParts
        DEF Stuck, Gone, Running, WithChild, IInv, TableInv, PipeInv, PipesOpen, ChildTypes
      <3>. QED
        BY <3>1 DEF Blocked
    <2>3. PICK p : p \in inherits[t]
      BY <2>1, <2>2 DEF Stuck, EndOfFile, IInv, PipeInv, PipesOpen
    <2>. QED
      BY <2>3, BlockedOnStdout DEF HoldersRun
  <1>2. Init => HoldersRun /\ ErrFits
    BY DEF Init, HoldersRun, ErrFits
  <1>3. IInv /\ HoldersRun /\ ErrFits /\ [Next]_vars => (HoldersRun /\ ErrFits)'
    BY StepHolders, StepErrFits
  <1>. QED
    BY <1>1, <1>2, <1>3, Inductive, PTL DEF Spec
=============================================================================
