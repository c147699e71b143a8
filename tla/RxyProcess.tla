----------------------------- MODULE RxyProcess -----------------------------
(***************************************************************************)
(* process::run (rxy/process/process.cpp), which spawns every git, tar,     *)
(* rexc, build script and test binary: the table of active children, the    *)
(* signal handler that scans it, and the two pipes of a captured run.       *)
(* Written for concurrent callers ("one per concurrent run() call").        *)
(***************************************************************************)
EXTENDS Integers, FiniteSets

CONSTANTS
    Threads, NoThread,
    Pids,           \* process ids the kernel hands out, all positive
    NSlots,         \* kMaxConcurrentChildren
    Cap,            \* what a pipe holds, in chunks
    MaxOut, MaxErr, \* what a child writes at most, in chunks
    MaxSignals      \* bound: SIGINT/SIGTERM sent to rxy

Slots == 1..NSlots
Free  == -1         \* the slot values of the code that are no pids
Guard == 0

ASSUME PidAssumption    == Pids \subseteq Nat \ {0}
ASSUME ThreadAssumption == NoThread \notin Threads
ASSUME SizeAssumption   == /\ {NSlots, Cap} \subseteq Nat \ {0}
                           /\ {MaxOut, MaxErr, MaxSignals} \subseteq Nat

VARIABLES
    pc, mine, kid,  \* per thread: control point, slot index (0: none), child pid
    open, wend,     \* its pipes exist; rxy still has their write ends open
    outPipe, errPipe,       \* the chunks in them
    got, due,               \* chunks drained; chunks its child will write into them
    slots,          \* g_active_children
    life,           \* [Pids -> "none", "run", "zombie" or (killed) "dead"]
    owner,          \* [Pids -> the thread whose pipes its stdio refers to]
    toOut, toErr,   \* [Pids -> chunks it has yet to write]
    inherits,       \* [Threads -> children that hold write ends of its pipes]
    scan, on, any,  \* the handler: next slot (0: not running), its thread, any_forwarded
    hit, expected,  \* history: children signalled; those registered when it started
    alive,          \* rxy runs
    sent            \* signals so far

threadVars == <<pc, mine, kid>>
pipeVars   == <<open, wend, outPipe, errPipe, got, due>>
childVars  == <<life, owner, toOut, toErr, inherits>>
sigVars    == <<scan, on, any, hit, expected, alive, sent>>
vars == <<threadVars, pipeVars, slots, childVars, sigVars>>

NoPid == -1
Resting == {"idle", "threw"}    \* "threw": the last run found no free slot
Running == {p \in Pids : life[p] = "run"}
Registered == {kid[u] : u \in {t \in Threads : pc[t] \in {"out", "err", "wait"}}}
Gone(p) == life[p] \in {"zombie", "dead"}

TypeOK ==
    /\ pc \in [Threads -> Resting \cup {"slot", "spawn", "set", "out", "err", "wait", "clear"}]
    /\ mine \in [Threads -> Slots \cup {0}] /\ kid \in [Threads -> Pids \cup {NoPid}]
    /\ open \in [Threads -> BOOLEAN] /\ wend \in [Threads -> BOOLEAN]
    /\ outPipe \in [Threads -> 0..Cap] /\ errPipe \in [Threads -> 0..Cap]
    /\ got \in [Threads -> 0..(MaxOut + MaxErr)] /\ due \in [Threads -> 0..(MaxOut + MaxErr)]
    /\ slots \in [Slots -> {Free, Guard} \cup Pids]
    /\ life \in [Pids -> {"none", "run", "zombie", "dead"}]
    /\ owner \in [Pids -> Threads \cup {NoThread}]
    /\ toOut \in [Pids -> 0..MaxOut] /\ toErr \in [Pids -> 0..MaxErr]
    /\ inherits \in [Threads -> SUBSET Pids]
    /\ scan \in 0..(NSlots + 1) /\ on \in Threads \cup {NoThread} /\ any \in BOOLEAN
    /\ hit \subseteq Pids /\ expected \subseteq Pids
    /\ alive \in BOOLEAN /\ sent \in 0..MaxSignals

Init ==
    /\ pc = [t \in Threads |-> "idle"]
    /\ mine = [t \in Threads |-> 0] /\ kid = [t \in Threads |-> NoPid]
    /\ open = [t \in Threads |-> FALSE] /\ wend = open
    /\ outPipe = [t \in Threads |-> 0] /\ errPipe = outPipe
    /\ got = outPipe /\ due = outPipe
    /\ slots = [i \in Slots |-> Free]
    /\ life = [p \in Pids |-> "none"] /\ owner = [p \in Pids |-> NoThread]
    /\ toOut = [p \in Pids |-> 0] /\ toErr = toOut
    /\ inherits = [t \in Threads |-> {}]
    /\ scan = 0 /\ on = NoThread /\ any = FALSE
    /\ hit = {} /\ expected = {} /\ alive = TRUE /\ sent = 0

-----------------------------------------------------------------------------
\* A thread runs unless rxy is dead or it is in the signal handler.
At(t, l) == pc[t] = l /\ alive /\ on # t
Goto(t, l) == pc' = [pc EXCEPT ![t] = l]

\* ~ChildSlot, when run returns or throws.
ReleaseSlot(t) == /\ slots' = [slots EXCEPT ![mine[t]] = Free]
                  /\ mine' = [mine EXCEPT ![t] = 0]

\* Entry of run; stream_through needs no pipes.  No child holds the new ones.
Start(t) ==
    /\ At(t, "idle") \/ At(t, "threw")
    /\ \E captured \in BOOLEAN : /\ open' = [open EXCEPT ![t] = captured]
                                 /\ wend' = [wend EXCEPT ![t] = captured]
    /\ outPipe' = [outPipe EXCEPT ![t] = 0] /\ errPipe' = [errPipe EXCEPT ![t] = 0]
    /\ got' = [got EXCEPT ![t] = 0] /\ due' = [due EXCEPT ![t] = 0]
    /\ inherits' = [inherits EXCEPT ![t] = {}]
    /\ Goto(t, "slot")
    /\ UNCHANGED <<mine, kid, slots, life, owner, toOut, toErr, sigVars>>

\* Mutant: a slot is taken with a store, not a compare-and-swap from -1.
TakeSlotUnguarded(t) ==
    /\ At(t, "slot")
    /\ \E i \in Slots : /\ slots[i] \in {Free, Guard}
                        /\ slots' = [slots EXCEPT ![i] = Guard]
                        /\ mine' = [mine EXCEPT ![t] = i]
    /\ Goto(t, "spawn")
    /\ UNCHANGED <<kid, pipeVars, childVars, sigVars>>

\* ChildSlot's constructor: a free slot, or "too many concurrent child
\* processes", which leaves the pipes open.
TakeSlot(t) ==
    /\ At(t, "slot")
    /\ \/ /\ \E i \in Slots : /\ slots[i] = Free
                              /\ slots' = [slots EXCEPT ![i] = Guard]
                              /\ mine' = [mine EXCEPT ![t] = i]
          /\ Goto(t, "spawn")
       \/ /\ \A i \in Slots : slots[i] # Free
          /\ Goto(t, "threw") /\ UNCHANGED <<slots, mine>>
    /\ UNCHANGED <<kid, pipeVars, childVars, sigVars>>

\* posix_spawn.  The child inherits, beside its own pipes, the write ends every
\* other thread has open just then.
Spawn(t) ==
    /\ At(t, "spawn")
    /\ \E p \in Pids, o \in 0..MaxOut, e \in 0..MaxErr :
        /\ life[p] = "none"
        /\ life' = [life EXCEPT ![p] = "run"]
        /\ owner' = [owner EXCEPT ![p] = t]
        /\ toOut' = [toOut EXCEPT ![p] = o] /\ toErr' = [toErr EXCEPT ![p] = e]
        /\ inherits' = [u \in Threads |-> IF wend[u] THEN inherits[u] \cup {p} ELSE inherits[u]]
        /\ due' = [due EXCEPT ![t] = IF open[t] THEN o + e ELSE 0]
        /\ kid' = [kid EXCEPT ![t] = p]
    /\ Goto(t, "set")
    /\ UNCHANGED <<mine, open, wend, outPipe, errPipe, got, slots, sigVars>>

SpawnFails(t) ==
    /\ At(t, "spawn") /\ Goto(t, "idle") /\ ReleaseSlot(t)
    /\ open' = [open EXCEPT ![t] = FALSE] /\ wend' = [wend EXCEPT ![t] = FALSE]
    /\ UNCHANGED <<kid, outPipe, errPipe, got, due, childVars, sigVars>>

\* Mutant: rxy keeps its copies of the write ends.
SetPidKeepsEnds(t) ==
    /\ At(t, "set")
    /\ slots' = [slots EXCEPT ![mine[t]] = kid[t]]
    /\ Goto(t, IF open[t] THEN "out" ELSE "wait")
    /\ UNCHANGED <<mine, kid, pipeVars, childVars, sigVars>>

\* slot.set(pid), then the write ends are closed.
SetPid(t) ==
    /\ At(t, "set")
    /\ slots' = [slots EXCEPT ![mine[t]] = kid[t]]
    /\ wend' = [wend EXCEPT ![t] = FALSE]
    /\ Goto(t, IF open[t] THEN "out" ELSE "wait")
    /\ UNCHANGED <<mine, kid, open, outPipe, errPipe, got, due, childVars, sigVars>>

\* A read: a buffer full, end of file, or blocked.
Drained(t, pipe) == pipe' = [pipe EXCEPT ![t] = @ - 1] /\ got' = [got EXCEPT ![t] = @ + 1]
EndOfFile(t, pipe) == pipe[t] = 0 /\ ~wend[t] /\ inherits[t] = {}

\* drain(out_pipe[0]) first, and only then drain(err_pipe[0]).
DrainOut(t) ==
    /\ At(t, "out")
    /\ \/ outPipe[t] > 0 /\ Drained(t, outPipe) /\ UNCHANGED pc
       \/ EndOfFile(t, outPipe) /\ Goto(t, "err") /\ UNCHANGED <<outPipe, got>>
    /\ UNCHANGED <<mine, kid, open, wend, errPipe, due, slots, childVars, sigVars>>

\* Mutant: one read instead of reading until end of file.
DrainErrOnce(t) ==
    /\ At(t, "err")
    /\ \/ errPipe[t] > 0 /\ Drained(t, errPipe)
       \/ EndOfFile(t, errPipe) /\ UNCHANGED <<errPipe, got>>
    /\ Goto(t, "wait") /\ open' = [open EXCEPT ![t] = FALSE]
    /\ UNCHANGED <<mine, kid, wend, outPipe, due, slots, childVars, sigVars>>

DrainErr(t) ==
    /\ At(t, "err")
    /\ \/ errPipe[t] > 0 /\ Drained(t, errPipe) /\ UNCHANGED <<pc, open>>
       \/ /\ EndOfFile(t, errPipe) /\ Goto(t, "wait")
          /\ open' = [open EXCEPT ![t] = FALSE]
          /\ UNCHANGED <<errPipe, got>>
    /\ UNCHANGED <<mine, kid, wend, outPipe, due, slots, childVars, sigVars>>

\* Mutant: waitpid is not retried when a signal interrupts it.
WaitOnce(t) ==
    /\ At(t, "wait")
    /\ life' = IF Gone(kid[t]) THEN [life EXCEPT ![kid[t]] = "none"] ELSE life
    /\ Gone(kid[t]) \/ sent > 0
    /\ Goto(t, "clear")
    /\ UNCHANGED <<mine, kid, pipeVars, slots, owner, toOut, toErr, inherits, sigVars>>

\* waitpid reaps the child: its pid is the kernel's again.
Wait(t) ==
    /\ At(t, "wait")
    /\ Gone(kid[t])
    /\ life' = [life EXCEPT ![kid[t]] = "none"]
    /\ expected' = expected \ {kid[t]}
    /\ Goto(t, "clear")
    /\ UNCHANGED <<mine, kid, pipeVars, slots, owner, toOut, toErr, inherits>>
    /\ UNCHANGED <<scan, on, any, hit, alive, sent>>

Return(t) ==
    /\ At(t, "clear")
    /\ ReleaseSlot(t) /\ kid' = [kid EXCEPT ![t] = NoPid]
    /\ Goto(t, "idle")
    /\ UNCHANGED <<pipeVars, childVars, sigVars>>
-----------------------------------------------------------------------------
\* A child writes, and blocks on a full pipe; what it streams goes elsewhere.
Writes(p, pipe, left) ==
    /\ p \in Running /\ left[p] > 0 /\ alive
    /\ left' = [left EXCEPT ![p] = @ - 1]
    /\ IF open[owner[p]]
       THEN /\ pipe[owner[p]] < Cap
            /\ pipe' = [pipe EXCEPT ![owner[p]] = @ + 1]
       ELSE UNCHANGED pipe
ChildWrites(p) ==
    /\ \/ Writes(p, outPipe, toOut) /\ UNCHANGED <<errPipe, toErr>>
       \/ Writes(p, errPipe, toErr) /\ UNCHANGED <<outPipe, toOut>>
    /\ UNCHANGED <<threadVars, open, wend, got, due, slots, life, owner, inherits, sigVars>>

\* Its descriptors are closed.
Ends(p, l) ==
    /\ life' = [life EXCEPT ![p] = l]
    /\ inherits' = [t \in Threads |-> inherits[t] \ {p}]
    /\ UNCHANGED <<threadVars, pipeVars, slots, owner, toOut, toErr, sigVars>>

\* It exits when it has written everything (without rxy, when it likes), or
\* dies of the signal.
ChildExits(p) == p \in Running /\ (toOut[p] + toErr[p] = 0 \/ ~alive) /\ Ends(p, "zombie")
ChildDies(p)  == p \in Running \cap hit /\ Ends(p, "dead")
-----------------------------------------------------------------------------
\* SIGINT or SIGTERM, delivered on some thread.
Signal(t) ==
    /\ alive /\ scan = 0 /\ sent < MaxSignals
    /\ sent' = sent + 1
    /\ scan' = 1 /\ on' = t /\ any' = FALSE /\ hit' = {}
    /\ expected' = Registered \cap Running
    /\ UNCHANGED <<threadVars, pipeVars, slots, childVars, alive>>

\* Mutant: the loop ends at the first slot without a child.
ScanToFirstFree ==
    /\ scan \in Slots
    /\ scan' = IF slots[scan] > 0 THEN scan + 1 ELSE NSlots + 1
    /\ hit' = hit \cup ({slots[scan]} \cap Running)
    /\ any' = (any \/ slots[scan] > 0)
    /\ UNCHANGED <<threadVars, pipeVars, slots, childVars, on, expected, alive, sent>>

\* One turn of forward_signal's loop; kill has an effect on a running child.
Scan ==
    /\ scan \in Slots
    /\ scan' = scan + 1
    /\ hit' = hit \cup ({slots[scan]} \cap Running)
    /\ any' = (any \/ slots[scan] > 0)
    /\ UNCHANGED <<threadVars, pipeVars, slots, childVars, on, expected, alive, sent>>

\* The handler returns, or raises the signal with its default action.
EndScan ==
    /\ scan = NSlots + 1
    /\ scan' = 0 /\ on' = NoThread
    /\ alive' = any
    /\ UNCHANGED <<threadVars, pipeVars, slots, childVars, any, hit, expected, sent>>

Run(t) == \/ TakeSlot(t) \/ Spawn(t) \/ SpawnFails(t) \/ SetPid(t)
          \/ DrainOut(t) \/ DrainErr(t) \/ Wait(t) \/ Return(t)

Next == \/ \E t \in Threads : Start(t) \/ Run(t) \/ Signal(t)
        \/ \E p \in Pids : ChildWrites(p) \/ ChildExits(p) \/ ChildDies(p)
        \/ Scan \/ EndScan

Spec == Init /\ [][Next]_vars

\* rxy's threads and its children are scheduled by the kernel, and the children
\* rxy starts (git, tar, rexc, scripts that end) exit once they have written.
FairSpec ==
    /\ Spec
    /\ \A t \in Threads : WF_vars(Run(t))
    /\ \A p \in Pids : WF_vars(ChildWrites(p)) /\ WF_vars(ChildExits(p))
    /\ WF_vars(Scan) /\ WF_vars(EndScan)
-----------------------------------------------------------------------------
\* The table never loses track: each run between taking a slot and returning
\* has one of its own, which names its child once the pid is known.
SlotsTrackRuns ==
    /\ \A t \in Threads : mine[t] # 0 =>
         slots[mine[t]] = (IF pc[t] \in {"spawn", "set"} THEN Guard ELSE kid[t])
    /\ \A t, u \in Threads : mine[t] = mine[u] => t = u \/ mine[t] = 0
    /\ \A i \in Slots : slots[i] # Free => \E t \in Threads : mine[t] = i

\* When the handler is through, every child that was registered when the signal
\* came has been signalled or is gone, whatever the other threads did meanwhile.
SignalReachesRegistered == scan = NSlots + 1 => expected \cap Running \subseteq hit

\* When a child that wrote all it wanted is waited for, rxy has read all of it
\* from both pipes, and nothing of what other children wrote.
CaptureIsWhole ==
    \A t \in Threads : alive /\ pc[t] = "wait" /\ life[kid[t]] = "zombie" => got[t] = due[t]

\* Every child is waited for: none is left behind when its run returns.
ChildrenAreReaped ==
    \A p \in Pids : life[p] # "none" => \E t \in Threads : kid[t] = p /\ pc[t] \notin Resting

\* Every run returns, or rxy is gone (at most a pipe full of stderr).
RunsReturn == \A t \in Threads : pc[t] \notin Resting ~> (pc[t] \in Resting \/ ~alive)
=============================================================================
