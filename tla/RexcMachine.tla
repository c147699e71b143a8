---------------------------- MODULE RexcMachine ----------------------------
(***************************************************************************)
(* What runs the code of the generators: a processor for the instructions  *)
(* of RexcAsm and a runtime for the functions a program declares extern.   *)
(* Registers and memory hold bytes of ByteBits bits; a byte nothing wrote, *)
(* or that an interrupt may have written since, is Undefined, and so is    *)
(* what is computed from it.  An address, a branch or an output that is    *)
(* Undefined is a fault, and so is an access outside of the data and of    *)
(* the stack in use.                                                       *)
(***************************************************************************)
EXTENDS RexcAsm, SequencesExt, Bitwise, TLC

CONSTANTS
    ByteBits,   \* the width of a byte
    StackTop,   \* where the stack starts
    Programs,   \* what is compiled
    Compile(_), \* the code of a program
    Inputs      \* what the runtime's get answers

VARIABLES program, image, input, regs, mem, pc, flags, status, trace, calls

machine == <<regs, mem, pc, flags, status, trace, calls>>
vars == <<program, image, input, regs, mem, pc, flags, status, trace, calls>>

Undefined == -1
Halt == 0
DataStart == 16

Registers == {"ax", "cx", "dx", "di", "si", "r8", "r9", "bp", "sp", "fp", "lr",
              "x0", "x1", "x2", "x3", "x4", "x5", "x6", "x7", "x9"}

Values(size) == 2 ^ (ByteBits * size)
Unsigned(n, size) == n % Values(size)
Signed(n, size) ==
    LET u == Unsigned(n, size) IN IF 2 * u >= Values(size) THEN u - Values(size) ELSE u

(***************************************************************************)
(* The assembler and the loader                                            *)
(***************************************************************************)
\* Data one after another, each at a multiple of 16.
DataSize(d) == FoldLeft(LAMBDA n, e : n + e.size, 0, d.elements)
DataAddresses(built) ==
    LET start[i \in 1..Len(built.data) + 1] ==
            IF i = 1 THEN DataStart
            ELSE 16 * ((start[i - 1] + DataSize(built.data[i - 1]) + 15) \div 16)
    IN [addresses |-> [n \in {built.data[i].name : i \in DOMAIN built.data} |->
                         start[CHOOSE i \in DOMAIN built.data : built.data[i].name = n]],
        end |-> start[Len(built.data) + 1]]

Byte(n, k) == (n \div Values(k)) % Values(1)

DataBytes(built, placed) ==
    LET element(e, at) ==
            LET n == IF e.address THEN placed.addresses[e.name] ELSE Unsigned(e.number, e.size)
            IN [a \in at..(at + e.size - 1) |-> Byte(n, a - at)]
        datum(d) == FoldLeft(LAMBDA r, e : [at |-> r.at + e.size, bytes |-> r.bytes @@ element(e, r.at)],
                             [at |-> placed.addresses[d.name], bytes |-> << >>], d.elements).bytes
    IN FoldLeft(LAMBDA m, d : m @@ datum(d), << >>, built.data)

Assemble(built) ==
    LET placed == DataAddresses(built)
        labels == SelectSeq([i \in DOMAIN built.code |-> i], LAMBDA i : built.code[i].op = "Label")
        name(k) == built.code[labels[k]].name
    IN built @@ [addresses |-> placed.addresses @@ << >>, end |-> placed.end,
                 bytes |-> DataBytes(built, placed),
                 labels |-> FoldLeft(LAMBDA t, i : t @@ (built.code[i].name :> i), << >>, labels),
                 unique |-> \A j, k \in DOMAIN labels : name(j) = name(k) => j = k]

(***************************************************************************)
(* Memory                                                                  *)
(***************************************************************************)
Word == image.word
Instruction == image.code[pc]
FrameOf(r) == r[image.frame]

InUse(a, size, sp) ==
    /\ a # Undefined
    /\ \/ DataStart <= a /\ a + size <= image.end
       \/ sp <= a /\ a + size <= StackTop

Load1(m, a) == IF a \in DOMAIN m THEN m[a] ELSE Undefined
Read(m, a, size) ==
    IF \E i \in 0..(size - 1) : Load1(m, a + i) = Undefined THEN Undefined
    ELSE FoldLeft(LAMBDA n, i : n + Load1(m, a + i - 1) * Values(i - 1), 0, [i \in 1..size |-> i])
Write(m, a, size, n) ==
    [b \in a..(a + size - 1) |-> IF n = Undefined THEN Undefined ELSE Byte(n, b - a)] @@ m

\* Nothing below the stack pointer is kept.
Above(m, sp) == [a \in {b \in DOMAIN m : b < image.end \/ b >= sp} |-> m[a]]

(***************************************************************************)
(* Steps                                                                   *)
(***************************************************************************)
Running(op) == status = "running" /\ Instruction.op = op

Unchanging(vs) == UNCHANGED <<program, image, input, vs>>

Fault == /\ status' = "fault"
         /\ Unchanging(<<regs, mem, pc, flags, trace, calls>>)

\* The register d takes the value n.
Becomes(d, n) ==
    /\ regs' = [regs EXCEPT ![d] = n]
    /\ pc' = pc + 1
    /\ Unchanging(<<mem, flags, status, trace, calls>>)

Stored(a, size, n) ==
    IF ~InUse(a, size, regs["sp"]) THEN Fault
    ELSE /\ mem' = Write(mem, a, size, IF n = Undefined THEN n ELSE Unsigned(n, size))
         /\ pc' = pc + 1
         /\ Unchanging(<<regs, flags, status, trace, calls>>)

Displaced(base, disp) == IF regs[base] = Undefined THEN Undefined ELSE regs[base] + disp

Narrow(n, size, signed, width) ==
    IF n = Undefined THEN n
    ELSE Unsigned(IF signed THEN Signed(n, size) ELSE Unsigned(n, size), width)

Quotient(a, b) ==
    LET abs(n) == IF n < 0 THEN -n ELSE n
        q == abs(a) \div abs(b)
    IN IF (a < 0) = (b < 0) THEN q ELSE -q

Compute(f, a, b) ==
    LET s(n) == Signed(n, Word)
        result == CASE f = "add" -> a + b
                    [] f = "sub" -> a - b
                    [] f = "mul" -> s(a) * s(b)
                    [] f = "or" -> a | b
                    [] f = "sdiv" -> IF b = 0 THEN 0 ELSE Quotient(s(a), s(b))
                    [] f = "udiv" -> IF b = 0 THEN 0 ELSE a \div b
                    [] f = "shl" -> (a % Values(Word - b)) * Values(b)
                    [] f = "shr" -> a \div Values(b)
    IN IF a = Undefined \/ b = Undefined THEN Undefined ELSE Unsigned(result, Word)

StepConst == Running("Const") /\ Becomes(Instruction.d, Unsigned(Instruction.n, Instruction.width))

\* A move to the stack pointer may release memory.
StepMove ==
    /\ Running("Move")
    /\ IF Instruction.d # "sp" THEN Becomes(Instruction.d, regs[Instruction.s])
       ELSE IF ~InUse(regs[Instruction.s], 0, regs["sp"]) THEN Fault
       ELSE /\ regs' = [regs EXCEPT !["sp"] = regs[Instruction.s]]
            /\ mem' = Above(mem, regs'["sp"])
            /\ pc' = pc + 1
            /\ Unchanging(<<flags, status, trace, calls>>)

StepLea == Running("Lea") /\ Becomes(Instruction.d, Displaced(Instruction.base, Instruction.disp))
StepAddress == Running("Address") /\ Becomes(Instruction.d, image.addresses[Instruction.datum])

Loaded(a, size, signed, width) ==
    IF InUse(a, size, regs["sp"])
    THEN Becomes(Instruction.d, Narrow(Read(mem, a, size), size, signed, width))
    ELSE Fault
StepLoad ==
    /\ Running("Load")
    /\ Loaded(Displaced(Instruction.base, Instruction.disp), Instruction.size, Instruction.signed,
              Instruction.width)
StepLoadDatum ==
    /\ Running("LoadDatum")
    /\ Loaded(image.addresses[Instruction.datum], Instruction.size, FALSE, Instruction.size)

StepStore ==
    /\ Running("Store")
    /\ Stored(Displaced(Instruction.base, Instruction.disp), Instruction.size, regs[Instruction.s])
StepStoreDatum ==
    /\ Running("StoreDatum")
    /\ Stored(image.addresses[Instruction.datum], Instruction.size, regs[Instruction.s])

StepArith ==
    /\ Running("Arith")
    /\ Becomes(Instruction.d, Compute(Instruction.f, regs[Instruction.a], regs[Instruction.b]))
StepArithConst ==
    /\ Running("ArithConst")
    /\ Becomes(Instruction.d, Compute(Instruction.f, regs[Instruction.a], Instruction.n))
StepMulSub ==
    /\ Running("MulSub")
    /\ Becomes(Instruction.d, Compute("sub", regs[Instruction.c],
                                      Compute("mul", regs[Instruction.a], regs[Instruction.b])))
StepNegate == Running("Negate") /\ Becomes(Instruction.d, Compute("sub", 0, regs[Instruction.d]))
StepExtend ==
    /\ Running("Extend")
    /\ Becomes(Instruction.d, Narrow(regs[Instruction.d], Instruction.size, Instruction.signed,
                                     Instruction.width))

\* x86: a division by zero stops the program.
StepDivide ==
    LET a == regs["ax"]
        b == regs[Instruction.by]
        f == IF Instruction.signed THEN "sdiv" ELSE "udiv"
        q == Compute(f, a, b)
        r == Compute("sub", a, Compute("mul", q, b))
    IN /\ Running("Divide")
       /\ IF a = Undefined \/ b \in {Undefined, 0} THEN Fault
          ELSE /\ regs' = [regs EXCEPT ![Instruction.q] = q, ![Instruction.r] = r]
               /\ pc' = pc + 1
               /\ Unchanging(<<mem, flags, status, trace, calls>>)

Compared(a, b, size) ==
    /\ flags' = IF a = Undefined \/ b = Undefined THEN << >>
                ELSE <<[a |-> Unsigned(a, size), b |-> Unsigned(b, size), size |-> size]>>
    /\ pc' = pc + 1
    /\ Unchanging(<<regs, mem, status, trace, calls>>)

StepCompare ==
    /\ Running("Compare")
    /\ Compared(regs[Instruction.a], regs[Instruction.b], Word)
StepCompareConst ==
    /\ Running("CompareConst")
    /\ Compared(regs[Instruction.a], Unsigned(Instruction.n, Instruction.size), Instruction.size)
StepCompareMemory ==
    LET a == Displaced(Instruction.base, Instruction.disp)
    IN /\ Running("CompareMemory")
       /\ IF InUse(a, Instruction.size, regs["sp"])
          THEN Compared(Read(mem, a, Instruction.size), Unsigned(Instruction.n, Instruction.size),
                        Instruction.size)
          ELSE Fault

Holds(condition) ==
    LET f == flags[1]
        n(x) == IF condition.signed THEN Signed(x, f.size) ELSE x
    IN CASE condition.rel = "eq" -> f.a = f.b
         [] condition.rel = "ne" -> f.a # f.b
         [] condition.rel = "lt" -> n(f.a) < n(f.b)
         [] condition.rel = "le" -> n(f.a) <= n(f.b)
         [] condition.rel = "gt" -> n(f.a) > n(f.b)
         [] condition.rel = "ge" -> n(f.a) >= n(f.b)

StepSet ==
    /\ Running("Set")
    /\ Becomes(Instruction.d, IF flags = << >> THEN Undefined
                              ELSE IF Holds(Instruction.condition) THEN 1 ELSE 0)

Target(label) == IF label.kind = "skip" THEN pc + 1 + label.place[1] ELSE image.labels[label]
Goto(next) == pc' = next /\ Unchanging(<<regs, mem, flags, status, trace, calls>>)

StepLabel == Running("Label") /\ Goto(pc + 1)
StepJump == Running("Jump") /\ Goto(Target(Instruction.label))
StepJumpIf ==
    /\ Running("JumpIf")
    /\ IF flags = << >> THEN Fault
       ELSE Goto(IF Holds(Instruction.condition) THEN Target(Instruction.label) ELSE pc + 1)

\* The stack pointer moves by n; the registers rs are stored where it comes to lie.
Grown(n, rs, next) ==
    LET sp == regs["sp"] - n
        store(m, k) == Write(m, sp + Word * (k - 1), Word, rs[k])
    IN IF sp < image.end THEN Fault
       ELSE /\ regs' = [regs EXCEPT !["sp"] = sp]
            /\ mem' = FoldLeft(store, mem, [k \in DOMAIN rs |-> k])
            /\ pc' = next
            /\ Unchanging(<<flags, status, trace, calls>>)
\* The registers ds take the words at the stack pointer, which moves up by n.
Shrunk(n, ds) ==
    LET sp == regs["sp"]
    IN IF ~InUse(sp, n, sp) THEN Fault
       ELSE /\ regs' = [FoldLeft(LAMBDA r, k : [r EXCEPT ![ds[k]] = Read(mem, sp + Word * (k - 1), Word)],
                                 regs, [k \in DOMAIN ds |-> k]) EXCEPT !["sp"] = sp + n]
            /\ mem' = Above(mem, sp + n)
            /\ pc' = pc + 1
            /\ Unchanging(<<flags, status, trace, calls>>)

StepPush == Running("Push") /\ Grown(image.slot, <<regs[Instruction.s]>>, pc + 1)
StepPop == Running("Pop") /\ Shrunk(image.slot, <<Instruction.d>>)
StepAdjustStack ==
    /\ Running("AdjustStack")
    /\ IF Instruction.n < 0 THEN Grown(-Instruction.n, << >>, pc + 1) ELSE Shrunk(Instruction.n, << >>)
StepPushFrame == Running("PushFrame") /\ Grown(16, <<regs["fp"], regs["lr"]>>, pc + 1)
StepPopFrame == Running("PopFrame") /\ Shrunk(16, <<"fp", "lr">>)

(***************************************************************************)
(* Calls                                                                   *)
(***************************************************************************)
Entry(symbol) == At("function", symbol, << >>)
Own(symbol) == Entry(symbol) \in DOMAIN image.labels

\* The k-th argument of a call, at the call.
Argument(k) == IF image.arguments = << >> THEN Read(mem, regs["sp"] + Word * (k - 1), Word)
                                          ELSE regs[image.arguments[k]]
TextLength(a) == CHOOSE n \in 0..20 : Load1(mem, a + n) = 0 /\ \A i \in 0..(n - 1) : Load1(mem, a + i) # 0

\* The runtime: a Result is a handle, even for a value and odd for an error.
\* These functions stand for those of src/stdlib, which are Rexy functions that
\* rexc compiles too, so an answer is extended to its register as rexc's own are;
\* a function of another compiler may leave the upper half of it as it is.
Arity(f) == CASE f = "get" -> 0 [] f = "result_i32_value_or" -> 2 [] OTHER -> 1
Answer(f) ==
    LET first == Argument(1)
    IN CASE f = "get" -> input
         [] f = "emit" -> 0
         [] f = "strlen" -> TextLength(first)
         [] f = "result_i32_ok" -> 2 * Signed(first, 4)
         [] f = "result_i32_err" -> 2 * Signed(first, 4) + 1
         [] f = "result_i32_is_err" -> first % 2
         [] f = "result_i32_value_or" ->
              IF first % 2 = 0 THEN Quotient(Signed(first, Word), 2) ELSE Signed(Argument(2), 4)

CalleeKeeps(r) == r \in image.saved
Link(r) == IF image.link THEN [r EXCEPT !["lr"] = pc + 1] ELSE r

StepCallOwn ==
    LET next == image.labels[Entry(Instruction.symbol)]
        record == [pc |-> pc + 1, sp |-> regs["sp"], frame |-> FrameOf(regs)]
        sp == regs["sp"] - Word
    IN /\ Running("Call")
       /\ Own(Instruction.symbol)
       /\ IF sp < image.end THEN Fault
          ELSE /\ regs' = IF image.link THEN Link(regs) ELSE [regs EXCEPT !["sp"] = sp]
               /\ mem' = IF image.link THEN mem ELSE Write(mem, sp, Word, pc + 1)
               /\ pc' = next
               /\ calls' = Append(calls, record)
               /\ Unchanging(<<flags, status, trace>>)

\* A function of the runtime leaves its answer in the accumulator and nothing
\* in the registers it need not keep.
StepCallExternal ==
    LET f == Instruction.symbol[1]
    IN /\ Running("Call")
       /\ ~Own(Instruction.symbol)
       /\ IF \E k \in 1..Arity(f) : Argument(k) = Undefined THEN Fault
          ELSE /\ regs' = Link([r \in Registers |->
                                  IF r = image.accumulator THEN Unsigned(Answer(f), Word)
                                  ELSE IF CalleeKeeps(r) THEN regs[r] ELSE Undefined])
               /\ trace' = IF f = "emit" THEN Append(trace, Signed(Argument(1), 4)) ELSE trace
               /\ flags' = << >>
               /\ pc' = pc + 1
               /\ Unchanging(<<mem, status, calls>>)

StepRet ==
    LET sp == regs["sp"]
        next == IF image.link THEN regs["lr"] ELSE Read(mem, sp, Word)
        above == IF image.link THEN sp ELSE sp + Word
    IN /\ Running("Ret")
       /\ IF next = Undefined THEN Fault
          ELSE /\ regs' = [regs EXCEPT !["sp"] = above]
               /\ mem' = Above(mem, above)
               /\ status' = IF next = Halt THEN "halted" ELSE status
               /\ pc' = IF next = Halt THEN pc ELSE next
               /\ calls' = Front(calls)
               /\ Unchanging(<<flags, trace>>)

(***************************************************************************)
(* The specification                                                       *)
(***************************************************************************)
\* main is called with an empty stack.
Init ==
    /\ program \in Programs
    /\ image = Assemble(Compile(program))
    /\ input \in Inputs
    /\ LET sp == IF image.link THEN StackTop ELSE StackTop - Word
       IN /\ regs = [r \in Registers |-> IF r = "sp" THEN sp
                                         ELSE IF r = "lr" /\ image.link THEN Halt ELSE Undefined]
          /\ mem = IF image.link THEN image.bytes ELSE Write(image.bytes, sp, Word, Halt)
          /\ calls = <<[pc |-> Halt, sp |-> StackTop, frame |-> Undefined]>>
    /\ pc = image.labels[Entry(<<"main">>)]
    /\ flags = << >>
    /\ status = "running"
    /\ trace = << >>

Next ==
    \/ StepConst \/ StepMove \/ StepLea \/ StepAddress
    \/ StepLoad \/ StepLoadDatum \/ StepStore \/ StepStoreDatum
    \/ StepArith \/ StepArithConst \/ StepMulSub \/ StepNegate \/ StepExtend \/ StepDivide
    \/ StepCompare \/ StepCompareConst \/ StepCompareMemory \/ StepSet
    \/ StepLabel \/ StepJump \/ StepJumpIf
    \/ StepPush \/ StepPop \/ StepAdjustStack \/ StepPushFrame \/ StepPopFrame
    \/ StepCallOwn \/ StepCallExternal \/ StepRet

\* The processor goes on as long as it can.
Spec == Init /\ [][Next]_vars /\ WF_vars(Next)

=============================================================================
