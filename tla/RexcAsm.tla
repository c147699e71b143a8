------------------------------ MODULE RexcAsm ------------------------------
(***************************************************************************)
(* The instructions the code generators of rexc emit, as the assembler and *)
(* the processor give them meaning (RexcMachine).  A size is a number of   *)
(* bytes, and so is a displacement.  width is the part of the register     *)
(* that is written; what lies above it becomes zero.                       *)
(***************************************************************************)
EXTENDS Integers, Sequences

Const(d, n, width) == [op |-> "Const", d |-> d, n |-> n, width |-> width]
Move(d, s) == [op |-> "Move", d |-> d, s |-> s]
Lea(d, base, disp) == [op |-> "Lea", d |-> d, base |-> base, disp |-> disp]
Address(d, datum) == [op |-> "Address", d |-> d, datum |-> datum]
Load(d, size, signed, width, base, disp) ==
    [op |-> "Load", d |-> d, size |-> size, signed |-> signed, width |-> width,
     base |-> base, disp |-> disp]
Store(s, size, base, disp) ==
    [op |-> "Store", s |-> s, size |-> size, base |-> base, disp |-> disp]
LoadDatum(d, size, datum) == [op |-> "LoadDatum", d |-> d, size |-> size, datum |-> datum]
StoreDatum(s, size, datum) == [op |-> "StoreDatum", s |-> s, size |-> size, datum |-> datum]

\* f: add, sub, mul, or, sdiv, udiv; shl and shr shift
\* by n bytes.
Arith(f, d, a, b) == [op |-> "Arith", f |-> f, d |-> d, a |-> a, b |-> b]
ArithConst(f, d, a, n) == [op |-> "ArithConst", f |-> f, d |-> d, a |-> a, n |-> n]
\* d := c - a * b.
MulSub(d, a, b, c) == [op |-> "MulSub", d |-> d, a |-> a, b |-> b, c |-> c]
Negate(d) == [op |-> "Negate", d |-> d]
\* x86: quotient and remainder of the accumulator, extended to two registers.
Divide(signed, by, quotient, remainder) ==
    [op |-> "Divide", signed |-> signed, by |-> by, q |-> quotient, r |-> remainder]
Extend(d, size, signed, width) ==
    [op |-> "Extend", d |-> d, size |-> size, signed |-> signed, width |-> width]

Compare(a, b) == [op |-> "Compare", a |-> a, b |-> b]
CompareConst(a, size, n) == [op |-> "CompareConst", a |-> a, size |-> size, n |-> n]
CompareMemory(size, base, disp, n) ==
    [op |-> "CompareMemory", size |-> size, base |-> base, disp |-> disp, n |-> n]
\* Conditions: eq, ne, and lt, le, gt, ge with a sign or without.
Condition(rel, signed) == [rel |-> rel, signed |-> signed]
Set(d, condition) == [op |-> "Set", d |-> d, condition |-> condition]
Label(name) == [op |-> "Label", name |-> name]
Jump(label) == [op |-> "Jump", label |-> label]
JumpIf(rel, label) == [op |-> "JumpIf", condition |-> Condition(rel, TRUE), label |-> label]

\* Slots of the stack: one word on x86, sixteen bytes on arm64.
Push(s) == [op |-> "Push", s |-> s]
Pop(d) == [op |-> "Pop", d |-> d]
AdjustStack(n) == [op |-> "AdjustStack", n |-> n]
Call(symbol) == [op |-> "Call", symbol |-> symbol]
Ret == [op |-> "Ret"]
\* arm64: the frame pointer and the link register, saved and restored as a pair.
PushFrame == [op |-> "PushFrame"]
PopFrame == [op |-> "PopFrame"]

\* Where a label stands: its kind, its function, its place in the function.
At(kind, symbol, place) == [kind |-> kind, symbol |-> symbol, place |-> place]

\* The code of the elements of a sequence, one after another.
Concat(codes) ==
    LET parts == codes \o << >>
        upto[i \in 0..Len(parts)] == IF i = 0 THEN << >> ELSE upto[i - 1] \o parts[i]
    IN upto[Len(parts)]

\* A piece of data: its name, and its elements as [size, value], where value is
\* a number or, for the address of a string, the string's name.
Datum(name, elements) == [name |-> name, elements |-> elements]
StringName(text) == [kind |-> "string", of |-> text]
StaticName(symbol) == [kind |-> "static", of |-> symbol]
NumberElement(size, n) == [size |-> size, number |-> n, address |-> FALSE, name |-> StringName(<< >>)]
AddressElement(size, name) == [size |-> size, number |-> 0, address |-> TRUE, name |-> name]

=============================================================================
