------------------------------ MODULE RexcX86 ------------------------------
(***************************************************************************)
(* The code generator for x86_64 and i386 (codegen_x86.cpp): from the IR   *)
(* of a module to the instructions of its functions and its data.  t is    *)
(* the target.  The evaluation of a value leaves it in ax; cx is the       *)
(* scratch register, and what must survive another evaluation is pushed.   *)
(*                                                                         *)
(* env is what the emission of a function carries: the target, the symbol, *)
(* the slots given to `let`s, matches and bindings by their place, the     *)
(* slots of the names in scope, the static buffers, and the labels break,  *)
(* continue go to.  A label that only one expression jumps to is written   *)
(* as the number of instructions to skip.                                  *)
(***************************************************************************)
EXTENDS RexcIr, RexcAsm, SequencesExt

Word(t) == IF t = "x86_64" THEN 8 ELSE 4

ArgumentRegisters == <<"di", "si", "dx", "cx", "r8", "r9">>

MemorySize(t, type) ==
    CASE IsInteger(type) -> type.bits \div 8
      [] type.kind = "Bool" -> 1
      [] IsAggregate(type) /\ type.bits > 0 -> type.bits \div 8
      [] OTHER -> Word(t)

ValueChunks(t, type) ==
    IF IsAggregate(type) THEN Largest({1, (MemorySize(t, type) + Word(t) - 1) \div Word(t)}) ELSE 1

\* On x86_64 the chunks of a local lie at descending addresses.
ChunkSlot(t, slot, chunk) ==
    IF slot > 0 \/ t = "i386" THEN slot + Word(t) * chunk ELSE slot - Word(t) * chunk

(***************************************************************************)
(* The frame                                                               *)
(***************************************************************************)
NewSlot(t, next, chunks) == IF t = "x86_64" THEN -8 * (next + 1) ELSE -4 * (next + chunks)

TakeSlot(t, f, place, type) ==
    [next |-> f.next + ValueChunks(t, type),
     slots |-> [p \in DOMAIN f.slots \cup {place} |->
                  IF p = place THEN NewSlot(t, f.next, ValueChunks(t, type)) ELSE f.slots[p]]]

\* The place of a binding: its match, its arm, its pattern, its position.
BindingPlace(place, arm, pattern, b) == place \o <<0, arm, pattern, b>>

RECURSIVE AssignSlot(_, _, _, _)
RECURSIVE AssignSlots(_, _, _, _, _)
RECURSIVE AssignArms(_, _, _, _, _)

AssignSlots(t, body, place, k, f) ==
    IF k > Len(body) THEN f
    ELSE AssignSlots(t, body, place, k + 1, AssignSlot(t, body[k], Append(place, k), f))

\* Every binding of every pattern of an arm has a slot, then its body's.
AssignArms(t, arms, place, i, f) ==
    LET patterns == arms[i].patterns
        pairs == Concat([p \in DOMAIN patterns |->
                            [b \in DOMAIN patterns[p].bindings |-> <<p, b>>]])
        bound[k \in 0..Len(pairs)] ==
            IF k = 0 THEN f
            ELSE TakeSlot(t, bound[k - 1], BindingPlace(place, i, pairs[k][1], pairs[k][2]),
                          patterns[pairs[k][1]].bindings[pairs[k][2]].type)
    IN IF i > Len(arms) THEN f
       ELSE AssignArms(t, arms, place, i + 1,
                       AssignSlots(t, arms[i].body, Append(place, i), 1, bound[Len(pairs)]))

AssignSlot(t, s, place, f) ==
    CASE s.kind = "Let" -> TakeSlot(t, f, place, s.value.type)
      [] s.kind = "While" -> AssignSlots(t, s.body, Append(place, 1), 1, f)
      [] s.kind = "For" ->
           LET initializer == AssignSlot(t, s.initializer, Append(place, 1), f)
               body == AssignSlots(t, s.body, Append(place, 2), 1, initializer)
           IN AssignSlot(t, s.increment, Append(place, 3), body)
      [] s.kind = "If" ->
           AssignSlots(t, s.else, Append(place, 2), 1,
                       AssignSlots(t, s.then, Append(place, 1), 1, f))
      [] s.kind = "Match" -> AssignArms(t, s.arms, place, 1, TakeSlot(t, f, place, s.value.type))
      [] OTHER -> f

\* Which values go into registers, in order: [register, stack] is how many
\* chunks were placed before each, here says whether this one is in registers.
Placement(types) ==
    LET chunks(i) == ValueChunks("x86_64", types[i])
        fits(n, i) == chunks(i) <= 2 /\ n + chunks(i) <= Len(ArgumentRegisters)
        before[i \in 1..Len(types) + 1] ==
            IF i = 1 THEN [register |-> 0, stack |-> 0]
            ELSE IF fits(before[i - 1].register, i - 1)
            THEN [before[i - 1] EXCEPT !.register = @ + chunks(i - 1)]
            ELSE [before[i - 1] EXCEPT !.stack = @ + chunks(i - 1)]
    IN [i \in 1..Len(types) + 1 |->
          [register |-> before[i].register, stack |-> before[i].stack,
           here |-> i <= Len(types) /\ fits(before[i].register, IF i <= Len(types) THEN i ELSE 1)]]

ParameterTypes(f) == [i \in DOMAIN f.parameters |-> f.parameters[i].type]

\* build_frame: parameters in registers take the first slots; on i386 all of
\* them lie above the saved frame pointer and the return address.
BuildFrame(t, f) ==
    LET types == ParameterTypes(f)
        placed == Placement(types)
        above == [i \in 1..Len(types) + 1 |->
                    8 + 4 * FoldLeft(+, 0, [j \in 1..(i - 1) |-> ValueChunks(t, types[j])])]
        slot(i) == IF t = "i386" THEN above[i]
                   ELSE IF placed[i].here THEN -8 * (placed[i].register + 1)
                   ELSE 16 + 8 * placed[i].stack
        first == IF t = "i386" THEN 0 ELSE placed[Len(types) + 1].register
        frame == AssignSlots(t, f.body, << >>, 1, [next |-> first, slots |-> << >>])
    IN [parameters |-> [x \in {f.parameters[i].name : i \in DOMAIN types} |->
                          slot(Largest({i \in DOMAIN types : f.parameters[i].name = x}))],
        slots |-> frame.slots,
        bytes |-> IF t = "i386" THEN 4 * frame.next ELSE 16 * ((8 * frame.next + 15) \div 16)]

(***************************************************************************)
(* Values                                                                  *)
(***************************************************************************)
Skip(n) == At("skip", << >>, <<n>>)

SetCondition(v) ==
    LET rel == CASE v.op = "==" -> "eq" [] v.op = "!=" -> "ne" [] v.op = "<" -> "lt"
                 [] v.op = "<=" -> "le" [] v.op = ">" -> "gt" [] v.op = ">=" -> "ge"
    IN Condition(rel, ~IsUnsigned(v.lhs.type))

TestLow == CompareConst("ax", 1, 0)

LoadSlot(t, slot) == <<Load("ax", Word(t), FALSE, Word(t), "bp", slot)>>
StoreSlot(t, slot) == <<Store("ax", Word(t), "bp", slot)>>

MaskToFieldWidth(t, type) ==
    IF MemorySize(t, type) \in {1, 2} \/ (MemorySize(t, type) = 4 /\ t = "x86_64")
    THEN <<Extend("ax", MemorySize(t, type), FALSE, Word(t))>> ELSE << >>

ExtendLowField(t, type) ==
    IF MemorySize(t, type) \in {1, 2} \/ (MemorySize(t, type) = 4 /\ t = "x86_64")
    THEN <<Extend("ax", MemorySize(t, type), IsSigned(type), Word(t))>> ELSE << >>

ShiftBy(f, n) == IF n > 0 THEN <<ArithConst(f, "ax", "ax", n)>> ELSE << >>

\* The accumulator, or'ed into what was pushed before the field was evaluated.
FoldIntoChunk == <<Move("cx", "ax"), Pop("ax"), Arith("or", "ax", "ax", "cx")>>

IndirectLoad(t, type) ==
    LET size == MemorySize(t, type)
        whole == IF size \in {1, 2} \/ (size = 4 /\ t = "x86_64") THEN size ELSE Word(t)
    IN <<Load("ax", whole, IsSigned(type), Word(t), "ax", 0)>>

IndirectStore(t, type) ==
    LET size == MemorySize(t, type) IN <<Store("cx", IF size \in {1, 2, 8} THEN size ELSE 4, "ax", 0)>>

LoadStatic(symbol) == <<LoadDatum("ax", 4, StaticName(symbol))>>
StoreStatic(symbol) == <<StoreDatum("ax", 4, StaticName(symbol))>>

\* x++ and its three relatives on a local or on a static.
Increment(env, v) ==
    LET postfix == v.op \in {"post++", "post--"}
        f == IF v.op \in {"pre++", "post++"} THEN "add" ELSE "sub"
        local == v.operand.kind = "Local"
        slot == env.slots[v.operand.name]
    IN (IF local THEN LoadSlot(env.t, slot) ELSE LoadStatic(v.operand.symbol))
       \o (IF postfix THEN <<Push("ax")>> ELSE << >>)
       \o <<ArithConst(f, "ax", "ax", 1)>>
       \o (IF local THEN StoreSlot(env.t, slot) ELSE StoreStatic(v.operand.symbol))
       \o (IF postfix THEN <<Pop("ax")>> ELSE << >>)

RECURSIVE EmitValue(_, _)
RECURSIVE EmitValueChunk(_, _, _)

\* One word of an aggregate: the fields that begin in it, each masked to its
\* width and shifted to its place.
EmitFieldsChunk(env, fields, chunk) ==
    LET W == Word(env.t)
        field(f) == <<Push("ax")>> \o EmitValue(env, f.value) \o MaskToFieldWidth(env.t, f.type)
                    \o ShiftBy("shl", f.offset % W) \o FoldIntoChunk
        here == SelectSeq(fields, LAMBDA f : f.offset \div W = chunk)
    IN Concat([i \in DOMAIN here |-> field(here[i])])

EmitTagChunk(env, tag, chunk) ==
    IF chunk # 0 THEN << >>
    ELSE <<Push("ax"), Const("ax", tag, Word(env.t))>> \o FoldIntoChunk

EmitLiteralChunk(env, v, chunk) ==
    <<Const("ax", 0, Word(env.t))>>
    \o (IF v.kind = "EnumLiteral" THEN EmitTagChunk(env, v.tag, chunk) ELSE << >>)
    \o EmitFieldsChunk(env, v.fields, chunk)

EmitStructField(env, v) ==
    LET W == Word(env.t)
    IN EmitValueChunk(env, v.base, v.offset \div W) \o ShiftBy("shr", v.offset % W)
       \o ExtendLowField(env.t, v.type)

\* The second word of a call's value is read where i386 calls leave it; no
\* other value has one that can be reached.
EmitValueChunk(env, v, chunk) ==
    CASE chunk = 0 /\ ValueChunks(env.t, v.type) = 1 -> EmitValue(env, v)
      [] ~(chunk = 0 /\ ValueChunks(env.t, v.type) = 1) ->
           CASE v.kind \in {"StructLiteral", "EnumLiteral"} -> EmitLiteralChunk(env, v, chunk)
             [] v.kind = "Local" -> LoadSlot(env.t, ChunkSlot(env.t, env.slots[v.name], chunk))
             [] v.kind = "Call" /\ chunk = 1 /\ env.t = "i386" -> <<Move("ax", "dx")>>
             [] OTHER -> IF chunk = 0 THEN EmitValue(env, v) ELSE <<Const("ax", 0, Word(env.t))>>

\* Both operands are tested; the value is 1 or 0.
EmitLogical(env, v) ==
    LET W == Word(env.t)
        rel == IF v.op = "&&" THEN "eq" ELSE "ne"
        rhs == EmitValue(env, v.rhs)
    IN EmitValue(env, v.lhs) \o <<TestLow, JumpIf(rel, Skip(Len(rhs) + 4))>>
       \o rhs \o <<TestLow, JumpIf(rel, Skip(2)),
                   Const("ax", IF v.op = "&&" THEN 1 ELSE 0, W), Jump(Skip(1)),
                   Const("ax", IF v.op = "&&" THEN 0 ELSE 1, W)>>

\* An offset is counted in elements of what the pointer points to.
ScalePointerOffset(t, v) ==
    IF ~IsPointer(v.type) \/ v.op \notin {"+", "-"} \/ MemorySize(t, v.type.pointee) = 1 THEN << >>
    ELSE <<ArithConst("mul", "cx", "cx", MemorySize(t, v.type.pointee))>>

EmitBinary(env, v) ==
    LET divide == Divide(~IsUnsigned(v.type), "cx", "ax", "dx")
    IN EmitValue(env, v.lhs) \o <<Push("ax")>> \o EmitValue(env, v.rhs)
       \o <<Move("cx", "ax"), Pop("ax")>> \o ScalePointerOffset(env.t, v)
       \o CASE v.op \in Comparisons -> <<Compare("ax", "cx"), Set("ax", SetCondition(v))>>
            [] v.op = "+" -> <<Arith("add", "ax", "ax", "cx")>>
            [] v.op = "-" -> <<Arith("sub", "ax", "ax", "cx")>>
            [] v.op = "*" -> <<Arith("mul", "ax", "ax", "cx")>>
            [] v.op = "/" -> <<divide>>
            [] v.op = "%" -> <<divide, Move("ax", "dx")>>

EmitCast(env, v) ==
    LET size == MemorySize(env.t, v.type)
    IN EmitValue(env, v.value)
       \o (IF IsInteger(v.type) /\ (size \in {1, 2} \/ (size = 4 /\ env.t = "x86_64"))
           THEN <<Extend("ax", size, IsSigned(v.type), Word(env.t))>> ELSE << >>)

EmitUnary(env, v) ==
    CASE v.op = "&" -> <<Lea("ax", "bp", env.slots[v.operand.name])>>
      [] v.op \in {"pre++", "post++", "pre--", "post--"} -> Increment(env, v)
      [] v.op = "-" -> EmitValue(env, v.operand) \o <<Negate("ax")>>
      [] v.op = "!" -> EmitValue(env, v.operand) \o <<TestLow, Set("ax", Condition("eq", TRUE))>>
      [] v.op = "*" -> EmitValue(env, v.operand) \o IndirectLoad(env.t, v.type)

\* The chunks of one argument, the last first, each pushed.
PushChunks(env, v) ==
    LET n == ValueChunks(env.t, v.type)
    IN Concat([c \in 1..n |-> EmitValueChunk(env, v, n - c) \o <<Push("ax")>>])

\* Mutant: the caller takes back a word for every argument and not every chunk.
CleanupPerArgument(env, v) ==
    LET n == Len(v.arguments)
    IN Concat([i \in 1..n |-> PushChunks(env, v.arguments[n + 1 - i])])
       \o <<Call(v.callee)>>
       \o (IF n > 0 THEN <<AdjustStack(4 * n)>> ELSE << >>)

\* Arguments are pushed from the last to the first; i386 leaves them there.
EmitI386Call(env, v) ==
    LET n == Len(v.arguments)
        chunks == FoldLeft(+, 0, [i \in 1..n |-> ValueChunks("i386", v.arguments[i].type)])
    IN Concat([i \in 1..n |-> PushChunks(env, v.arguments[n + 1 - i])])
       \o <<Call(v.callee)>>
       \o (IF chunks > 0 THEN <<AdjustStack(4 * chunks)>> ELSE << >>)

\* Those on the stack first, then those for registers, which are popped; an odd
\* number of words on the stack gets one of padding.
EmitX64Call(env, v) ==
    LET n == Len(v.arguments)
        placed == Placement([i \in 1..n |-> v.arguments[i].type])
        total == placed[n + 1]
        padding == IF total.stack % 2 = 1 THEN 8 ELSE 0
        pushed(here) == Concat([i \in 1..n |-> IF placed[n + 1 - i].here = here
                                               THEN PushChunks(env, v.arguments[n + 1 - i])
                                               ELSE << >>])
        cleanup == 8 * total.stack + padding
    IN (IF padding > 0 THEN <<AdjustStack(-padding)>> ELSE << >>)
       \o pushed(FALSE) \o pushed(TRUE)
       \o [i \in 1..total.register |-> Pop(ArgumentRegisters[i])]
       \o <<Call(v.callee)>>
       \o (IF cleanup > 0 THEN <<AdjustStack(cleanup)>> ELSE << >>)

EmitValue(env, v) ==
    LET W == Word(env.t)
    IN CASE v.kind = "Integer" -> <<Const("ax", v.number, W)>>
         [] v.kind = "Bool" -> <<Const("ax", IF v.truth THEN 1 ELSE 0, W)>>
         [] v.kind = "String" -> <<Address("ax", StringName(v.text))>>
         [] v.kind = "Global" ->
              IF v.symbol \in env.buffers THEN <<Address("ax", StaticName(v.symbol))>>
                                        ELSE LoadStatic(v.symbol)
         [] v.kind = "Local" -> LoadSlot(env.t, env.slots[v.name])
         [] v.kind = "Unary" -> EmitUnary(env, v)
         [] v.kind = "Binary" ->
              IF v.op \in Logical THEN EmitLogical(env, v) ELSE EmitBinary(env, v)
         [] v.kind = "Cast" -> EmitCast(env, v)
         [] v.kind = "Call" ->
              IF env.t = "x86_64" THEN EmitX64Call(env, v) ELSE EmitI386Call(env, v)
         [] v.kind \in {"StructLiteral", "EnumLiteral"} -> EmitLiteralChunk(env, v, 0)
         [] v.kind = "StructField" -> EmitStructField(env, v)

(***************************************************************************)
(* Statements: [code, slots], the slots with the names a `let` added       *)
(***************************************************************************)
StoreChunks(env, v, slot) ==
    Concat([c \in 1..ValueChunks(env.t, v.type) |->
              EmitValueChunk(env, v, c - 1) \o StoreSlot(env.t, ChunkSlot(env.t, slot, c - 1))])

\* A binding is read out of the words of the matched value.
EmitBindingChunk(t, binding, matched, chunk) ==
    LET offset == binding.offset + chunk * Word(t)
    IN LoadSlot(t, ChunkSlot(t, matched, offset \div Word(t)))
       \o ShiftBy("shr", offset % Word(t)) \o ExtendLowField(t, binding.type)

\* The names of the first pattern that has any are bound.
EmitBindings(env, arm, i, place, matched) ==
    LET binding == {p \in DOMAIN arm.patterns : arm.patterns[p].bindings # << >>}
        first == CHOOSE p \in binding : \A q \in binding : p <= q
        names == arm.patterns[first].bindings
        slot(b) == env.lets[BindingPlace(place, i, first, b)]
        copy(b) == Concat([c \in 1..ValueChunks(env.t, names[b].type) |->
                             EmitBindingChunk(env.t, names[b], matched, c - 1)
                             \o StoreSlot(env.t, ChunkSlot(env.t, slot(b), c - 1))])
        bind[b \in 0..Len(names)] ==
            IF b = 0 THEN env.slots
            ELSE [x \in DOMAIN bind[b - 1] \cup {names[b].name} |->
                    IF x = names[b].name THEN slot(b) ELSE bind[b - 1][x]]
    IN IF binding = {} THEN [code |-> << >>, slots |-> env.slots]
       ELSE [code |-> Concat([b \in DOMAIN names |-> copy(b)]), slots |-> bind[Len(names)]]

\* The tests of the arms in order; a default arm is kept for the end.
EmitTest(env, p, matched, label) ==
    CASE p.kind = "Default" -> << >>
      [] p.kind = "Struct" -> <<Jump(label)>>
      [] p.kind = "EnumVariant" -> <<CompareMemory(4, "bp", matched, p.value), JumpIf("eq", label)>>
      [] p.kind = "Integer" ->
           <<CompareMemory(Word(env.t), "bp", matched, p.value), JumpIf("eq", label)>>
      [] p.kind = "Bool" ->
           <<CompareMemory(Word(env.t), "bp", matched, IF p.value THEN 1 ELSE 0), JumpIf("eq", label)>>

RECURSIVE EmitStatement(_, _, _)
RECURSIVE EmitBody(_, _, _, _)

EmitBody(env, body, place, k) ==
    LET one == EmitStatement(env, body[k], Append(place, k))
    IN IF k > Len(body) THEN << >>
       ELSE one.code \o EmitBody([env EXCEPT !.slots = one.slots], body, place, k + 1)

EmitIf(env, s, place) ==
    LET else == At("else", env.symbol, place)
        end == At("end_if", env.symbol, place)
    IN EmitValue(env, s.value) \o <<TestLow, JumpIf("eq", else)>>
       \o EmitBody(env, s.then, Append(place, 1), 1) \o <<Jump(end), Label(else)>>
       \o EmitBody(env, s.else, Append(place, 2), 1) \o <<Label(end)>>

EmitMatch(env, s, place) ==
    LET end == At("match_end", env.symbol, place)
        label(i) == At("match_arm", env.symbol, Append(place, i))
        matched == env.lets[place]
        tests(i) == Concat([p \in DOMAIN s.arms[i].patterns |->
                              EmitTest(env, s.arms[i].patterns[p], matched, label(i))])
        defaults == {i \in DOMAIN s.arms : \E p \in DOMAIN s.arms[i].patterns :
                                             s.arms[i].patterns[p].kind = "Default"}
        bound(i) == EmitBindings(env, s.arms[i], i, place, matched)
        arm(i) == <<Label(label(i))>> \o bound(i).code
                  \o EmitBody([env EXCEPT !.slots = bound(i).slots], s.arms[i].body, Append(place, i), 1)
                  \o <<Jump(end)>>
    IN StoreChunks(env, s.value, matched)
       \o Concat([i \in DOMAIN s.arms |-> tests(i)])
       \o <<Jump(IF defaults = {} THEN end ELSE label(Largest(defaults)))>>
       \o Concat([i \in DOMAIN s.arms |-> arm(i)])
       \o <<Label(end)>>

EmitWhile(env, s, place) ==
    LET start == At("while_start", env.symbol, place)
        end == At("while_end", env.symbol, place)
        inside == [env EXCEPT !.start = start, !.end = end]
    IN <<Label(start)>> \o EmitValue(env, s.value) \o <<TestLow, JumpIf("eq", end)>>
       \o EmitBody(inside, s.body, Append(place, 1), 1) \o <<Jump(start), Label(end)>>

\* Mutant: continue goes to the condition.
ContinueToCondition(env, s, place) ==
    LET condition == At("for_condition", env.symbol, place)
        end == At("for_end", env.symbol, place)
        initializer == EmitStatement(env, s.initializer, Append(place, 1))
        loop == [env EXCEPT !.slots = initializer.slots]
        inside == [loop EXCEPT !.start = condition, !.end = end]
    IN initializer.code \o <<Label(condition)>> \o EmitValue(loop, s.value)
       \o <<TestLow, JumpIf("eq", end)>>
       \o EmitBody(inside, s.body, Append(place, 2), 1)
       \o EmitStatement(loop, s.increment, Append(place, 3)).code
       \o <<Jump(condition), Label(end)>>

\* continue goes to the increment.
EmitFor(env, s, place) ==
    LET condition == At("for_condition", env.symbol, place)
        increment == At("for_increment", env.symbol, place)
        end == At("for_end", env.symbol, place)
        initializer == EmitStatement(env, s.initializer, Append(place, 1))
        loop == [env EXCEPT !.slots = initializer.slots]
        inside == [loop EXCEPT !.start = increment, !.end = end]
    IN initializer.code \o <<Label(condition)>> \o EmitValue(loop, s.value)
       \o <<TestLow, JumpIf("eq", end)>>
       \o EmitBody(inside, s.body, Append(place, 2), 1) \o <<Label(increment)>>
       \o EmitStatement(loop, s.increment, Append(place, 3)).code
       \o <<Jump(condition), Label(end)>>

EmitAssign(env, s) ==
    IF s.target.kind = "Global" THEN EmitValue(env, s.value) \o StoreStatic(s.target.symbol)
                                ELSE StoreChunks(env, s.value, env.slots[s.target.name])

EmitIndirectAssign(env, s) ==
    EmitValue(env, s.value) \o <<Push("ax")>> \o EmitValue(env, s.target) \o <<Pop("cx")>>
    \o IndirectStore(env.t, s.value.type)

\* i386 returns the second word of an aggregate in dx.
EmitReturn(env, v) ==
    LET chunks == ValueChunks(env.t, v.type)
    IN (IF env.t = "i386" /\ chunks > 1
        THEN EmitValueChunk(env, v, 0) \o <<Push("ax")>>
             \o Concat([c \in 1..(chunks - 1) |-> EmitValueChunk(env, v, c) \o <<Move("dx", "ax")>>])
             \o <<Pop("ax")>>
        ELSE EmitValue(env, v))
       \o <<Jump(At("return", env.symbol, << >>))>>

EmitStatement(env, s, place) ==
    LET keep(code) == [code |-> code, slots |-> env.slots]
    IN CASE s.kind = "Let" ->
              [code |-> StoreChunks(env, s.value, env.lets[place]),
               slots |-> [x \in DOMAIN env.slots \cup {s.name} |->
                            IF x = s.name THEN env.lets[place] ELSE env.slots[x]]]
         [] s.kind = "Assign" -> keep(EmitAssign(env, s))
         [] s.kind = "IndirectAssign" -> keep(EmitIndirectAssign(env, s))
         [] s.kind = "Expr" -> keep(EmitValue(env, s.value))
         [] s.kind = "If" -> keep(EmitIf(env, s, place))
         [] s.kind = "Match" -> keep(EmitMatch(env, s, place))
         [] s.kind = "While" -> keep(EmitWhile(env, s, place))
         [] s.kind = "For" -> keep(EmitFor(env, s, place))
         [] s.kind = "Break" -> keep(<<Jump(env.end)>>)
         [] s.kind = "Continue" -> keep(<<Jump(env.start)>>)
         [] s.kind = "Return" -> keep(EmitReturn(env, s.value))

(***************************************************************************)
(* Functions and data                                                      *)
(***************************************************************************)
\* The registers of the parameters are stored to their slots.
ParameterSpills(f, frame) ==
    LET types == ParameterTypes(f)
        placed == Placement(types)
        spill(i) == [c \in 1..ValueChunks("x86_64", types[i]) |->
                       Store(ArgumentRegisters[placed[i].register + c], 8, "bp",
                             ChunkSlot("x86_64", frame.parameters[f.parameters[i].name], c - 1))]
    IN Concat([i \in DOMAIN types |-> IF placed[i].here THEN spill(i) ELSE << >>])

\* Mutant: the caller's frame pointer is not kept.
FramePointerLost(t, f, buffers) ==
    LET frame == BuildFrame(t, f)
        none == At("none", f.symbol, << >>)
        env == [t |-> t, symbol |-> f.symbol, lets |-> frame.slots, slots |-> frame.parameters,
                buffers |-> buffers, start |-> none, end |-> none]
    IN <<Label(At("function", f.symbol, << >>)), Move("bp", "sp")>>
       \o (IF frame.bytes > 0 THEN <<AdjustStack(-frame.bytes)>> ELSE << >>)
       \o (IF t = "x86_64" THEN ParameterSpills(f, frame) ELSE << >>)
       \o EmitBody(env, f.body, << >>, 1)
       \o <<Label(At("return", f.symbol, << >>)), Move("sp", "bp"), Ret>>

EmitFunction(t, f, buffers) ==
    LET frame == BuildFrame(t, f)
        none == At("none", f.symbol, << >>)
        env == [t |-> t, symbol |-> f.symbol, lets |-> frame.slots, slots |-> frame.parameters,
                buffers |-> buffers, start |-> none, end |-> none]
    IN <<Label(At("function", f.symbol, << >>)), Push("bp"), Move("bp", "sp")>>
       \o (IF frame.bytes > 0 THEN <<AdjustStack(-frame.bytes)>> ELSE << >>)
       \o (IF t = "x86_64" THEN ParameterSpills(f, frame) ELSE << >>)
       \o EmitBody(env, f.body, << >>, 1)
       \o <<Label(At("return", f.symbol, << >>)), Move("sp", "bp"), Pop("bp"), Ret>>

\* What of the module this target has no code for stops all of it.
IsSupported(t, type) == IF t = "x86_64" THEN IsValid(type) ELSE IsI386Supported(type)
ValidSignature(t, type) ==
    IsSupported(t, type) /\ (t = "i386" => ValueChunks(t, type) <= 2)
ValidateModule(t, ir) ==
    /\ \A i \in DOMAIN ir.buffers : IsSupported(t, ir.buffers[i].element)
    /\ \A i \in DOMAIN ir.scalars : IsSupported(t, ir.scalars[i].type)
    /\ \A i \in DOMAIN ir.functions :
         LET f == ir.functions[i]
         IN \A type \in {f.ret} \cup Range(ParameterTypes(f)) : ValidSignature(t, type)
    /\ \A v \in ModuleValues(ir) : IsSupported(t, v.type)

StringLiterals(ir) == {v.text : v \in {x \in ModuleValues(ir) : x.kind = "String"}}

\* The bytes of a string and the zero behind them.
StringDatum(text) ==
    Datum(StringName(text), [i \in 1..Len(text) + 1 |->
                               NumberElement(1, IF i <= Len(text) THEN text[i] ELSE 0)])

\* Every static scalar has four bytes.
ScalarDatum(s) == Datum(StaticName(s.symbol), <<NumberElement(4, s.init)>>)

\* initializers, then zeros up to the length.
BufferDatum(t, b) ==
    LET size == MemorySize(t, b.element)
    IN Datum(StaticName(b.symbol),
             [i \in 1..b.length |->
                IF i > Len(b.inits) THEN NumberElement(size, 0)
                ELSE IF b.element = StrType THEN AddressElement(Word(t), StringName(b.inits[i]))
                ELSE NumberElement(size, b.inits[i])])

BufferStrings(ir) ==
    UNION {Range(ir.buffers[i].inits) : i \in {j \in DOMAIN ir.buffers :
                                                 ir.buffers[j].element = StrType}}

\* emit: nothing for a module that does not validate.
X86Image(t, ir) ==
    LET buffers == {ir.buffers[i].symbol : i \in DOMAIN ir.buffers}
        own == SelectSeq(ir.functions, LAMBDA f : ~f.extern)
        texts == StringLiterals(ir) \cup BufferStrings(ir)
    IN [ok |-> ValidateModule(t, ir),
        word |-> Word(t), slot |-> Word(t), link |-> FALSE,
        arguments |-> IF t = "x86_64" THEN ArgumentRegisters ELSE << >>,
        accumulator |-> "ax", frame |-> "bp",
        saved |-> {"bp", "sp"},
        data |-> [k \in DOMAIN SetToSeq(texts) |-> StringDatum(SetToSeq(texts)[k])]
                 \o [i \in DOMAIN ir.scalars |-> ScalarDatum(ir.scalars[i])]
                 \o [i \in DOMAIN ir.buffers |-> BufferDatum(t, ir.buffers[i])],
        frames |-> [symbol \in {own[i].symbol : i \in DOMAIN own} |->
                      BuildFrame(t, own[CHOOSE i \in DOMAIN own : own[i].symbol = symbol]).bytes],
        code |-> Concat([i \in DOMAIN own |-> EmitFunction(t, own[i], buffers)])]

=============================================================================
