----------------------------- MODULE RexcArm64 -----------------------------
(***************************************************************************)
(* The code generator for arm64 (codegen_arm64.cpp).  Its shape is that of *)
(* RexcX86: a value is left in x0, what must survive another evaluation is *)
(* pushed.  It differs in the frame, in which part of a register an        *)
(* instruction writes, and in how aggregates are stored and returned.      *)
(***************************************************************************)
EXTENDS RexcIr, RexcAsm, SequencesExt

ArgumentRegisters == <<"x0", "x1", "x2", "x3", "x4", "x5", "x6", "x7">>

MemorySize(type) ==
    CASE type.kind = "Bool" -> 1
      [] IsInteger(type) -> type.bits \div 8
      [] IsAggregate(type) /\ type.bits > 0 -> type.bits \div 8
      [] OTHER -> 8

ValueChunks(type) ==
    IF IsAggregate(type) THEN Largest({1, (MemorySize(type) + 7) \div 8}) ELSE 1

\* A slot is the lowest address of a local; arguments on the stack take
\* sixteen bytes for each chunk.
ChunkSlot(slot, chunk) == IF slot > 0 THEN slot + 16 * chunk ELSE slot + 8 * chunk

(***************************************************************************)
(* The frame                                                               *)
(***************************************************************************)
TakeSlot(f, place, type) ==
    LET next == f.next + ValueChunks(type)
    IN [next |-> next,
        slots |-> [p \in DOMAIN f.slots \cup {place} |-> IF p = place THEN -8 * next ELSE f.slots[p]]]

BindingPlace(place, arm, pattern, b) == place \o <<0, arm, pattern, b>>

RECURSIVE AssignLocalSlot(_, _, _)
RECURSIVE AssignLocalSlots(_, _, _, _)
RECURSIVE AssignArms(_, _, _, _)

AssignLocalSlots(body, place, k, f) ==
    IF k > Len(body) THEN f
    ELSE AssignLocalSlots(body, place, k + 1, AssignLocalSlot(body[k], Append(place, k), f))

AssignArms(arms, place, i, f) ==
    LET patterns == arms[i].patterns
        places == Concat([p \in DOMAIN patterns |->
                            [b \in DOMAIN patterns[p].bindings |-> <<p, b>>]])
        bound == FoldLeft(LAMBDA g, at : TakeSlot(g, BindingPlace(place, i, at[1], at[2]),
                                                  patterns[at[1]].bindings[at[2]].type),
                          f, places)
    IN IF i > Len(arms) THEN f
       ELSE AssignArms(arms, place, i + 1, AssignLocalSlots(arms[i].body, Append(place, i), 1, bound))

AssignLocalSlot(s, place, f) ==
    CASE s.kind = "Let" -> TakeSlot(f, place, s.value.type)
      [] s.kind = "While" -> AssignLocalSlots(s.body, Append(place, 1), 1, f)
      [] s.kind = "For" ->
           LET initializer == AssignLocalSlot(s.initializer, Append(place, 1), f)
               body == AssignLocalSlots(s.body, Append(place, 2), 1, initializer)
           IN AssignLocalSlot(s.increment, Append(place, 3), body)
      [] s.kind = "If" ->
           AssignLocalSlots(s.else, Append(place, 2), 1,
                            AssignLocalSlots(s.then, Append(place, 1), 1, f))
      [] s.kind = "Match" -> AssignArms(s.arms, place, 1, TakeSlot(f, place, s.value.type))
      [] OTHER -> f

ParameterTypes(f) == [i \in DOMAIN f.parameters |-> f.parameters[i].type]

\* The chunks placed in registers and on the stack before each value, and
\* whether it is in registers itself.
Placement(types) ==
    LET fits(n, i) == ValueChunks(types[i]) <= 2
                      /\ n + ValueChunks(types[i]) <= Len(ArgumentRegisters)
        before[i \in 1..Len(types) + 1] ==
            IF i = 1 THEN [register |-> 0, stack |-> 0]
            ELSE IF fits(before[i - 1].register, i - 1)
            THEN [before[i - 1] EXCEPT !.register = @ + ValueChunks(types[i - 1])]
            ELSE [before[i - 1] EXCEPT !.stack = @ + ValueChunks(types[i - 1])]
    IN [at |-> before, total |-> before[Len(types) + 1],
        inRegisters |-> [i \in DOMAIN types |-> fits(before[i].register, i)]]

BuildFrame(f) ==
    LET types == ParameterTypes(f)
        placed == Placement(types)
        slot(i) == IF placed.inRegisters[i] THEN -8 * (placed.at[i].register + ValueChunks(types[i]))
                                            ELSE 16 + 16 * placed.at[i].stack
        frame == AssignLocalSlots(f.body, << >>, 1,
                                  [next |-> placed.total.register, slots |-> << >>])
    IN [parameters |-> [x \in {f.parameters[i].name : i \in DOMAIN types} |->
                          slot(Largest({i \in DOMAIN types : f.parameters[i].name = x}))],
        slots |-> frame.slots,
        bytes |-> 16 * ((8 * frame.next + 15) \div 16)]

(***************************************************************************)
(* Values                                                                  *)
(***************************************************************************)
Skip(n) == At("skip", << >>, <<n>>)

\* cbz and cbnz of w0.
BranchIf(rel, label) == <<CompareConst("x0", 4, 0), JumpIf(rel, label)>>

EmitInteger(n, type) == <<Const("x0", n, IF MemorySize(type) <= 4 THEN 4 ELSE 8)>>

ConditionCode(v) ==
    LET rel == CASE v.op = "==" -> "eq" [] v.op = "!=" -> "ne" [] v.op = "<" -> "lt"
                 [] v.op = "<=" -> "le" [] v.op = ">" -> "gt" [] v.op = ">=" -> "ge"
    IN Condition(rel, ~IsUnsigned(v.lhs.type) /\ ~IsPointer(v.lhs.type))

LoadSlot(slot) == <<Load("x0", 8, FALSE, 8, "fp", slot)>>
StoreSlot(slot) == <<Store("x0", 8, "fp", slot)>>

MaskToFieldWidth(type) ==
    IF MemorySize(type) \in {1, 2, 4} THEN <<Extend("x0", MemorySize(type), FALSE, 8)>> ELSE << >>
ExtendLowField(type) ==
    IF MemorySize(type) \in {1, 2, 4} THEN <<Extend("x0", MemorySize(type), IsSigned(type), 8)>>
                                      ELSE << >>
ShiftBy(f, n) == IF n > 0 THEN <<ArithConst(f, "x0", "x0", n)>> ELSE << >>
FoldIntoChunk == <<Pop("x1"), Arith("or", "x0", "x1", "x0")>>

IndirectLoad(type) ==
    LET size == MemorySize(type)
    IN IF size \in {1, 2, 4} THEN <<Load("x0", size, IsSigned(type), IF IsSigned(type) THEN 8 ELSE 4, "x0", 0)>>
                             ELSE <<Load("x0", 8, FALSE, 8, "x0", 0)>>
IndirectStore(type) ==
    <<Store("x1", IF MemorySize(type) \in {1, 2, 4} THEN MemorySize(type) ELSE 8, "x0", 0)>>

StaticScalarLoad(symbol) == <<LoadDatum("x0", 4, StaticName(symbol))>>
StaticScalarStore(symbol) == <<StoreDatum("x0", 4, StaticName(symbol))>>

EmitIncrement(env, v) ==
    LET postfix == v.op \in {"post++", "post--"}
        f == IF v.op \in {"pre++", "post++"} THEN "add" ELSE "sub"
        local == v.operand.kind = "Local"
        slot == env.slots[v.operand.name]
    IN (IF local THEN LoadSlot(slot) ELSE StaticScalarLoad(v.operand.symbol))
       \o (IF postfix THEN <<Push("x0")>> ELSE << >>)
       \o <<ArithConst(f, "x0", "x0", 1)>>
       \o (IF local THEN StoreSlot(slot) ELSE StaticScalarStore(v.operand.symbol))
       \o (IF postfix THEN <<Pop("x0")>> ELSE << >>)

RECURSIVE EmitValue(_, _)
RECURSIVE EmitValueChunk(_, _, _)

\* One field of a literal, or'ed into the chunk it begins in.
EmitFieldChunk(env, f) ==
    <<Push("x0")>> \o EmitValue(env, f.value) \o MaskToFieldWidth(f.type)
    \o ShiftBy("shl", f.offset % 8) \o FoldIntoChunk

EmitEnumTagChunk(tag, chunk) ==
    IF chunk = 0 THEN <<Push("x0"), Const("x0", tag, 4)>> \o FoldIntoChunk ELSE << >>

EmitLiteralChunk(env, v, chunk) ==
    LET here == SelectSeq(v.fields, LAMBDA f : f.offset \div 8 = chunk)
    IN <<Const("x0", 0, 8)>>
       \o (IF v.kind = "EnumLiteral" THEN EmitEnumTagChunk(v.tag, chunk) ELSE << >>)
       \o Concat([i \in DOMAIN here |-> EmitFieldChunk(env, here[i])])

EmitStructField(env, v) ==
    EmitValueChunk(env, v.base, v.offset \div 8) \o ShiftBy("shr", v.offset % 8) \o ExtendLowField(v.type)

\* Past the first chunk, only literals and locals can be read.
EmitValueChunk(env, v, chunk) ==
    LET only == chunk = 0 /\ ValueChunks(v.type) = 1
    IN CASE only -> EmitValue(env, v)
         [] ~only /\ v.kind \in {"StructLiteral", "EnumLiteral"} -> EmitLiteralChunk(env, v, chunk)
         [] ~only /\ v.kind = "Local" -> LoadSlot(ChunkSlot(env.slots[v.name], chunk))
         [] OTHER -> IF chunk = 0 THEN EmitValue(env, v) ELSE <<Const("x0", 0, 8)>>

EmitLogicalBinary(env, v) ==
    LET rel == IF v.op = "&&" THEN "eq" ELSE "ne"
        rhs == EmitValue(env, v.rhs)
        early == IF v.op = "&&" THEN 0 ELSE 1
    IN EmitValue(env, v.lhs) \o BranchIf(rel, Skip(Len(rhs) + 4))
       \o rhs \o BranchIf(rel, Skip(2))
       \o <<Const("x0", 1 - early, 4), Jump(Skip(1)), Const("x0", early, 4)>>

ScalePointerOffset(v) ==
    LET scale == Largest({1, MemorySize(v.type.pointee)})
    IN IF ~IsPointer(v.type) \/ v.op \notin {"+", "-"} THEN << >>
       ELSE IF scale = 1 THEN << >>
       ELSE <<Const("x9", scale, 8), Arith("mul", "x0", "x0", "x9")>>

EmitBinary(env, v) ==
    LET divide == IF IsUnsigned(v.type) THEN "udiv" ELSE "sdiv"
    IN EmitValue(env, v.lhs) \o <<Push("x0")>> \o EmitValue(env, v.rhs)
       \o ScalePointerOffset(v) \o <<Pop("x1")>>
       \o CASE v.op \in Comparisons -> <<Compare("x1", "x0"), Set("x0", ConditionCode(v))>>
            [] v.op = "+" -> <<Arith("add", "x0", "x1", "x0")>>
            [] v.op = "-" -> <<Arith("sub", "x0", "x1", "x0")>>
            [] v.op = "*" -> <<Arith("mul", "x0", "x1", "x0")>>
            [] v.op = "/" -> <<Arith(divide, "x0", "x1", "x0")>>
            [] v.op = "%" -> <<Arith(divide, "x9", "x1", "x0"), MulSub("x0", "x9", "x0", "x1")>>

\* Casts to 8 and 16 bits write w0, and the upper half of x0 becomes zero.
EmitCast(env, v) ==
    LET size == MemorySize(v.type)
    IN EmitValue(env, v.value)
       \o IF ~IsInteger(v.type) THEN << >>
          ELSE IF size \in {1, 2} THEN <<Extend("x0", size, IsSigned(v.type), 4)>>
          ELSE IF size = 4 /\ IsSigned(v.type) THEN <<Extend("x0", 4, TRUE, 8)>>
          ELSE << >>

EmitUnary(env, v) ==
    CASE v.op = "&" -> <<Lea("x0", "fp", env.slots[v.operand.name])>>
      [] v.op \in {"pre++", "post++", "pre--", "post--"} -> EmitIncrement(env, v)
      [] v.op = "-" -> EmitValue(env, v.operand) \o <<Negate("x0")>>
      [] v.op = "!" -> EmitValue(env, v.operand)
                       \o <<CompareConst("x0", 4, 0), Set("x0", Condition("eq", TRUE))>>
      [] v.op = "*" -> EmitValue(env, v.operand) \o IndirectLoad(v.type)

PushChunks(env, v) ==
    LET n == ValueChunks(v.type)
    IN Concat([c \in 1..n |-> EmitValueChunk(env, v, n - c) \o <<Push("x0")>>])

\* The last argument first, those on the stack before those for registers.
EmitCall(env, v) ==
    LET n == Len(v.arguments)
        placed == Placement([i \in 1..n |-> v.arguments[i].type])
        pushed(here) == Concat([i \in 1..n |-> IF placed.inRegisters[n + 1 - i] = here
                                               THEN PushChunks(env, v.arguments[n + 1 - i])
                                               ELSE << >>])
    IN pushed(FALSE) \o pushed(TRUE)
       \o [i \in 1..placed.total.register |-> Pop(ArgumentRegisters[i])]
       \o <<Call(v.callee)>>
       \o (IF placed.total.stack > 0 THEN <<AdjustStack(16 * placed.total.stack)>> ELSE << >>)

EmitValue(env, v) ==
    CASE v.kind = "Integer" -> EmitInteger(v.number, v.type)
      [] v.kind = "Bool" -> <<Const("x0", IF v.truth THEN 1 ELSE 0, 4)>>
      [] v.kind = "String" -> <<Address("x0", StringName(v.text))>>
      [] v.kind = "Global" -> IF v.symbol \in env.buffers THEN <<Address("x0", StaticName(v.symbol))>>
                                                        ELSE StaticScalarLoad(v.symbol)
      [] v.kind = "Local" -> LoadSlot(env.slots[v.name])
      [] v.kind = "Unary" -> EmitUnary(env, v)
      [] v.kind = "Binary" ->
           IF v.op \in Logical THEN EmitLogicalBinary(env, v) ELSE EmitBinary(env, v)
      [] v.kind = "Cast" -> EmitCast(env, v)
      [] v.kind = "Call" -> EmitCall(env, v)
      [] v.kind \in {"StructLiteral", "EnumLiteral"} -> EmitLiteralChunk(env, v, 0)
      [] v.kind = "StructField" -> EmitStructField(env, v)

(***************************************************************************)
(* Statements: [code, slots]                                               *)
(***************************************************************************)
\* A call that answers two chunks leaves them in x0 and x1.
EmitValueToSlots(env, v, slot) ==
    IF ValueChunks(v.type) = 2 /\ v.kind = "Call"
    THEN EmitValue(env, v) \o <<Store("x0", 8, "fp", ChunkSlot(slot, 0)),
                                Store("x1", 8, "fp", ChunkSlot(slot, 1))>>
    ELSE Concat([c \in 1..ValueChunks(v.type) |->
                   EmitValueChunk(env, v, c - 1) \o StoreSlot(ChunkSlot(slot, c - 1))])

EmitMatchBindingChunk(binding, matched, chunk) ==
    LET offset == binding.offset + 8 * chunk
    IN LoadSlot(ChunkSlot(matched, offset \div 8)) \o ShiftBy("shr", offset % 8)
       \o ExtendLowField(binding.type)

\* Only the first pattern of the arm that has bindings counts.
EmitMatchPatternBindings(env, arm, i, place, matched) ==
    LET binding == {p \in DOMAIN arm.patterns : arm.patterns[p].bindings # << >>}
        first == CHOOSE p \in binding : \A q \in binding : p <= q
        names == arm.patterns[first].bindings
        slot(b) == env.lets[BindingPlace(place, i, first, b)]
        copy(b) == Concat([c \in 1..ValueChunks(names[b].type) |->
                             EmitMatchBindingChunk(names[b], matched, c - 1)
                             \o StoreSlot(ChunkSlot(slot(b), c - 1))])
        bound == {names[b].name : b \in DOMAIN names}
        of(x) == Largest({b \in DOMAIN names : names[b].name = x})
    IN IF binding = {} THEN [code |-> << >>, slots |-> env.slots]
       ELSE [code |-> Concat([b \in DOMAIN names |-> copy(b)]),
             slots |-> [x \in DOMAIN env.slots \cup bound |->
                          IF x \in bound THEN slot(of(x)) ELSE env.slots[x]]]

EmitTest(p, matched, label) ==
    LET is(size, n) == <<Load("x0", size, FALSE, size, "fp", matched), CompareConst("x0", size, n),
                         JumpIf("eq", label)>>
    IN CASE p.kind = "Default" -> << >>
         [] p.kind = "Struct" -> <<Jump(label)>>
         [] p.kind = "EnumVariant" -> is(4, p.value)
         [] p.kind = "Integer" -> is(8, p.value)
         [] p.kind = "Bool" -> is(8, IF p.value THEN 1 ELSE 0)

RECURSIVE EmitStatement(_, _, _)
RECURSIVE EmitBody(_, _, _, _)

EmitBody(env, body, place, k) ==
    LET one == EmitStatement(env, body[k], Append(place, k))
    IN IF k > Len(body) THEN << >>
       ELSE one.code \o EmitBody([env EXCEPT !.slots = one.slots], body, place, k + 1)

EmitIf(env, s, place) ==
    LET else == At("else", env.symbol, place)
        end == At("end_if", env.symbol, place)
    IN EmitValue(env, s.value) \o BranchIf("eq", else)
       \o EmitBody(env, s.then, Append(place, 1), 1) \o <<Jump(end), Label(else)>>
       \o EmitBody(env, s.else, Append(place, 2), 1) \o <<Label(end)>>

EmitMatch(env, s, place) ==
    LET end == At("match_end", env.symbol, place)
        label(i) == At("match_arm", env.symbol, Append(place, i))
        matched == env.lets[place]
        tests(i) == Concat([p \in DOMAIN s.arms[i].patterns |->
                              EmitTest(s.arms[i].patterns[p], matched, label(i))])
        defaults == {i \in DOMAIN s.arms : \E p \in DOMAIN s.arms[i].patterns :
                                             s.arms[i].patterns[p].kind = "Default"}
        bound(i) == EmitMatchPatternBindings(env, s.arms[i], i, place, matched)
        arm(i) == <<Label(label(i))>> \o bound(i).code
                  \o EmitBody([env EXCEPT !.slots = bound(i).slots], s.arms[i].body, Append(place, i), 1)
                  \o <<Jump(end)>>
    IN EmitValueToSlots(env, s.value, matched)
       \o Concat([i \in DOMAIN s.arms |-> tests(i)])
       \o <<Jump(IF defaults = {} THEN end ELSE label(Largest(defaults)))>>
       \o Concat([i \in DOMAIN s.arms |-> arm(i)])
       \o <<Label(end)>>

EmitWhile(env, s, place) ==
    LET start == At("while_start", env.symbol, place)
        end == At("while_end", env.symbol, place)
        inside == [env EXCEPT !.start = start, !.end = end]
    IN <<Label(start)>> \o EmitValue(env, s.value) \o BranchIf("eq", end)
       \o EmitBody(inside, s.body, Append(place, 1), 1) \o <<Jump(start), Label(end)>>

EmitFor(env, s, place) ==
    LET condition == At("for_condition", env.symbol, place)
        increment == At("for_increment", env.symbol, place)
        end == At("for_end", env.symbol, place)
        initializer == EmitStatement(env, s.initializer, Append(place, 1))
        loop == [env EXCEPT !.slots = initializer.slots]
        inside == [loop EXCEPT !.start = increment, !.end = end]
    IN initializer.code \o <<Label(condition)>> \o EmitValue(loop, s.value) \o BranchIf("eq", end)
       \o EmitBody(inside, s.body, Append(place, 2), 1) \o <<Label(increment)>>
       \o EmitStatement(loop, s.increment, Append(place, 3)).code
       \o <<Jump(condition), Label(end)>>

\* An assignment stores x0, whatever the size of the local.
EmitAssign(env, s) ==
    EmitValue(env, s.value)
    \o IF s.target.kind = "Global" THEN StaticScalarStore(s.target.symbol)
                                   ELSE StoreSlot(env.slots[s.target.name])

EmitIndirectAssign(env, s) ==
    EmitValue(env, s.value) \o <<Push("x0")>> \o EmitValue(env, s.target) \o <<Pop("x1")>>
    \o IndirectStore(s.value.type)

EmitReturn(env, v) ==
    (IF ValueChunks(v.type) <= 1 THEN EmitValue(env, v)
     ELSE EmitValueChunk(env, v, 0) \o <<Push("x0")>> \o EmitValueChunk(env, v, 1)
          \o <<Move("x1", "x0"), Pop("x0")>>)
    \o <<Jump(At("return", env.symbol, << >>))>>

EmitStatement(env, s, place) ==
    LET keep(code) == [code |-> code, slots |-> env.slots]
    IN CASE s.kind = "Let" ->
              [code |-> EmitValueToSlots(env, s.value, env.lets[place]),
               slots |-> [x \in DOMAIN env.slots \cup {s.name} |->
                            IF x = s.name THEN env.lets[place] ELSE env.slots[x]]]
         [] s.kind = "Assign" -> keep(EmitAssign(env, s))
         [] s.kind = "IndirectAssign" -> keep(EmitIndirectAssign(env, s))
         [] s.kind = "Expr" -> keep(EmitValue(env, s.value))
         [] s.kind = "If" -> keep(EmitIf(env, s, place))
         [] s.kind = "Match" -> keep(EmitMatch(env, s, place))
         [] s.kind = "While" -> keep(EmitWhile(env, s, place))
         [] s.kind = "For" -> keep(EmitFor(env, s, place))
         [] s.kind = "Break" -> keep(<<Jump(env.end)>>)
         [] s.kind = "Continue" -> keep(<<Jump(env.start)>>)
         [] s.kind = "Return" -> keep(EmitReturn(env, s.value))

(***************************************************************************)
(* Functions and data                                                      *)
(***************************************************************************)
ParameterSpills(f, frame) ==
    LET types == ParameterTypes(f)
        placed == Placement(types)
        spill(i) == [c \in 1..ValueChunks(types[i]) |->
                       Store(ArgumentRegisters[placed.at[i].register + c], 8, "fp",
                             ChunkSlot(frame.parameters[f.parameters[i].name], c - 1))]
    IN Concat([i \in DOMAIN types |-> IF placed.inRegisters[i] THEN spill(i) ELSE << >>])

EmitFunction(f, buffers) ==
    LET frame == BuildFrame(f)
        none == At("none", f.symbol, << >>)
        env == [symbol |-> f.symbol, lets |-> frame.slots, slots |-> frame.parameters,
                buffers |-> buffers, start |-> none, end |-> none]
    IN <<Label(At("function", f.symbol, << >>)), PushFrame, Move("fp", "sp")>>
       \o (IF frame.bytes > 0 THEN <<AdjustStack(-frame.bytes)>> ELSE << >>)
       \o ParameterSpills(f, frame)
       \o EmitBody(env, f.body, << >>, 1)
       \o <<Label(At("return", f.symbol, << >>)), Move("sp", "fp"), PopFrame, Ret>>

\* Types are checked where they are declared.
ValidateModule(ir) ==
    /\ \A i \in DOMAIN ir.buffers : IsValid(ir.buffers[i].element)
    /\ \A i \in DOMAIN ir.scalars : IsValid(ir.scalars[i].type)
    /\ \A i \in DOMAIN ir.functions :
         \A type \in {ir.functions[i].ret} \cup Range(ParameterTypes(ir.functions[i])) : IsValid(type)

\* The throws of the emitter: an aggregate of more than two chunks is neither
\* returned nor received.
Emittable(ir) ==
    \A i \in DOMAIN ir.functions :
        IF ir.functions[i].extern THEN TRUE
        ELSE /\ ValueChunks(ir.functions[i].ret) <= 2
             /\ \A v \in BodyValues(ir.functions[i].body) : v.kind = "Call" => ValueChunks(v.type) <= 2

StringDatum(text) ==
    Datum(StringName(text), [i \in 1..Len(text) + 1 |->
                               NumberElement(1, IF i <= Len(text) THEN text[i] ELSE 0)])

ScalarDatum(s) == Datum(StaticName(s.symbol), <<NumberElement(4, s.init)>>)

BufferDatum(b) ==
    LET size == Largest({1, MemorySize(b.element)})
    IN Datum(StaticName(b.symbol),
             [i \in 1..b.length |->
                IF i > Len(b.inits) THEN NumberElement(size, 0)
                ELSE IF b.element = StrType THEN AddressElement(8, StringName(b.inits[i]))
                ELSE NumberElement(size, b.inits[i])])

Texts(ir) ==
    {v.text : v \in {x \in ModuleValues(ir) : x.kind = "String"}}
    \cup UNION {Range(ir.buffers[i].inits) :
                  i \in {j \in DOMAIN ir.buffers : ir.buffers[j].element = StrType}}

Arm64Image(ir) ==
    LET buffers == {ir.buffers[i].symbol : i \in DOMAIN ir.buffers}
        own == SelectSeq(ir.functions, LAMBDA f : ~f.extern)
        texts == SetToSeq(Texts(ir))
    IN [ok |-> ValidateModule(ir) /\ Emittable(ir),
        word |-> 8, slot |-> 16, link |-> TRUE,
        arguments |-> ArgumentRegisters, accumulator |-> "x0", frame |-> "fp",
        saved |-> {"fp", "sp"},
        data |-> [k \in DOMAIN texts |-> StringDatum(texts[k])]
                 \o [i \in DOMAIN ir.scalars |-> ScalarDatum(ir.scalars[i])]
                 \o [i \in DOMAIN ir.buffers |-> BufferDatum(ir.buffers[i])],
        frames |-> [symbol \in {own[i].symbol : i \in DOMAIN own} |->
                      BuildFrame(own[CHOOSE i \in DOMAIN own : own[i].symbol = symbol]).bytes],
        code |-> Concat([i \in DOMAIN own |-> EmitFunction(own[i], buffers)])]

=============================================================================
