----------------------------- MODULE RexcLower -----------------------------
(***************************************************************************)
(* Lowering of the checked tree to the typed IR (lower_ir.cpp).            *)
(*                                                                         *)
(* The Lowerer's members that change while it runs are the record st: the  *)
(* layout tables, the list that collects the statements a statement needs  *)
(* before it (pre), the counter of `?` temporaries, the queue and the set  *)
(* of monomorphs, and failed, which stands for a throw.  What a scope adds *)
(* and takes away again is the record cx: the tables of items, the module  *)
(* path, the bindings of type variables, the locals and the defer scopes.  *)
(***************************************************************************)
EXTENDS RexcAst, RexcIr, SequencesExt

EmptyTable == << >>
With(table, key, v) == (key :> v) @@ table

\* The answer of an operator that throws: any value, and failed is set.
Throw(st) == [v |-> IntegerValue(I32, 0), st |-> [st EXCEPT !.failed = TRUE]]

(***************************************************************************)
(* Types and layouts                                                       *)
(***************************************************************************)
SizeInBytes(st, t) ==
    CASE IsStruct(t) -> IF t.name \in DOMAIN st.structs THEN st.structs[t.name].size ELSE 0
      [] IsEnum(t) /\ t.name \in DOMAIN st.enums -> st.enums[t.name].layout.size
      [] OTHER -> TypeSize(t)

AlignmentOf(st, t) ==
    CASE IsStruct(t) /\ t.name \in DOMAIN st.structs -> st.structs[t.name].alignment
      [] IsEnum(t) /\ t.name \in DOMAIN st.enums -> st.enums[t.name].layout.alignment
      [] IsTuple(t) -> TypeAlignment(t)
      [] OTHER -> Largest({1, SizeInBytes(st, t)})

\* Mutant: the size is that of the last field's end.
StructLayoutUnpadded(st, fields, types, inst) ==
    LET layout == Layout([i \in DOMAIN types |-> SizeInBytes(st, types[i])],
                         [i \in DOMAIN types |-> AlignmentOf(st, types[i])])
        offset(i) == layout.offsets[i]
    IN [fields |-> [i \in DOMAIN fields |-> [name |-> fields[i].name, type |-> types[i], offset |-> offset(i)]],
        size |-> Largest({0} \cup {offset(i) + SizeInBytes(st, types[i]) : i \in DOMAIN types}),
        alignment |-> layout.alignment, inst |-> inst]

\* StructLayout of the named fields of these types.
StructLayoutOf(st, fields, types, inst) ==
    LET layout == Layout([i \in DOMAIN types |-> SizeInBytes(st, types[i])],
                         [i \in DOMAIN types |-> AlignmentOf(st, types[i])])
    IN [fields |-> [i \in DOMAIN fields |-> [name |-> fields[i].name, type |-> types[i],
                                             offset |-> layout.offsets[i]]],
        size |-> layout.size, alignment |-> layout.alignment, inst |-> inst]

EmptyLayout == [fields |-> << >>, size |-> 0, alignment |-> 1, inst |-> << >>]

Template(m, name) == {i \in DOMAIN m.structs : /\ m.structs[i].name = name
                                               /\ m.structs[i].generics # << >>}

RECURSIVE LowerTypeName(_, _, _)
RECURSIVE LowerTypeNames(_, _, _)
RECURSIVE Instantiate(_, _, _, _)

\* lower_type: [t, st].  The bindings of type variables come first, then the
\* primitive forms, the tables, the instances of a template, and the template
\* itself, whose literal takes its type from where it is used.
LowerTypeName(cx, n, st) ==
    LET answer(t) == [t |-> t, st |-> st]
        inner == LowerTypeName(cx, n.of, st)
        elements == LowerTypeNames(cx, n.of, st)
        unbound == \E i \in DOMAIN elements.ts :
            n.of[i].form = "name" /\ elements.ts[i] = TypeVariable(n.of[i].name)
    IN CASE n.form = "type" -> answer(n.type)
         [] n.form = "name" /\ n.name \in DOMAIN cx.subst -> answer(cx.subst[n.name])
         [] n.form = "name" /\ n.name \notin DOMAIN cx.subst ->
              IF <<n.name>> \in DOMAIN st.structs
              THEN answer(UserStructType(<<n.name>>, 8 * st.structs[<<n.name>>].size))
              ELSE IF <<n.name>> \in DOMAIN st.enums
              THEN answer(UserEnumType(<<n.name>>, 8 * st.enums[<<n.name>>].layout.size))
              ELSE IF Template(cx.m, n.name) # {} THEN answer(TypeVariable(n.name))
              ELSE [t |-> I32, st |-> Throw(st).st]
         [] n.form = "pointer" -> [inner EXCEPT !.t = PointerTo(@)]
         [] n.form = "tuple" -> [t |-> TupleType(elements.ts), st |-> elements.st]
         [] OTHER ->
              IF Template(cx.m, n.name) = {} THEN [t |-> I32, st |-> Throw(st).st]
              ELSE IF unbound THEN [t |-> AngleType(n.name, elements.ts), st |-> elements.st]
              ELSE Instantiate(cx, n.name, elements.ts, elements.st)

LowerTypeNames(cx, ns, st) ==
    IF ns = << >> THEN [ts |-> << >>, st |-> st]
    ELSE LET first == LowerTypeName(cx, Head(ns), st)
             rest == LowerTypeNames(cx, Tail(ns), first.st)
         IN [ts |-> <<first.t>> \o rest.ts, st |-> rest.st]

\* The layout of one instance is made once and found again by its symbol; an
\* empty layout stands in while its own fields are laid out.
Instantiate(cx, base, args, st) ==
    LET decl == cx.m.structs[CHOOSE i \in Template(cx.m, base) : TRUE]
        bindings == [v \in Range(decl.generics) |-> args[CHOOSE i \in DOMAIN decl.generics :
                                                           decl.generics[i] = v]]
        name == <<base>> \o MangleSuffix(decl.generics, bindings)
        names == [i \in DOMAIN decl.fields |-> decl.fields[i].type]
        fields == LowerTypeNames([cx EXCEPT !.subst = bindings], names,
                                 [st EXCEPT !.structs = With(@, name, EmptyLayout)])
        made == [fields.st EXCEPT !.structs =
                   With(@, name, StructLayoutOf(fields.st, decl.fields, fields.ts, <<base, args>>))]
        final == IF name \in DOMAIN st.structs THEN st ELSE made
    IN [t |-> UserStructType(name, 8 * final.structs[name].size), st |-> final]

\* compute_struct_layouts, in the order of declaration: a struct declared
\* later is still empty.
RECURSIVE StructLayouts(_, _, _)
StructLayouts(cx, decls, st) ==
    IF decls = << >> THEN st
    ELSE LET d == Head(decls)
             fields == LowerTypeNames(cx, [i \in DOMAIN d.fields |-> d.fields[i].type], st)
             next == [fields.st EXCEPT !.structs[<<d.name>>] =
                        StructLayoutOf(fields.st, d.fields, fields.ts, << >>)]
         IN StructLayouts(cx, Tail(decls), IF d.generics = << >> THEN next ELSE st)

\* compute_enum_layouts, after every struct's.
RECURSIVE EnumLayouts(_, _, _)
RECURSIVE Payloads(_, _, _)
Payloads(cx, variants, st) ==
    IF variants = << >> THEN [ts |-> << >>, st |-> st]
    ELSE LET first == LowerTypeNames(cx, Head(variants).payloads, st)
             rest == Payloads(cx, Tail(variants), first.st)
         IN [ts |-> <<first.ts>> \o rest.ts, st |-> rest.st]
EnumLayouts(cx, decls, st) ==
    IF decls = << >> THEN st
    ELSE LET d == Head(decls)
             payloads == Payloads(cx, d.variants, st)
         IN EnumLayouts(cx, Tail(decls), [payloads.st EXCEPT !.enums[<<d.name>>] =
                [names |-> [i \in DOMAIN d.variants |-> d.variants[i].name],
                 payloads |-> payloads.ts, layout |-> LayoutEnum(payloads.ts)]])

\* EnumLayout{}: a tag and nothing else.
EmptyEnum == [names |-> << >>, payloads |-> << >>,
              layout |-> [variants |-> << >>, start |-> 4, alignment |-> 4, size |-> 4]]

RegisterTypeTables(m) ==
    [structs |-> [n \in {<<m.structs[i].name>> : i \in {j \in DOMAIN m.structs :
                            m.structs[j].generics = << >>}} |-> EmptyLayout],
     enums |-> [n \in {<<m.enums[i].name>> : i \in DOMAIN m.enums} |-> EmptyEnum],
     pre |-> << >>, tmp |-> 0, queue |-> << >>, done |-> {}, failed |-> FALSE]

(***************************************************************************)
(* Items and their paths                                                   *)
(***************************************************************************)
\* The modules some item is in, and the modules around them.
ModulePaths(m) ==
    UNION ({Prefixes(m.functions[i].module) : i \in DOMAIN m.functions}
           \cup {Prefixes(Front(m.scalars[i].path)) : i \in DOMAIN m.scalars}
           \cup {Prefixes(Front(m.buffers[i].path)) : i \in DOMAIN m.buffers})
        \ {<< >>}

\* A buffer of bytes is a string, any other the address of its first element.
BufferType(element) == IF element = U8 THEN StrType ELSE PointerTo(element)

ItemPath(module, name) == Append(module, name)

\* What `use` made the name stand for in this module; the last one counts.
FindImport(cx, alias) ==
    LET target(i) == cx.m.uses[i].import
        kind(p) == IF p \in DOMAIN cx.functions THEN "Function"
                   ELSE IF p \in DOMAIN cx.globals THEN "Global"
                   ELSE IF p \in cx.modules THEN "Module" ELSE "None"
        found == {i \in DOMAIN cx.m.uses : /\ cx.m.uses[i].module = cx.path
                                           /\ Last(target(i)) = alias
                                           /\ kind(target(i)) # "None"}
    IN IF found = {} THEN [kind |-> "None", path |-> << >>]
       ELSE LET path == target(Largest(found)) IN [kind |-> kind(path), path |-> path]

\* The paths a name may stand for, in the order they are tried.
FunctionPaths(cx, path) ==
    LET import == FindImport(cx, path[1])
    IN IF Len(path) = 1
       THEN IF import.kind = "Function" THEN <<import.path>> ELSE <<cx.path \o path, path>>
       ELSE (IF import.kind = "Module" THEN <<import.path \o Tail(path)>> ELSE << >>)
            \o <<cx.path \o path, path>>

\* Mutant: statics of the root are not looked for.
GlobalPathsHere(cx, name) ==
    LET import == FindImport(cx, name)
    IN IF import.kind = "Global" THEN <<import.path>> ELSE <<ItemPath(cx.path, name)>>

GlobalPaths(cx, name) ==
    LET import == FindImport(cx, name)
    IN IF import.kind = "Global" THEN <<import.path>>
                                 ELSE <<ItemPath(cx.path, name), <<name>> >>

\* The first of the paths that the table has, or << >>.
FirstIn(paths, table) ==
    LET hits == SelectSeq(paths, LAMBDA p : p \in DOMAIN table)
    IN IF hits = << >> THEN << >> ELSE hits[1]

ResolveFunction(cx, path) == FirstIn(FunctionPaths(cx, path), cx.functions)
ResolveGlobal(cx, name) == FirstIn(GlobalPaths(cx, name), cx.globals)

\* [enum, index] of a variant: qualified, of the expected type, or the only
\* one of its name; << >> when there is none.
ResolveVariant(st, path, expected) ==
    LET named(enum, v) == {i \in DOMAIN st.enums[enum].names : st.enums[enum].names[i] = v}
        hits(enums, v) == {<<e, i>> \in enums \X (1..10) : i \in named(e, v)}
        qualified == hits({<<path[1]>>} \cap DOMAIN st.enums, path[Len(path)])
        expectedHits == IF IsEnum(expected) THEN hits({expected.name}, path[1]) ELSE {}
        all == hits(DOMAIN st.enums, path[1])
        pick(S) == CHOOSE h \in S : TRUE
    IN IF Len(path) = 2 THEN (IF qualified = {} THEN << >> ELSE pick(qualified))
       ELSE IF Len(path) # 1 THEN << >>
       ELSE IF expectedHits # {} THEN pick(expectedHits)
       ELSE IF \E h \in all : all = {h} THEN pick(all) ELSE << >>

VariantType(st, h) == UserEnumType(h[1], 8 * st.enums[h[1]].layout.size)
VariantFields(st, h) ==
    LET e == st.enums[h[1]]
    IN [i \in DOMAIN e.payloads[h[2]] |->
            [type |-> e.payloads[h[2]][i],
             offset |-> e.layout.start + e.layout.variants[h[2]].offsets[i]]]

\* A field of a struct's layout by name; {} when the struct or the field is unknown.
FieldOf(st, t, field) ==
    IF ~IsStruct(t) THEN {}
    ELSE IF t.name \notin DOMAIN st.structs THEN {}
    ELSE {f \in Range(st.structs[t.name].fields) : f.name = field}

(***************************************************************************)
(* Expressions: [v, st], or [vs, st] for a list                            *)
(***************************************************************************)
\* The address of a field behind a pointer, counted in bytes.
FieldPointer(pointer, type, offset) ==
    CastValue(BinaryValue("+", CastValue(pointer, PointerTo(U8)), IntegerValue(I32, offset),
                          PointerTo(U8)),
              PointerTo(type))

BinaryResultType(op, lhs) == IF lhs = StrType /\ op \in {"+", "-"} THEN PointerTo(U8) ELSE lhs

\* Mutant: the outermost scope is left first.
RECURSIVE OutermostFirst(_)
OutermostFirst(defers) ==
    IF defers = << >> THEN << >> ELSE Head(defers).calls \o OutermostFirst(Tail(defers))

\* The calls a return runs, and those a break or a continue runs: innermost
\* scope first; a scope keeps its calls last registered first.
RECURSIVE ReturnCalls(_)
ReturnCalls(defers) ==
    IF defers = << >> THEN << >> ELSE Last(defers).calls \o ReturnCalls(Front(defers))
RECURSIVE LoopExitCalls(_)
LoopExitCalls(defers) ==
    IF defers = << >> THEN << >>
    ELSE Last(defers).calls
         \o (IF Last(defers).loop THEN << >> ELSE LoopExitCalls(Front(defers)))

RECURSIVE LowerExpr(_, _, _, _)
RECURSIVE LowerAll(_, _, _, _)
RECURSIVE LowerCleanup(_, _, _)

LowerAll(cx, es, expected, st) ==
    IF es = << >> THEN [vs |-> << >>, st |-> st]
    ELSE LET first == LowerExpr(cx, Head(es), IF expected = << >> THEN NoType ELSE Head(expected), st)
             rest == LowerAll(cx, Tail(es), IF expected = << >> THEN << >> ELSE Tail(expected), first.st)
         IN [vs |-> <<first.v>> \o rest.vs, st |-> rest.st]

\* Deferred calls, lowered anew where the scope is left.
LowerCleanup(cx, calls, st) ==
    LET lowered == LowerAll(cx, calls, << >>, st)
    IN [body |-> [i \in DOMAIN lowered.vs |-> ExprStatement(lowered.vs[i])], st |-> lowered.st]

LowerName(cx, x, st) ==
    LET path == ResolveGlobal(cx, x)
    IN IF x \in DOMAIN cx.locals THEN [v |-> LocalValue(x, cx.locals[x]), st |-> st]
       ELSE IF path # << >> THEN [v |-> GlobalValue(path, cx.globals[path]), st |-> st]
       ELSE Throw(st)

\* Mutant: both operands are lowered for the type of the whole.
LowerBinaryForResult(cx, e, expected, st) ==
    LET lhs == LowerExpr(cx, e.lhs, expected, st)
        rhs == LowerExpr(cx, e.rhs, expected, lhs.st)
        boolean == e.op \in Logical \cup Comparisons
    IN [v |-> BinaryValue(e.op, lhs.v, rhs.v,
                          IF boolean THEN BoolType ELSE BinaryResultType(e.op, lhs.v.type)),
        st |-> rhs.st]

LowerBinary(cx, e, expected, st) ==
    LET logical == e.op \in Logical
        lhs == LowerExpr(cx, e.lhs, IF logical THEN BoolType ELSE expected, st)
        rhs == LowerExpr(cx, e.rhs, IF logical THEN BoolType ELSE lhs.v.type, lhs.st)
        type == IF logical \/ e.op \in Comparisons THEN BoolType
                                                   ELSE BinaryResultType(e.op, lhs.v.type)
    IN [v |-> BinaryValue(e.op, lhs.v, rhs.v, type), st |-> rhs.st]

\* A call of a template: its arguments first, then the bindings from the type
\* expected of it and from their types; an instance not met before is queued.
LowerGenericCall(cx, f, e, expected, st) ==
    LET generics == Range(f.generics)
        args == LowerAll(cx, e.arguments, << >>, st)
        primed == IF expected = NoType THEN Unbound
                  ELSE Unify(args.st.structs, f.ret, expected, generics, Unbound).bindings
        found == UnifyAll(args.st.structs, f.parameters,
                          [i \in DOMAIN args.vs |-> args.vs[i].type], generics, primed)
        symbol == f.symbol \o MangleSuffix(f.generics, found.bindings)
        queued == IF symbol \in args.st.done THEN args.st
                  ELSE [args.st EXCEPT !.done = @ \cup {symbol},
                                       !.queue = Append(@, [decl |-> f.decl, symbol |-> symbol,
                                                            bindings |-> found.bindings])]
        pattern == Substitute(f.ret, found.bindings)
        ret == IF IsStruct(pattern) /\ pattern.inst # << >>
               THEN Instantiate(cx, pattern.inst[1], pattern.inst[2], queued)
               ELSE [t |-> pattern, st |-> queued]
    IN IF ~found.ok \/ ~(generics \subseteq DOMAIN found.bindings) THEN Throw(args.st)
       ELSE [v |-> CallValue(symbol, args.vs, ret.t), st |-> ret.st]

LowerEnumLiteral(cx, e, h, st) ==
    LET fields == VariantFields(st, h)
        args == LowerAll(cx, e.arguments, [i \in DOMAIN fields |-> fields[i].type], st)
    IN [v |-> EnumLiteralValue(VariantType(st, h), h[2] - 1,
                 [i \in DOMAIN args.vs |-> [type |-> fields[i].type, offset |-> fields[i].offset,
                                            value |-> args.vs[i]]]),
        st |-> args.st]

\* len of a string, in the runtime.
LowerLen(cx, e, st) ==
    LET args == LowerAll(cx, e.arguments, << >>, st)
    IN IF Len(args.vs) # 1 THEN Throw(st)
       ELSE IF args.vs[1].type # StrType THEN Throw(st)
       ELSE [v |-> CallValue(<<"strlen">>, args.vs, I32), st |-> args.st]

LowerCall(cx, e, expected, st) ==
    LET path == ResolveFunction(cx, e.callee)
        f == cx.functions[path]
        h == ResolveVariant(st, e.callee, expected)
        args == LowerAll(cx, e.arguments, f.parameters, st)
    IN IF e.callee = <<"len">> THEN LowerLen(cx, e, st)
       ELSE IF path = << >> THEN (IF h # << >> THEN LowerEnumLiteral(cx, e, h, st) ELSE Throw(st))
       ELSE IF f.generics # << >> THEN LowerGenericCall(cx, f, e, expected, st)
       ELSE [v |-> CallValue(f.symbol, args.vs, f.ret), st |-> args.st]

\* The fields named in the literal, each at its place in the layout; the bare
\* name of a template takes the instance that is expected.
RECURSIVE LowerFieldInits(_, _, _, _)
LowerFieldInits(cx, type, inits, st) ==
    IF inits = << >> THEN [vs |-> << >>, st |-> st]
    ELSE LET field == CHOOSE f \in FieldOf(st, type, Head(inits).name) : TRUE
             value == LowerExpr(cx, Head(inits).value, field.type, st)
             rest == LowerFieldInits(cx, type, Tail(inits), value.st)
         IN IF FieldOf(st, type, Head(inits).name) = {} THEN [vs |-> << >>, st |-> Throw(st).st]
            ELSE [vs |-> <<[type |-> field.type, offset |-> field.offset, value |-> value.v]>>
                         \o rest.vs,
                  st |-> rest.st]

LowerStructLiteral(cx, e, expected, st) ==
    LET named == LowerTypeName(cx, e.type, st)
        bare == IsStruct(named.t) /\ Template(cx.m, named.t.name[1]) # {} /\ Len(named.t.name) = 1
        type == IF IsStruct(expected) /\ bare THEN expected ELSE named.t
        fields == LowerFieldInits(cx, type, e.fields, named.st)
    IN IF ~IsStruct(type) THEN Throw(named.st)
       ELSE IF type.name \notin DOMAIN named.st.structs THEN Throw(named.st)
       ELSE [v |-> StructLiteralValue(type, fields.vs), st |-> fields.st]

LowerTupleLiteral(cx, e, expected, st) ==
    LET hint == IF IsTuple(expected) THEN expected.elements ELSE << >>
        hints == [i \in DOMAIN e.elements |-> IF i \in DOMAIN hint THEN hint[i] ELSE NoType]
        args == LowerAll(cx, e.elements, hints, st)
        types == [i \in DOMAIN args.vs |-> args.vs[i].type]
    IN [v |-> StructLiteralValue(TupleType(types),
                 [i \in DOMAIN types |-> [type |-> types[i], offset |-> LayoutTuple(types).offsets[i],
                                          value |-> args.vs[i]]]),
        st |-> args.st]

\* (*p).f reads through the address of the field; v.f takes the field of a value.
LowerFieldAccess(cx, e, st) ==
    LET through == e.base.kind = "Unary" /\ e.base.op = "*"
        pointer == LowerExpr(cx, e.base.operand, NoType, st)
        behind == IF IsPointer(pointer.v.type) THEN FieldOf(pointer.st, pointer.v.type.pointee, e.field)
                                               ELSE {}
        base == LowerExpr(cx, e.base, NoType, st)
        inside == FieldOf(base.st, base.v.type, e.field)
        pick(S) == CHOOSE f \in S : TRUE
    IN IF through
       THEN IF behind = {} THEN Throw(pointer.st)
            ELSE [v |-> UnaryValue("*", FieldPointer(pointer.v, pick(behind).type, pick(behind).offset),
                                   pick(behind).type),
                  st |-> pointer.st]
       ELSE IF IsTuple(base.v.type)
       THEN IF e.index \notin DOMAIN base.v.type.elements THEN Throw(base.st)
            ELSE [v |-> StructFieldValue(base.v, base.v.type.elements[e.index],
                                         LayoutTuple(base.v.type.elements).offsets[e.index]),
                  st |-> base.st]
       ELSE IF inside = {} THEN Throw(base.st)
       ELSE [v |-> StructFieldValue(base.v, pick(inside).type, pick(inside).offset), st |-> base.st]

LowerIndex(cx, e, st) ==
    LET base == LowerExpr(cx, e.base, NoType, st)
        offset == LowerExpr(cx, e.index, I32, base.st)
        text == base.v.type = StrType
        address == BinaryValue("+", base.v, offset.v, IF text THEN PointerTo(U8) ELSE base.v.type)
    IN IF ~text /\ ~IsPointer(base.v.type) THEN Throw(offset.st)
       ELSE [v |-> UnaryValue("*", address, address.type.pointee), st |-> offset.st]

LowerUnary(cx, e, expected, st) ==
    LET operand == LowerExpr(cx, e.operand, IF e.op = "*" THEN NoType ELSE expected, st)
        t == operand.v.type
        type == CASE e.op = "&" -> PointerTo(t)
                  [] e.op = "*" -> t.pointee
                  [] OTHER -> t
    IN IF e.op = "*" /\ ~IsPointer(t) THEN Throw(operand.st)
       ELSE [v |-> UnaryValue(e.op, operand.v, type), st |-> operand.st]

\* operand? : a temporary, an early return behind the deferred calls, and the
\* payload.  The first two go in front of the statement it is part of.
LowerTry(cx, e, st) ==
    LET operand == LowerExpr(cx, e.operand, NoType, st)
        x == "__try_tmp_" \o ToString(operand.st.tmp)
        type == ResultOf(I32)
        tmp == LocalValue(x, type)
        counted == [operand.st EXCEPT !.tmp = @ + 1,
                                      !.pre = Append(@, LetStatement(x, operand.v))]
        cleanup == LowerCleanup([cx EXCEPT !.locals = With(@, x, type)],
                                ReturnCalls(cx.defers), counted)
        exit == IfStatement(CallValue(<<"result_i32_is_err">>, <<tmp>>, BoolType),
                            Append(cleanup.body, ReturnStatement(tmp)), << >>)
    IN IF operand.v.type # type THEN Throw(operand.st)
       ELSE [v |-> CallValue(<<"result_i32_value_or">>, <<tmp, IntegerValue(I32, 0)>>, I32),
             st |-> [cleanup.st EXCEPT !.pre = Append(@, exit)]]

LowerExpr(cx, e, expected, st) ==
    LET value == LowerExpr(cx, e.value, NoType, st)
        target == LowerTypeName(cx, e.target, value.st)
        literal(v) == [v |-> v, st |-> st]
    IN CASE e.kind = "Integer" ->
              literal(IntegerValue(IF IsInteger(expected) THEN expected ELSE I32, e.value))
         [] e.kind = "Bool" -> literal(BoolValue(e.value))
         [] e.kind = "String" -> literal(StringValue(e.value))
         [] e.kind = "Name" -> LowerName(cx, e.name, st)
         [] e.kind = "Binary" -> LowerBinary(cx, e, expected, st)
         [] e.kind = "Cast" -> [v |-> CastValue(value.v, target.t), st |-> target.st]
         [] e.kind = "Unary" -> LowerUnary(cx, e, expected, st)
         [] e.kind = "Call" -> LowerCall(cx, e, expected, st)
         [] e.kind = "StructLiteral" -> LowerStructLiteral(cx, e, expected, st)
         [] e.kind = "Tuple" -> LowerTupleLiteral(cx, e, expected, st)
         [] e.kind = "FieldAccess" -> LowerFieldAccess(cx, e, st)
         [] e.kind = "Index" -> LowerIndex(cx, e, st)
         [] e.kind = "Try" -> LowerTry(cx, e, st)

(***************************************************************************)
(* Statements: [s, st, locals], or [body, st] for a block                  *)
(***************************************************************************)
\* The value of a `let` without an initializer; it only makes room.
SynthZero(type, st) ==
    CASE IsInteger(type) -> [v |-> IntegerValue(type, 0), st |-> st]
      [] type = BoolType -> [v |-> BoolValue(FALSE), st |-> st]
      [] IsPointer(type) -> [v |-> CastValue(IntegerValue(I32, 0), type), st |-> st]
      [] OTHER -> Throw(st)

LowerPattern(st, p, type) ==
    LET h == ResolveVariant(st, p.path, type)
        fields == IF p.kind = "Variant" THEN VariantFields(st, h) ELSE st.structs[p.path].fields
        named == SelectSeq([i \in DOMAIN p.bindings |-> i], LAMBDA i : p.bindings[i] # "_")
        bindings == [k \in DOMAIN named |-> [name |-> p.bindings[named[k]],
                                             type |-> fields[named[k]].type,
                                             offset |-> fields[named[k]].offset]]
    IN CASE p.kind = "Default" -> IrPattern("Default", type, 0, << >>)
         [] p.kind \in {"Integer", "Bool"} -> IrPattern(p.kind, type, p.value, << >>)
         [] p.kind = "Variant" -> IrPattern("EnumVariant", VariantType(st, h), h[2] - 1, bindings)
         [] p.kind = "Struct" -> IrPattern("Struct", type, 0, bindings)

PatternKnown(st, p, type) ==
    CASE p.kind = "Variant" -> ResolveVariant(st, p.path, type) # << >>
      [] p.kind = "Struct" -> p.path \in DOMAIN st.structs
      [] OTHER -> TRUE

RECURSIVE LowerStatement(_, _, _)
RECURSIVE LowerStatements(_, _, _)
RECURSIVE LowerBlock(_, _, _, _)
RECURSIVE LowerArms(_, _, _, _)

\* A block is a scope for names and for defers; its deferred calls also run
\* at its end.  The body of an unsafe block joins the statements around it.
\* What a statement needs before it comes before it.
LowerBlock(cx, body, loop, st) ==
    LowerStatements([cx EXCEPT !.defers = Append(@, [calls |-> << >>, loop |-> loop])], body, st)

LowerStatements(cx, body, st) ==
    LET s == Head(body)
        inner == LowerBlock(cx, s.body, FALSE, st)
        afterInner == LowerStatements(cx, Tail(body), inner.st)
        deferred == [cx EXCEPT !.defers[Len(cx.defers)].calls = <<s.call>> \o @]
        one == LowerStatement(cx, s, [st EXCEPT !.pre = << >>])
        after == LowerStatements([cx EXCEPT !.locals = one.locals], Tail(body),
                                 [one.st EXCEPT !.pre = st.pre])
    IN IF body = << >> THEN LowerCleanup(cx, Last(cx.defers).calls, st)
       ELSE IF s.kind = "UnsafeBlock"
       THEN [body |-> inner.body \o afterInner.body, st |-> afterInner.st]
       ELSE IF s.kind = "Defer" THEN LowerStatements(deferred, Tail(body), st)
       ELSE [body |-> one.st.pre \o <<one.s>> \o after.body, st |-> after.st]

LowerArms(cx, arms, type, st) ==
    IF arms = << >> THEN [arms |-> << >>, st |-> st]
    ELSE LET arm == Head(arms)
             known == \A i \in DOMAIN arm.patterns : PatternKnown(st, arm.patterns[i], type)
             patterns == [i \in DOMAIN arm.patterns |-> LowerPattern(st, arm.patterns[i], type)]
             bound == UNION {Range(patterns[i].bindings) : i \in DOMAIN patterns}
             locals == [x \in {b.name : b \in bound} |-> (CHOOSE b \in bound : b.name = x).type] @@ cx.locals
             body == LowerBlock([cx EXCEPT !.locals = locals], arm.body, FALSE, st)
             rest == LowerArms(cx, Tail(arms), type, body.st)
         IN IF ~known THEN [arms |-> << >>, st |-> Throw(st).st]
            ELSE [arms |-> <<[patterns |-> patterns, body |-> body.body]>> \o rest.arms, st |-> rest.st]

LowerLet(cx, s, st) ==
    LET type == LowerTypeName(cx, s.type, st)
        value == IF s.value = NoExpr THEN SynthZero(type.t, type.st)
                                     ELSE LowerExpr(cx, s.value, type.t, type.st)
    IN [s |-> LetStatement(s.name, value.v), st |-> value.st,
        locals |-> With(cx.locals, s.name, type.t)]

LowerIndirectAssign(cx, s, st) ==
    LET target == LowerExpr(cx, s.target, NoType, st)
        value == LowerExpr(cx, s.value, target.v.type.pointee, target.st)
    IN IF ~IsPointer(target.v.type) THEN Throw(target.st)
       ELSE [v |-> IndirectAssignStatement(target.v, value.v), st |-> value.st]

LowerFieldAssign(cx, s, st) ==
    LET base == LowerExpr(cx, s.base, NoType, st)
        fields == IF IsPointer(base.v.type) THEN FieldOf(base.st, base.v.type.pointee, s.field) ELSE {}
        field == CHOOSE f \in fields : TRUE
        value == LowerExpr(cx, s.value, field.type, base.st)
    IN IF fields = {} THEN Throw(base.st)
       ELSE [v |-> IndirectAssignStatement(FieldPointer(base.v, field.type, field.offset), value.v),
             st |-> value.st]

LowerFor(cx, s, st) ==
    LET initializer == LowerStatement(cx, s.initializer, st)
        inner == [cx EXCEPT !.locals = initializer.locals]
        condition == LowerExpr(inner, s.condition, BoolType, initializer.st)
        increment == LowerStatement(inner, s.increment, condition.st)
        body == LowerBlock([inner EXCEPT !.locals = increment.locals], s.body, TRUE, increment.st)
    IN [v |-> ForStatement(initializer.s, condition.v, increment.s, body.body), st |-> body.st]

\* A statement that leaves a scope has the deferred calls in front of it.
LowerExit(cx, s, calls, st) ==
    LET cleanup == LowerCleanup(cx, calls, st)
    IN [v |-> s, st |-> [cleanup.st EXCEPT !.pre = @ \o cleanup.body]]

LowerStatement(cx, s, st) ==
    LET keep(r) == [s |-> r.v, st |-> r.st, locals |-> cx.locals]
        target == LowerName(cx, s.name, st)
        condition == LowerExpr(cx, s.condition, BoolType, st)
        then == LowerBlock(cx, s.then, FALSE, condition.st)
        else == LowerBlock(cx, s.else, FALSE, then.st)
        body == LowerBlock(cx, s.body, TRUE, condition.st)
        value == LowerExpr(cx, s.value,
                           CASE s.kind = "Assign" -> target.v.type
                             [] s.kind = "Return" -> cx.ret
                             [] OTHER -> NoType,
                           IF s.kind = "Assign" THEN target.st ELSE st)
        arms == LowerArms(cx, s.arms, value.v.type, value.st)
        made(ir, final) == keep([v |-> ir, st |-> final])
    IN CASE s.kind = "Let" -> LowerLet(cx, s, st)
         [] s.kind = "Assign" -> made(AssignStatement(target.v, value.v), value.st)
         [] s.kind = "IndirectAssign" -> keep(LowerIndirectAssign(cx, s, st))
         [] s.kind = "FieldAssign" -> keep(LowerFieldAssign(cx, s, st))
         [] s.kind = "If" -> made(IfStatement(condition.v, then.body, else.body), else.st)
         [] s.kind = "Match" -> made(MatchStatement(value.v, arms.arms), arms.st)
         [] s.kind = "While" -> made(WhileStatement(condition.v, body.body), body.st)
         [] s.kind = "For" -> keep(LowerFor(cx, s, st))
         [] s.kind = "Break" -> keep(LowerExit(cx, BreakStatement, LoopExitCalls(cx.defers), st))
         [] s.kind = "Continue" -> keep(LowerExit(cx, ContinueStatement, LoopExitCalls(cx.defers), st))
         [] s.kind = "Expr" -> made(ExprStatement(value.v), value.st)
         [] s.kind = "Return" ->
              keep(LowerExit(cx, ReturnStatement(value.v), ReturnCalls(cx.defers), value.st))

(***************************************************************************)
(* Functions and the module                                                *)
(***************************************************************************)
\* One function under its symbol, with the type variables bound.
LowerFunction(cx, decl, symbol, bindings, st) ==
    LET here == [cx EXCEPT !.path = decl.module, !.subst = bindings]
        ret == LowerTypeName(here, decl.ret, st)
        types == LowerTypeNames(here, [i \in DOMAIN decl.parameters |-> decl.parameters[i].type], ret.st)
        params == [i \in DOMAIN types.ts |-> [name |-> decl.parameters[i].name, type |-> types.ts[i]]]
        locals == [x \in {params[i].name : i \in DOMAIN params} |->
                     params[Largest({i \in DOMAIN params : params[i].name = x})].type]
        body == LowerBlock([here EXCEPT !.ret = ret.t, !.locals = locals], decl.body, FALSE, types.st)
    IN [f |-> IrFunction(symbol, params, ret.t, body.body, decl.extern), st |-> body.st]

\* Every function that is no template, then the queue of instances from its
\* end, which the instances themselves may extend.
RECURSIVE LowerFunctions(_, _, _)
LowerFunctions(cx, decls, st) ==
    LET decl == Head(decls)
        plain == LowerFunction(cx, decl, ItemPath(decl.module, decl.name), Unbound, st)
        pending == Last(st.queue)
        instance == LowerFunction(cx, pending.decl, pending.symbol, pending.bindings,
                                  [st EXCEPT !.queue = Front(@)])
        next == IF decls # << >> THEN plain ELSE instance
        rest == LowerFunctions(cx, IF decls = << >> THEN << >> ELSE Tail(decls), next.st)
    IN IF decls = << >> /\ st.queue = << >> THEN [fs |-> << >>, st |-> st]
       ELSE [fs |-> <<next.f>> \o rest.fs, st |-> rest.st]

\* build_function_table: the types of a template hold its type variables.
RECURSIVE FunctionTable(_, _, _)
FunctionTable(cx, decls, st) ==
    IF decls = << >> THEN [table |-> EmptyTable, st |-> st]
    ELSE LET d == Head(decls)
             here == [cx EXCEPT !.subst = [v \in Range(d.generics) |-> TypeVariable(v)]]
             ret == LowerTypeName(here, d.ret, st)
             types == LowerTypeNames(here, [i \in DOMAIN d.parameters |-> d.parameters[i].type], ret.st)
             rest == FunctionTable(cx, Tail(decls), types.st)
             path == ItemPath(d.module, d.name)
             info == [symbol |-> path, ret |-> ret.t, parameters |-> types.ts,
                      generics |-> d.generics, decl |-> d]
         IN [table |-> rest.table @@ (path :> info), st |-> rest.st]

StaticTable(cx, st) ==
    [p \in {cx.m.scalars[i].path : i \in DOMAIN cx.m.scalars}
           \cup {cx.m.buffers[i].path : i \in DOMAIN cx.m.buffers} |->
       IF \E i \in DOMAIN cx.m.scalars : cx.m.scalars[i].path = p
       THEN LowerTypeName(cx, cx.m.scalars[CHOOSE i \in DOMAIN cx.m.scalars :
                                             cx.m.scalars[i].path = p].type, st).t
       ELSE BufferType(LowerTypeName(cx, cx.m.buffers[CHOOSE i \in DOMAIN cx.m.buffers :
                                             cx.m.buffers[i].path = p].type, st).t)]

\* run: [ok, structs, functions, scalars, buffers].
LowerModule(m) ==
    LET empty == [m |-> m, subst |-> Unbound, path |-> << >>, locals |-> EmptyTable,
                  defers |-> << >>, ret |-> NoType, functions |-> EmptyTable,
                  globals |-> EmptyTable, modules |-> ModulePaths(m)]
        laid == EnumLayouts(empty, m.enums, StructLayouts(empty, m.structs, RegisterTypeTables(m)))
        statics == [empty EXCEPT !.globals = StaticTable(empty, laid)]
        functions == FunctionTable(statics, m.functions, laid)
        cx == [statics EXCEPT !.functions = functions.table]
        lowered == LowerFunctions(cx, SelectSeq(m.functions, LAMBDA f : f.generics = << >>),
                                  functions.st)
        typed(s) == LowerTypeName(empty, s.type, laid).t
    IN [ok |-> ~lowered.st.failed,
        structs |-> lowered.st.structs,
        functions |-> lowered.fs,
        scalars |-> [i \in DOMAIN m.scalars |-> [symbol |-> m.scalars[i].path, type |-> typed(m.scalars[i]),
                                                 init |-> m.scalars[i].init]],
        buffers |-> [i \in DOMAIN m.buffers |-> [symbol |-> m.buffers[i].path, element |-> typed(m.buffers[i]),
                                                 length |-> m.buffers[i].length, inits |-> m.buffers[i].inits]]]

=============================================================================
