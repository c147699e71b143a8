------------------------------ MODULE RexcSema ------------------------------
(***************************************************************************)
(* Semantic analysis (sema.cpp) of a whole module, without the tables of   *)
(* the standard library (StdlibSymbolPolicy::None): its functions are      *)
(* declared as extern functions where a program needs them.                *)
(*                                                                         *)
(* The Analyzer's members are the record st: its tables, and the kinds of  *)
(* the errors it reported.  What it sets for one function or one block and *)
(* resets behind it is the record cx: module path, type variables in       *)
(* scope, return type, the depths of unsafe blocks and of loops, locals.   *)
(* An expression is answered by [t, st], where t is Untyped when the code  *)
(* answers nullopt.                                                        *)
(***************************************************************************)
EXTENDS RexcAst, RexcTypes, SequencesExt

With(table, key, v) == (key :> v) @@ table

Untyped == [kind |-> "None"]
Typed(t) == t # Untyped

Report(st, error) == [st EXCEPT !.errors = @ \cup {error}]
ReportIf(condition, error, st) == IF condition THEN Report(st, error) ELSE st
\* Untyped types are reported where they arise.
Mismatch(expected, actual) == Typed(expected) /\ Typed(actual) /\ expected # actual

(***************************************************************************)
(* Types                                                                   *)
(***************************************************************************)
StructType(st, name) == UserStructType(name, 8 * st.structs[name].size)
EnumType(st, name) == UserEnumType(name, 8 * st.enums[name].layout.size)

IsTemplate(st, name) == name \in DOMAIN st.structs /\ st.structs[name].generics # << >>

EmptyStruct(generics, inst) ==
    [fields |-> << >>, size |-> 0, alignment |-> 1, generics |-> generics, inst |-> inst]

StructInfo(names, types, inst) ==
    LET layout == Layout([i \in DOMAIN types |-> TypeSize(types[i])],
                         [i \in DOMAIN types |-> TypeAlignment(types[i])])
    IN [EmptyStruct(<< >>, inst) EXCEPT
          !.fields = [i \in DOMAIN names |-> [name |-> names[i], type |-> types[i]]],
          !.size = layout.size, !.alignment = layout.alignment]

FieldNames(fields) == [i \in DOMAIN fields |-> fields[i].name]

RECURSIVE CheckTypeName(_, _, _)
RECURSIVE CheckTypeNames(_, _, _)
RECURSIVE ResolveSubstituted(_, _, _)
RECURSIVE ResolveAllSubstituted(_, _, _)
RECURSIVE InstantiateStruct(_, _, _, _)

\* An instance with an unbound type variable among its arguments keeps its
\* angle form; any other one is made into a struct of its own.
CheckTypeName(cx, n, st) ==
    LET inner == CheckTypeName(cx, n.of, st)
        elements == CheckTypeNames(cx, n.of, st)
        path == <<n.name>>
        unbound == \E i \in DOMAIN n.of : n.of[i].form = "name" /\ n.of[i].name \in cx.generics
        answer(t) == [t |-> t, st |-> st]
        unknown == [t |-> I32, st |-> Report(st, "unknown type")]
    IN CASE n.form = "type" -> answer(n.type)
         [] n.form = "pointer" -> [inner EXCEPT !.t = PointerTo(@)]
         [] n.form = "tuple" -> [t |-> TupleType(elements.ts), st |-> elements.st]
         [] n.form = "name" ->
              IF path \in DOMAIN st.structs THEN answer(StructType(st, path))
              ELSE IF path \in DOMAIN st.enums THEN answer(EnumType(st, path))
              ELSE IF n.name \in cx.generics THEN answer(TypeVariable(n.name))
              ELSE unknown
         [] n.form = "instance" ->
              IF ~IsTemplate(st, path) THEN unknown
              ELSE IF unbound THEN answer(AngleType(n.name, elements.ts))
              ELSE InstantiateStruct(cx, n.name, elements.ts, elements.st)

CheckTypeNames(cx, ns, st) ==
    IF ns = << >> THEN [ts |-> << >>, st |-> st]
    ELSE LET first == CheckTypeName(cx, Head(ns), st)
             rest == CheckTypeNames(cx, Tail(ns), first.st)
         IN [ts |-> <<first.t>> \o rest.ts, st |-> rest.st]

\* An empty struct stands in for the instance while its own fields are resolved.
InstantiateStruct(cx, base, args, st) ==
    LET tpl == st.structs[<<base>>]
        bindings == [v \in Range(tpl.generics) |->
                       args[CHOOSE i \in DOMAIN tpl.generics : tpl.generics[i] = v]]
        name == <<base>> \o MangleSuffix(tpl.generics, bindings)
        fields == ResolveAllSubstituted(cx,
                      [i \in DOMAIN tpl.fields |-> Substitute(tpl.fields[i].type, bindings)],
                      [st EXCEPT !.structs = With(@, name, EmptyStruct(<< >>, <<base, args>>))])
        made == [fields.st EXCEPT !.structs =
                   With(@, name, StructInfo(FieldNames(tpl.fields), fields.ts, <<base, args>>))]
        final == IF name \in DOMAIN st.structs THEN st ELSE made
    IN IF Len(args) # Len(tpl.generics) THEN [t |-> I32, st |-> Report(st, "type arguments")]
       ELSE [t |-> StructType(final, name), st |-> final]

\* A type in which variables have been substituted may name an instance that
\* has not been made yet.
ResolveSubstituted(cx, t, st) ==
    LET inner == ResolveSubstituted(cx, t.pointee, st)
        elements == ResolveAllSubstituted(cx, t.elements, st)
        unbound == \E i \in DOMAIN t.inst[2] : \E v \in cx.generics : t.inst[2][i] = TypeVariable(v)
    IN CASE IsStruct(t) ->
              IF t.inst = << >> THEN [t |-> t, st |-> st]
              ELSE IF unbound THEN [t |-> t, st |-> st]
              ELSE InstantiateStruct(cx, t.inst[1], t.inst[2], st)
         [] t.kind \in {"Pointer", "Result"} -> [t |-> [t EXCEPT !.pointee = inner.t], st |-> inner.st]
         [] IsTuple(t) -> [t |-> TupleType(elements.ts), st |-> elements.st]
         [] OTHER -> [t |-> t, st |-> st]

ResolveAllSubstituted(cx, ts, st) ==
    IF ts = << >> THEN [ts |-> << >>, st |-> st]
    ELSE LET first == ResolveSubstituted(cx, Head(ts), st)
             rest == ResolveAllSubstituted(cx, Tail(ts), first.st)
         IN [ts |-> <<first.t>> \o rest.ts, st |-> rest.st]

\* The struct whose fields are meant; for the angle form, its template's.
FindStruct(st, t) ==
    IF t.name \in DOMAIN st.structs THEN t.name
    ELSE IF t.inst # << >> THEN <<t.inst[1]>> ELSE << >>

FieldOf(st, name, field) == {f \in Range(st.structs[name].fields) : f.name = field}

\* The largest literal; a type of 32 bits and more has room for every literal of the models.
MaxMagnitude(t) ==
    IF t.bits >= 32 THEN 2147483647 ELSE IF IsSigned(t) THEN 2 ^ (t.bits - 1) - 1 ELSE 2 ^ t.bits - 1

LiteralFits(t, n, negative) ==
    IF IsUnsigned(t) THEN ~negative /\ n <= MaxMagnitude(t)
    ELSE IF negative THEN n - 1 <= MaxMagnitude(t) ELSE n <= MaxMagnitude(t)

CheckLiteral(t, n, negative, st) == ReportIf(~LiteralFits(t, n, negative), "literal does not fit", st)

IsCastAllowed(source, target) ==
    LET address(t) == IsPointer(t) \/ t = StrType
    IN \/ source = target /\ source # StrType
       \/ source = PointerTo(U8) /\ target = StrType
       \/ IsPointer(source) /\ IsPointer(target)
       \/ IsInteger(source) /\ (IsInteger(target) \/ address(target))
       \/ IsInteger(target) /\ (source = BoolType \/ address(source))

(***************************************************************************)
(* The tables of a module                                                  *)
(***************************************************************************)
OuterModules(path) == Prefixes(path) \ {<< >>}

\* Modules known by the items in them, private unless they are declared.
NoteModulePath(path, st) ==
    [st EXCEPT !.modules = [p \in DOMAIN @ \cup OuterModules(path) |->
        IF p \in DOMAIN @ THEN @[p] ELSE [public |-> FALSE, declared |-> FALSE]]]

DeclareModule(st, d) ==
    IF d.path \in DOMAIN st.modules /\ st.modules[d.path].declared
    THEN Report(st, "duplicate module")
    ELSE [NoteModulePath(d.path, st) EXCEPT !.modules[d.path] = [public |-> d.public, declared |-> TRUE]]

RegisterStruct(st, d) ==
    IF <<d.name>> \in DOMAIN st.structs THEN Report(st, "struct already declared")
    ELSE [st EXCEPT !.structs = With(@, <<d.name>>, EmptyStruct(d.generics, << >>))]

RegisterEnum(st, d) ==
    IF <<d.name>> \in DOMAIN st.structs \cup DOMAIN st.enums THEN Report(st, "type already declared")
    ELSE [st EXCEPT !.enums = With(@, <<d.name>>,
                                   [names |-> << >>, payloads |-> << >>, layout |-> LayoutEnum(<< >>)])]

NoScope == [path |-> << >>, generics |-> {}, ret |-> Untyped, enforce |-> FALSE,
            unsafe |-> 0, loops |-> 0, locals |-> << >>]

\* Fields take the sizes known so far; a template has none before it is instantiated.
CheckStruct(st, d) ==
    LET types == CheckTypeNames([NoScope EXCEPT !.generics = Range(d.generics)],
                                [i \in DOMAIN d.fields |-> d.fields[i].type], st)
        info == StructInfo(FieldNames(d.fields), types.ts, << >>)
        size == IF d.generics = << >> THEN info.size ELSE 0
    IN [types.st EXCEPT !.structs[<<d.name>>] = [info EXCEPT !.generics = d.generics, !.size = size]]

CheckVariant(st, enum, v) ==
    LET payloads == CheckTypeNames(NoScope, v.payloads, st)
    IN IF v.name \in Range(st.enums[enum].names) THEN Report(payloads.st, "variant already declared")
       ELSE [payloads.st EXCEPT !.enums[enum].names = Append(@, v.name),
                                !.enums[enum].payloads = Append(@, payloads.ts)]

CheckEnum(st, d) ==
    LET checked == FoldLeft(LAMBDA s, v : CheckVariant(s, <<d.name>>, v), st, d.variants)
    IN [checked EXCEPT !.enums[<<d.name>>].layout = LayoutEnum(checked.enums[<<d.name>>].payloads)]

\* A buffer of bytes is a string, any other the address of its first element.
CheckBuffer(st, d) ==
    LET element == CheckTypeName(NoScope, d.type, NoteModulePath(Front(d.path), st))
        t == element.t
        fits == ReportIf(/\ IsInteger(t)
                         /\ \E i \in DOMAIN d.inits :
                               ~LiteralFits(t, IF d.inits[i] < 0 THEN -d.inits[i] ELSE d.inits[i],
                                            d.inits[i] < 0),
                         "literal does not fit", element.st)
        typed == ReportIf(d.inits # << >> /\ ~IsInteger(t) /\ t # StrType, "array initializer type", fits)
        counted == ReportIf(Len(d.inits) > d.length, "too many initializers", typed)
        sized == ReportIf(d.length = 0, "buffer length", counted)
        done == ReportIf(~d.mutable /\ d.inits = << >>, "buffer must be mutable", sized)
    IN IF d.path \in DOMAIN st.globals THEN Report(st, "duplicate static")
       ELSE [done EXCEPT !.globals = With(@, d.path,
               [type |-> IF t = U8 THEN StrType ELSE PointerTo(t), mutable |-> d.mutable,
                module |-> Front(d.path), public |-> d.public])]

CheckScalar(st, d) ==
    LET type == CheckTypeName(NoScope, d.type, NoteModulePath(Front(d.path), st))
        required == ReportIf(type.t # I32, "static must be i32", type.st)
        mutable == ReportIf(~d.mutable, "static must be mutable", required)
        fits == ReportIf(IF IsInteger(type.t) THEN ~LiteralFits(type.t, d.init, FALSE) ELSE TRUE,
                         "literal does not fit", mutable)
    IN IF d.path \in DOMAIN st.globals THEN Report(st, "duplicate static")
       ELSE [fits EXCEPT !.globals = With(@, d.path,
               [type |-> type.t, mutable |-> d.mutable, module |-> Front(d.path), public |-> d.public])]

ItemPath(module, name) == Append(module, name)

DeclareFunction(st, d) ==
    LET path == ItemPath(d.module, d.name)
        here == [NoScope EXCEPT !.generics = Range(d.generics)]
        ret == CheckTypeName(here, d.ret, NoteModulePath(d.module, st))
        types == CheckTypeNames(here, [i \in DOMAIN d.parameters |-> d.parameters[i].type], ret.st)
    IN IF path \in DOMAIN st.functions \cup DOMAIN st.globals THEN Report(st, "duplicate function")
       ELSE [types.st EXCEPT !.functions = With(@, path,
               [ret |-> ret.t, parameters |-> types.ts, module |-> d.module, generics |-> d.generics,
                public |-> d.public, extern |-> d.extern])]

(***************************************************************************)
(* Visibility and names                                                    *)
(***************************************************************************)
\* A private module is for its parent and for itself and what it contains.
CanAccessSegment(private, requester) == requester = Front(private) \/ IsPrefix(private, requester)

IsModuleAccessible(st, path, requester) ==
    \A p \in OuterModules(path) \cap DOMAIN st.modules :
        st.modules[p].public \/ CanAccessSegment(p, requester)

IsItemVisible(info, requester) == info.public \/ IsPrefix(info.module, requester)

\* Mutant: the modules around the item are not looked at.
IsItemVisibleOnly(st, info, requester) == IsItemVisible(info, requester)

IsItemAccessible(st, info, requester) ==
    IsModuleAccessible(st, info.module, requester) /\ IsItemVisible(info, requester)

\* The item a use names: a function before a static before a module.  One that
\* may not be used holds its name all the same.
Import(st, u) ==
    LET alias == Last(u.import)
        scope == IF u.module \in DOMAIN st.imports THEN st.imports[u.module] ELSE << >>
        kind == IF u.import \in DOMAIN st.functions THEN "Function"
                ELSE IF u.import \in DOMAIN st.globals THEN "Global"
                ELSE IF u.import \in DOMAIN st.modules THEN "Module" ELSE "None"
        accessible == CASE kind = "Function" -> IsItemAccessible(st, st.functions[u.import], u.module)
                        [] kind = "Global" -> IsItemAccessible(st, st.globals[u.import], u.module)
                        [] OTHER -> IsModuleAccessible(st, u.import, u.module)
        made(k) == [st EXCEPT !.imports = With(@, u.module, With(scope, alias, [kind |-> k, path |-> u.import]))]
    IN IF alias \in DOMAIN scope THEN Report(st, "duplicate import")
       ELSE IF kind = "None" THEN Report(st, "unknown import")
       ELSE IF ~accessible THEN Report(made("Invalid"), "private item")
       ELSE made(kind)

FindImport(cx, st, alias) ==
    LET none == [kind |-> "None", path |-> << >>]
    IN IF cx.path \notin DOMAIN st.imports THEN none
       ELSE IF alias \in DOMAIN st.imports[cx.path] THEN st.imports[cx.path][alias] ELSE none

\* The first of the paths the table has: [path, st], and << >> when it has none.
FirstAccessible(cx, paths, table, st) ==
    LET hits == SelectSeq(paths, LAMBDA p : p \in DOMAIN table)
    IN IF hits = << >> THEN [path |-> << >>, st |-> st]
       ELSE [path |-> hits[1],
             st |-> ReportIf(~IsItemAccessible(st, table[hits[1]], cx.path), "private item", st)]

\* Relative to the module first, then from the root; what was imported under
\* its own name was checked by its use.
ResolveFunction(cx, path, st) ==
    LET import == FindImport(cx, st, path[1])
        near == <<cx.path \o path, path>>
    IN IF Len(path) = 1 /\ import.kind = "Function" THEN [path |-> import.path, st |-> st]
       ELSE IF Len(path) > 1 /\ import.kind = "Module"
       THEN FirstAccessible(cx, <<import.path \o Tail(path)>> \o near, st.functions, st)
       ELSE FirstAccessible(cx, near, st.functions, st)

ResolveGlobal(cx, name, st) ==
    LET import == FindImport(cx, st, name)
    IN IF import.kind = "Global" THEN [path |-> import.path, st |-> st]
       ELSE FirstAccessible(cx, <<ItemPath(cx.path, name), <<name>> >>, st.globals, st)

\* The variant a path names, as [hit, st, reported]; hit is << >> or <<enum, index>>.
ResolveVariant(path, expected, st) ==
    LET has(enum) == {<<enum, i>> : i \in {j \in DOMAIN st.enums[enum].names : st.enums[enum].names[j] = Last(path)}}
        all == UNION {has(enum) : enum \in DOMAIN st.enums}
        pick(S) == [hit |-> CHOOSE h \in S : TRUE, st |-> st, reported |-> FALSE]
        none == [hit |-> << >>, st |-> st, reported |-> FALSE]
        fail(error) == [hit |-> << >>, st |-> Report(st, error), reported |-> TRUE]
        of(enum) == IF has(enum) = {} THEN fail("unknown variant") ELSE pick(has(enum))
    IN IF Len(path) = 2 THEN (IF <<path[1]>> \in DOMAIN st.enums THEN of(<<path[1]>>) ELSE none)
       ELSE IF Len(path) # 1 THEN none
       ELSE IF IsEnum(expected) THEN of(expected.name)
       ELSE IF all = {} THEN none
       ELSE IF \E h \in all : all = {h} THEN pick(all) ELSE fail("ambiguous variant")

(***************************************************************************)
(* Expressions                                                             *)
(***************************************************************************)
ComparisonOps == {"==", "!=", "<", "<=", ">", ">="}
LogicalOps == {"&&", "||"}
IncrementOps == {"pre++", "post++", "pre--", "post--"}

RECURSIVE CheckExpr(_, _, _, _)
RECURSIVE CheckAll(_, _, _, _)

\* Each of the list against the type expected of it, Untyped where none is: [ts, st].
CheckAll(cx, es, expected, st) ==
    IF es = << >> THEN [ts |-> << >>, st |-> st]
    ELSE LET want == IF expected = << >> THEN Untyped ELSE Head(expected)
             first == CheckExpr(cx, Head(es), want, st)
             rest == CheckAll(cx, Tail(es), IF expected = << >> THEN << >> ELSE Tail(expected),
                              ReportIf(Mismatch(want, first.t), "type mismatch", first.st))
         IN [ts |-> <<first.t>> \o rest.ts, st |-> rest.st]

\* A value for a place of this type, in a statement, a literal or a call.
CheckValue(cx, e, type, st) == CheckAll(cx, <<e>>, <<type>>, st).st

\* A name that is read must have been assigned on every way here.
CheckName(cx, x, st) ==
    LET global == ResolveGlobal(cx, x, st)
    IN IF x \in DOMAIN cx.locals
       THEN [t |-> cx.locals[x].type,
             st |-> ReportIf(cx.locals[x].uninit, "possibly uninitialized", st)]
       ELSE IF global.path # << >> THEN [t |-> st.globals[global.path].type, st |-> global.st]
       ELSE [t |-> Untyped, st |-> Report(st, "unknown name")]

CheckLogical(cx, e, st) ==
    LET sides == CheckAll(cx, <<e.lhs, e.rhs>>, <<BoolType, BoolType>>, st)
    IN [t |-> BoolType, st |-> sides.st]

CheckBinary(cx, e, expected, st) ==
    LET lhs == CheckExpr(cx, e.lhs, expected, st)
        rhs == CheckExpr(cx, e.rhs, IF Typed(lhs.t) THEN lhs.t ELSE expected, lhs.st)
        integers == IsInteger(lhs.t) /\ IsInteger(rhs.t)
        pointer == (IsPointer(lhs.t) \/ lhs.t = StrType) /\ e.op \in {"+", "-"}
        answer(t, wrong) == [t |-> t, st |-> ReportIf(wrong, "operands", rhs.st)]
    IN IF ~Typed(lhs.t) \/ ~Typed(rhs.t)
       THEN [t |-> IF Typed(lhs.t) THEN lhs.t ELSE rhs.t, st |-> rhs.st]
       ELSE IF e.op \in ComparisonOps THEN answer(BoolType, ~integers \/ lhs.t # rhs.t)
       ELSE IF pointer
       THEN answer(IF lhs.t = StrType THEN PointerTo(U8) ELSE lhs.t, ~IsInteger(rhs.t))
       ELSE answer(lhs.t, ~integers \/ lhs.t # rhs.t)

CheckCast(cx, e, st) ==
    LET value == CheckExpr(cx, e.value, Untyped, st)
        target == CheckTypeName(cx, e.target, value.st)
    IN [t |-> target.t,
        st |-> ReportIf(Typed(value.t) /\ ~IsCastAllowed(value.t, target.t), "cast", target.st)]

CheckNegation(cx, e, expected, st) ==
    LET wrong == Typed(expected) /\ ~IsSigned(expected)
        want == IF wrong THEN Untyped ELSE expected
        reported == ReportIf(wrong, "unary operand", st)
        operand == CheckExpr(cx, e.operand, want, reported)
    IN IF e.operand.kind = "Integer" /\ Typed(want)
       THEN [t |-> want, st |-> CheckLiteral(want, e.operand.value, TRUE, reported)]
       ELSE [t |-> operand.t,
             st |-> ReportIf(Typed(operand.t) /\ ~IsSigned(operand.t), "unary operand", operand.st)]

\* ++ and -- read and write a mutable integer; the name is a local's or a static's.
CheckIncrement(cx, e, st) ==
    LET x == e.operand.name
        local == cx.locals[x]
        global == ResolveGlobal(cx, x, st)
        info == st.globals[global.path]
        checked(v, s) == ReportIf(~v.mutable, "immutable",
                         ReportIf(~IsInteger(v.type), "increment operand", s))
    IN IF e.operand.kind # "Name"
       THEN [t |-> Untyped, st |-> Report(CheckExpr(cx, e.operand, Untyped, st).st, "increment operand")]
       ELSE IF x \in DOMAIN cx.locals
       THEN [t |-> local.type,
             st |-> ReportIf(local.uninit, "possibly uninitialized", checked(local, st))]
       ELSE IF global.path = << >> THEN [t |-> Untyped, st |-> Report(st, "unknown name")]
       ELSE [t |-> info.type, st |-> checked(info, global.st)]

\* The address of a local is taken without reading it.
CheckAddressOf(cx, e, st) ==
    IF e.operand.kind # "Name"
    THEN [t |-> Untyped, st |-> Report(CheckExpr(cx, e.operand, Untyped, st).st, "address-of operand")]
    ELSE IF e.operand.name \notin DOMAIN cx.locals
    THEN [t |-> Untyped, st |-> Report(st, "unknown name")]
    ELSE [t |-> PointerTo(cx.locals[e.operand.name].type),
          st |-> ReportIf(~cx.locals[e.operand.name].mutable, "immutable", st)]

\* Mutant: any block counts as an unsafe one.
NeedsUnsafeUnnested(cx) == cx.enforce /\ cx.unsafe + cx.loops = 0

NeedsUnsafe(cx) == cx.enforce /\ cx.unsafe = 0

CheckDeref(cx, e, st) ==
    LET operand == CheckExpr(cx, e.operand, Untyped, st)
    IN IF ~Typed(operand.t) THEN operand
       ELSE IF ~IsPointer(operand.t) THEN [operand EXCEPT !.st = Report(@, "dereference operand")]
       ELSE [t |-> operand.t.pointee, st |-> ReportIf(NeedsUnsafe(cx), "requires unsafe", operand.st)]

CheckUnary(cx, e, expected, st) ==
    CASE e.op = "!" -> [t |-> BoolType, st |-> CheckValue(cx, e.operand, BoolType, st)]
      [] e.op \in IncrementOps -> CheckIncrement(cx, e, st)
      [] e.op = "&" -> CheckAddressOf(cx, e, st)
      [] e.op = "*" -> CheckDeref(cx, e, st)
      [] e.op = "-" -> CheckNegation(cx, e, expected, st)

CheckArity(e, n, st) == ReportIf(Len(e.arguments) # n, "argument count", st)

\* The arguments' own types, then the bindings from the type expected of the
\* call and from them; every variable must be bound.
CheckGenericCall(cx, f, e, expected, st) ==
    LET generics == Range(f.generics)
        args == CheckAll(cx, e.arguments, << >>, st)
        typed == Len(args.ts) = Len(f.parameters) /\ \A i \in DOMAIN args.ts : Typed(args.ts[i])
        primed == IF Typed(expected)
                  THEN Unify(args.st.structs, f.ret, expected, generics, Unbound).bindings ELSE Unbound
        found == UnifyAll(args.st.structs, f.parameters, args.ts, generics, primed)
    IN IF ~typed THEN [t |-> Untyped, st |-> args.st]
       ELSE IF ~found.ok \/ ~(generics \subseteq DOMAIN found.bindings)
       THEN [t |-> Untyped, st |-> Report(args.st, "cannot infer")]
       ELSE ResolveSubstituted(cx, Substitute(f.ret, found.bindings), args.st)

\* Ok, Err of the Result that is expected; its error type is i32.
IsBuiltinResult(path, expected) ==
    /\ expected.kind = "Result"
    /\ Len(path) = 1 \/ (Len(path) = 2 /\ path[1] = "Result")
    /\ Last(path) \in {"Ok", "Err"}

CheckLen(cx, e, st) ==
    LET args == CheckAll(cx, e.arguments, << >>, st)
        wrong == IF Len(args.ts) # 1 THEN TRUE ELSE Typed(args.ts[1]) /\ args.ts[1] # StrType
    IN [t |-> I32, st |-> ReportIf(wrong, "len argument", args.st)]

\* A function, a built-in constructor, a variant; nothing else may be called.
CheckCall(cx, e, expected, st) ==
    LET found == ResolveFunction(cx, e.callee, st)
        f == st.functions[found.path]
        guarded == CheckArity(e, Len(f.parameters),
                       ReportIf(f.extern /\ NeedsUnsafe(cx), "requires unsafe", found.st))
        typesFor(types) == [i \in DOMAIN e.arguments |-> IF i \in DOMAIN types THEN types[i] ELSE Untyped]
        given(types, s) == CheckAll(cx, e.arguments, typesFor(types), s).st
        payload == IF Last(e.callee) = "Ok" THEN expected.pointee ELSE I32
        variant == ResolveVariant(e.callee, expected, st)
        payloads == st.enums[variant.hit[1]].payloads[variant.hit[2]]
        hidden == variant.reported \/ FindImport(cx, st, e.callee[1]).kind = "Invalid"
    IN IF e.callee = <<"len">> THEN CheckLen(cx, e, st)
       ELSE IF found.path # << >>
       THEN IF f.generics # << >> THEN CheckGenericCall(cx, f, e, expected, guarded)
            ELSE [t |-> f.ret, st |-> given(f.parameters, guarded)]
       ELSE IF IsBuiltinResult(e.callee, expected)
       THEN [t |-> expected, st |-> given(<<payload>>, CheckArity(e, 1, st))]
       ELSE IF variant.hit # << >>
       THEN [t |-> EnumType(st, variant.hit[1]), st |-> given(payloads, CheckArity(e, Len(payloads), st))]
       ELSE [t |-> I32, st |-> given(<< >>, ReportIf(~hidden, "unknown function", variant.st))]

RECURSIVE CheckFieldInits(_, _, _, _)
CheckFieldInits(cx, name, inits, st) ==
    IF inits = << >> THEN st
    ELSE LET init == Head(inits)
             field == FieldOf(st, name, init.name)
             want == IF field = {} THEN Untyped ELSE (CHOOSE f \in field : TRUE).type
             once == ReportIf(\E i \in DOMAIN Tail(inits) : Tail(inits)[i].name = init.name,
                              "duplicate field", ReportIf(field = {}, "no such field", st))
         IN CheckFieldInits(cx, name, Tail(inits), CheckValue(cx, init.value, want, once))

\* The bare name of a template takes the instance that is expected.  Every
\* field is given once, each against the type its struct declares; under the
\* angle form that is the template's own, with the template's variables.
CheckStructLiteral(cx, e, expected, st) ==
    LET named == CheckTypeName(cx, e.type, st)
        base == named.t.name
        made == named.st.structs
        adopts == IF ~(IsStruct(named.t) /\ IsStruct(expected)) THEN FALSE
                  ELSE IF ~IsTemplate(named.st, base) THEN FALSE
                  ELSE IF expected.name \in DOMAIN made
                  THEN made[expected.name].inst # << >> /\ <<made[expected.name].inst[1]>> = base
                  ELSE expected.inst # << >> /\ <<expected.inst[1]>> = base
        type == IF adopts THEN expected ELSE named.t
        name == FindStruct(named.st, type)
        inits == CheckFieldInits(cx, name, e.fields, named.st)
        declared == Range(FieldNames(made[name].fields))
        complete == ReportIf(~(declared \subseteq Range(FieldNames(e.fields))), "missing field", inits)
        values == [i \in DOMAIN e.fields |-> e.fields[i].value]
    IN IF ~IsStruct(type) THEN [t |-> type, st |-> CheckAll(cx, values, << >>, named.st).st]
       ELSE IF name = << >>
       THEN [t |-> type, st |-> Report(CheckAll(cx, values, << >>, named.st).st, "struct not in scope")]
       ELSE [t |-> type, st |-> ReportIf(Mismatch(expected, type), "type mismatch", complete)]

CheckTuple(cx, e, expected, st) ==
    LET wanted == IF IsTuple(expected) THEN expected.elements ELSE << >>
        args == CheckAll(cx, e.elements,
                    [i \in DOMAIN e.elements |-> IF i \in DOMAIN wanted THEN wanted[i] ELSE Untyped], st)
    IN [t |-> TupleType([i \in DOMAIN args.ts |-> IF Typed(args.ts[i]) THEN args.ts[i] ELSE I32]),
        st |-> ReportIf(wanted # << >> /\ Len(wanted) # Len(e.elements), "tuple length", args.st)]

CheckFieldAccess(cx, e, st) ==
    LET base == CheckExpr(cx, e.base, Untyped, st)
        name == FindStruct(base.st, base.t)
        fields == IF name = << >> THEN {} ELSE FieldOf(base.st, name, e.field)
        fail(error) == [t |-> Untyped, st |-> Report(base.st, error)]
    IN IF ~Typed(base.t) THEN base
       ELSE IF IsTuple(base.t)
       THEN IF e.index \notin DOMAIN base.t.elements THEN fail("no such field")
            ELSE [base EXCEPT !.t = base.t.elements[e.index]]
       ELSE IF ~IsStruct(base.t) THEN fail("field of no struct")
       ELSE IF fields = {} THEN fail("no such field")
       ELSE [base EXCEPT !.t = (CHOOSE f \in fields : TRUE).type]

CheckIndex(cx, e, st) ==
    LET base == CheckExpr(cx, e.base, Untyped, st)
        index == CheckExpr(cx, e.index, I32, base.st)
        checked == ReportIf(Typed(index.t) /\ ~IsInteger(index.t), "index", index.st)
    IN IF ~Typed(base.t) THEN [t |-> Untyped, st |-> checked]
       ELSE IF base.t = StrType THEN [t |-> U8, st |-> checked]
       ELSE IF IsPointer(base.t) THEN [t |-> base.t.pointee, st |-> checked]
       ELSE [t |-> Untyped, st |-> Report(checked, "index base")]

\* `?` on a Result, in a function that answers one.
CheckTry(cx, e, st) ==
    LET operand == CheckExpr(cx, e.operand, Untyped, st)
    IN IF ~Typed(operand.t) THEN operand
       ELSE IF operand.t.kind # "Result" \/ cx.ret.kind # "Result"
       THEN [t |-> Untyped, st |-> Report(operand.st, "try")]
       ELSE [operand EXCEPT !.t = operand.t.pointee]

CheckExpr(cx, e, expected, st) ==
    LET answer(t) == [t |-> t, st |-> st]
        literal == IF IsInteger(expected) THEN expected ELSE I32
    IN CASE e.kind = "Integer" -> [t |-> literal, st |-> CheckLiteral(literal, e.value, FALSE, st)]
         [] e.kind = "Bool" -> answer(BoolType)
         [] e.kind = "String" -> answer(StrType)
         [] e.kind = "Name" -> CheckName(cx, e.name, st)
         [] e.kind = "Binary" -> IF e.op \in LogicalOps THEN CheckLogical(cx, e, st)
                                                        ELSE CheckBinary(cx, e, expected, st)
         [] e.kind = "Cast" -> CheckCast(cx, e, st)
         [] e.kind = "Unary" -> CheckUnary(cx, e, expected, st)
         [] e.kind = "Call" -> CheckCall(cx, e, expected, st)
         [] e.kind = "StructLiteral" -> CheckStructLiteral(cx, e, expected, st)
         [] e.kind = "Tuple" -> CheckTuple(cx, e, expected, st)
         [] e.kind = "FieldAccess" -> CheckFieldAccess(cx, e, st)
         [] e.kind = "Index" -> CheckIndex(cx, e, st)
         [] e.kind = "Try" -> CheckTry(cx, e, st)

(***************************************************************************)
(* Statements: [locals, st]                                                *)
(***************************************************************************)
Local(type, mutable, uninit) == [type |-> type, mutable |-> mutable, uninit |-> uninit]

RECURSIVE StatementDiverges(_)
BodyDiverges(body) == IF body = << >> THEN FALSE ELSE StatementDiverges(Last(body))

\* What no path leaves at its end.  A match without a default counts, when all
\* its arms do.
StatementDiverges(s) ==
    LET diverges(body) == IF body = << >> THEN FALSE ELSE StatementDiverges(Last(body))
    IN CASE s.kind \in {"Return", "Break", "Continue"} -> TRUE
         [] s.kind = "If" -> diverges(s.then) /\ diverges(s.else)
         [] s.kind = "Match" -> s.arms # << >> /\ \A i \in DOMAIN s.arms : diverges(s.arms[i].body)
         [] s.kind = "UnsafeBlock" -> diverges(s.body)
         [] OTHER -> FALSE

\* A local is possibly uninitialized behind branches when it is at the end of one.
MergeUninit(locals, branches) ==
    IF branches = << >> THEN locals
    ELSE [x \in DOMAIN locals |->
            [locals[x] EXCEPT !.uninit = \E i \in DOMAIN branches : branches[i][x].uninit]]

\* [locals, st, covered]: the names a pattern binds, and the variant it covers.
BindAll(locals, names, types, st) ==
    FoldLeft(LAMBDA r, i :
               IF names[i] = "_" THEN r
               ELSE IF names[i] \in DOMAIN r.locals THEN [r EXCEPT !.st = Report(@, "duplicate local")]
               ELSE [r EXCEPT !.locals = With(@, names[i], Local(types[i], FALSE, FALSE))],
             [locals |-> locals, st |-> st, covered |-> {}], [i \in DOMAIN names |-> i])

CheckPattern(cx, p, type, st) ==
    LET fail(s, error) == [locals |-> cx.locals, st |-> Report(s, error), covered |-> {}]
        quiet(s) == [locals |-> cx.locals, st |-> s, covered |-> {}]
        v == ResolveVariant(p.path, type, st)
        payloads == st.enums[v.hit[1]].payloads[v.hit[2]]
        fields == st.structs[type.name].fields
    IN CASE p.kind = "Integer" ->
              IF ~IsInteger(type) THEN fail(st, "pattern type")
              ELSE quiet(CheckLiteral(type, IF p.value < 0 THEN -p.value ELSE p.value, p.value < 0, st))
         [] p.kind = "Bool" -> quiet(ReportIf(type # BoolType, "pattern type", st))
         [] p.kind = "Variant" ->
              IF ~IsEnum(type) THEN fail(st, "pattern type")
              ELSE IF v.hit = << >> THEN quiet(v.st)
              ELSE IF v.hit[1] # type.name THEN fail(v.st, "pattern type")
              ELSE IF Len(payloads) # Len(p.bindings) THEN fail(v.st, "pattern bindings")
              ELSE [BindAll(cx.locals, p.bindings, payloads, v.st) EXCEPT !.covered = {v.hit[2]}]
         [] p.kind = "Struct" ->
              IF ~IsStruct(type) THEN fail(st, "pattern type")
              ELSE IF type.name # p.path THEN fail(st, "pattern type")
              ELSE IF Len(fields) # Len(p.bindings) THEN fail(st, "pattern bindings")
              ELSE BindAll(cx.locals, p.bindings, [i \in DOMAIN fields |-> fields[i].type], st)

\* The patterns of one arm, behind those of the arms before: [locals, st, covered, default].
CheckPatterns(cx, patterns, type, covered, default, st) ==
    LET alone == Len(patterns) = 1
        next(r, p) ==
            LET late == ReportIf(r.default, "default arm must be last", r.st)
                checked == CheckPattern([cx EXCEPT !.locals = r.locals], p, type,
                               ReportIf(p.bindings # << >> /\ ~alone, "binding must be alone", late))
            IN IF p.kind = "Default"
               THEN [r EXCEPT !.default = TRUE, !.st = ReportIf(~alone, "default must be alone", late)]
               ELSE IF ~Typed(type) THEN [r EXCEPT !.st = late]
               ELSE [r EXCEPT !.locals = checked.locals, !.st = checked.st,
                              !.covered = @ \cup checked.covered]
    IN FoldLeft(next, [locals |-> cx.locals, st |-> st, covered |-> covered, default |-> default], patterns)

RECURSIVE AnalyzeStatement(_, _, _)
RECURSIVE AnalyzeBody(_, _, _)
RECURSIVE AnalyzeArms(_, _, _, _)

\* A statement sees the locals the ones before it left: [locals, st].  Behind an
\* error the code goes on, only to report more of them.
AnalyzeBody(cx, body, st) ==
    IF st.errors # {} \/ body = << >> THEN [locals |-> cx.locals, st |-> st]
    ELSE LET first == AnalyzeStatement(cx, Head(body), st)
         IN AnalyzeBody([cx EXCEPT !.locals = first.locals], Tail(body), first.st)

AnalyzeLet(cx, s, st) ==
    LET type == CheckTypeName(cx, s.type, st)
        duplicate == s.name \in DOMAIN cx.locals
        fresh == ReportIf(duplicate, "duplicate local", type.st)
        uninit == s.value = NoExpr
        checked == IF uninit THEN ReportIf(~s.mutable, "uninitialized must be mutable", fresh)
                             ELSE CheckValue(cx, s.value, type.t, fresh)
    IN [locals |-> IF duplicate THEN cx.locals
                   ELSE With(cx.locals, s.name, Local(type.t, s.mutable, uninit)),
        st |-> checked]

\* An assignment makes a local assigned from here on.
AnalyzeAssign(cx, s, st) ==
    LET local == cx.locals[s.name]
        global == ResolveGlobal(cx, s.name, st)
        info == st.globals[global.path]
    IN IF s.name \in DOMAIN cx.locals
       THEN [locals |-> [cx.locals EXCEPT ![s.name].uninit = FALSE],
             st |-> CheckValue(cx, s.value, local.type, ReportIf(~local.mutable, "immutable", st))]
       ELSE IF global.path = << >>
       THEN [locals |-> cx.locals, st |-> CheckExpr(cx, s.value, Untyped, Report(st, "unknown name")).st]
       ELSE [locals |-> cx.locals,
             st |-> CheckValue(cx, s.value, info.type, ReportIf(~info.mutable, "immutable", global.st))]

\* *p = v
AnalyzeIndirectAssign(cx, s, st) ==
    LET target == CheckExpr(cx, s.target, Untyped, st)
        loose(q) == CheckExpr(cx, s.value, Untyped, q).st
    IN [locals |-> cx.locals,
        st |-> IF ~Typed(target.t) THEN loose(target.st)
               ELSE IF ~IsPointer(target.t) THEN loose(Report(target.st, "assignment target"))
               ELSE CheckValue(cx, s.value, target.t.pointee,
                               ReportIf(NeedsUnsafe(cx), "requires unsafe", target.st))]

\* (*p).f = v
AnalyzeFieldAssign(cx, s, st) ==
    LET base == CheckExpr(cx, s.base, Untyped, ReportIf(NeedsUnsafe(cx), "requires unsafe", st))
        aimed == IsPointer(base.t) /\ IsStruct(base.t.pointee)
        name == FindStruct(base.st, base.t.pointee)
        fields == IF ~aimed THEN {} ELSE IF name = << >> THEN {} ELSE FieldOf(base.st, name, s.field)
    IN [locals |-> cx.locals,
        st |-> IF fields = {}
               THEN CheckExpr(cx, s.value, Untyped, ReportIf(Typed(base.t), "assignment target", base.st)).st
               ELSE CheckValue(cx, s.value, (CHOOSE f \in fields : TRUE).type, base.st)]

\* Branches that end here go on behind the `if`; a missing else is a branch.
AnalyzeIf(cx, s, st) ==
    LET condition == CheckValue(cx, s.condition, BoolType, st)
        then == AnalyzeBody(cx, s.then, condition)
        else == AnalyzeBody(cx, s.else, then.st)
        open(body, r) == IF BodyDiverges(body) THEN << >> ELSE <<r.locals>>
    IN [locals |-> MergeUninit(cx.locals, open(s.then, then) \o open(s.else, else)), st |-> else.st]

\* [st, covered, default, branches] over the arms in order.
AnalyzeArms(cx, arms, type, seen) ==
    IF arms = << >> THEN seen
    ELSE LET arm == Head(arms)
             patterns == CheckPatterns(cx, arm.patterns, type, seen.covered, seen.default, seen.st)
             body == AnalyzeBody([cx EXCEPT !.locals = patterns.locals], arm.body, patterns.st)
         IN AnalyzeArms(cx, Tail(arms), type,
                [st |-> body.st, covered |-> patterns.covered, default |-> patterns.default,
                 branches |-> IF BodyDiverges(arm.body) THEN seen.branches
                                                        ELSE Append(seen.branches, body.locals)])

\* Mutant: one of the arms always runs.
AnalyzeMatchTotal(cx, s, st) ==
    LET value == CheckExpr(cx, s.value, Untyped, st)
        arms == AnalyzeArms(cx, s.arms, value.t,
                    [st |-> value.st, covered |-> {}, default |-> FALSE, branches |-> << >>])
    IN [locals |-> MergeUninit(cx.locals, arms.branches), st |-> arms.st]

\* A match on an enum is exhaustive; any other one without a default may run no
\* arm, and what held before it then holds behind it.
AnalyzeMatch(cx, s, st) ==
    LET value == CheckExpr(cx, s.value, Untyped, st)
        arms == AnalyzeArms(cx, s.arms, value.t,
                    [st |-> value.st, covered |-> {}, default |-> FALSE, branches |-> << >>])
        variants == IF IsEnum(value.t) THEN DOMAIN st.enums[value.t.name].names ELSE {}
        exhaustive == arms.default \/ (IsEnum(value.t) /\ arms.covered = variants)
    IN [locals |-> MergeUninit(cx.locals, IF exhaustive THEN arms.branches
                                                        ELSE Append(arms.branches, cx.locals)),
        st |-> ReportIf(~arms.default /\ ~(variants \subseteq arms.covered), "non-exhaustive", arms.st)]

\* What a body assigns may not be assigned behind it: it may run no turn.
AnalyzeWhile(cx, s, st) ==
    LET condition == CheckValue(cx, s.condition, BoolType, st)
        body == AnalyzeBody([cx EXCEPT !.loops = @ + 1], s.body, condition)
    IN [locals |-> cx.locals, st |-> body.st]

AnalyzeFor(cx, s, st) ==
    LET initializer == AnalyzeStatement(cx, s.initializer, st)
        inner == [cx EXCEPT !.locals = initializer.locals]
        condition == CheckValue(inner, s.condition, BoolType, initializer.st)
        body == AnalyzeBody([inner EXCEPT !.loops = @ + 1], s.body, condition)
        increment == AnalyzeStatement(inner, s.increment, body.st)
    IN [locals |-> cx.locals, st |-> increment.st]

AnalyzeStatement(cx, s, st) ==
    LET keep(final) == [locals |-> cx.locals, st |-> final]
        alone(e) == keep(CheckExpr(cx, e, Untyped, st).st)
    IN CASE s.kind = "Let" -> AnalyzeLet(cx, s, st)
         [] s.kind = "Assign" -> AnalyzeAssign(cx, s, st)
         [] s.kind = "IndirectAssign" -> AnalyzeIndirectAssign(cx, s, st)
         [] s.kind = "FieldAssign" -> AnalyzeFieldAssign(cx, s, st)
         [] s.kind = "If" -> AnalyzeIf(cx, s, st)
         [] s.kind = "Match" -> AnalyzeMatch(cx, s, st)
         [] s.kind = "While" -> AnalyzeWhile(cx, s, st)
         [] s.kind = "For" -> AnalyzeFor(cx, s, st)
         [] s.kind \in {"Break", "Continue"} -> keep(ReportIf(cx.loops = 0, "outside loop", st))
         [] s.kind = "UnsafeBlock" -> AnalyzeBody([cx EXCEPT !.unsafe = @ + 1], s.body, st)
         [] s.kind = "Defer" -> alone(s.call)
         [] s.kind = "Expr" -> alone(s.value)
         [] s.kind = "Return" -> keep(CheckValue(cx, s.value, cx.ret, st))

(***************************************************************************)
(* Functions and the module                                                *)
(***************************************************************************)
AnalyzeFunction(st, f, enforce) ==
    LET here == [NoScope EXCEPT !.path = f.module, !.generics = Range(f.generics), !.enforce = enforce,
                                !.unsafe = IF f.unsafe THEN 1 ELSE 0]
        types == CheckTypeNames(here, [i \in DOMAIN f.parameters |-> f.parameters[i].type], st)
        params == BindAll(<< >>, [i \in DOMAIN f.parameters |-> f.parameters[i].name], types.ts, types.st)
        ret == CheckTypeName(here, f.ret, params.st)
    IN IF st.errors # {} \/ f.extern THEN st
       ELSE AnalyzeBody([here EXCEPT !.locals = params.locals, !.ret = ret.t], f.body, ret.st).st

Empty == [structs |-> << >>, enums |-> << >>, globals |-> << >>, functions |-> << >>,
          modules |-> << >>, imports |-> << >>, errors |-> {}]

\* run: the tables in this order, then every function.
Analyze(m, enforce) ==
    LET modules == FoldLeft(DeclareModule, Empty, m.modules)
        names == FoldLeft(RegisterEnum, FoldLeft(RegisterStruct, modules, m.structs), m.enums)
        types == FoldLeft(CheckEnum, FoldLeft(CheckStruct, names, m.structs), m.enums)
        statics == FoldLeft(CheckScalar, FoldLeft(CheckBuffer, types, m.buffers), m.scalars)
        functions == FoldLeft(DeclareFunction, statics, m.functions)
        imports == FoldLeft(Import, functions, m.uses)
    IN FoldLeft(LAMBDA s, f : AnalyzeFunction(s, f, enforce), imports, m.functions)

Accepts(m, enforce) == Analyze(m, enforce).errors = {}

=============================================================================
