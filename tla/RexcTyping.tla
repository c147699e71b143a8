----------------------------- MODULE RexcTyping -----------------------------
(***************************************************************************)
(* When a lowered module is well typed: what the code generators take for  *)
(* granted, since no pass behind lowering looks at types again.            *)
(***************************************************************************)
EXTENDS RexcIr, Sequences

\* The functions of the runtime that lowering itself calls.
Runtime ==
    (<<"strlen">> :> [parameters |-> <<StrType>>, ret |-> I32])
    @@ (<<"result_i32_is_err">> :> [parameters |-> <<ResultOf(I32)>>, ret |-> BoolType])
    @@ (<<"result_i32_value_or">> :> [parameters |-> <<ResultOf(I32), I32>>, ret |-> I32])

\* The symbols of a module with their types.
Signatures(ir) ==
    LET statics == [i \in DOMAIN ir.scalars |-> [symbol |-> ir.scalars[i].symbol, type |-> ir.scalars[i].type]]
                   \o [i \in DOMAIN ir.buffers |->
                         [symbol |-> ir.buffers[i].symbol,
                          type |-> IF ir.buffers[i].element = U8 THEN StrType
                                                                 ELSE PointerTo(ir.buffers[i].element)]]
        fs == ir.functions
        symbols == {fs[i].symbol : i \in DOMAIN fs}
        function(s) == fs[CHOOSE i \in DOMAIN fs : fs[i].symbol = s]
    IN [functions |-> [s \in symbols |->
                         [parameters |-> [i \in DOMAIN function(s).parameters |->
                                            function(s).parameters[i].type],
                          ret |-> function(s).ret]] @@ Runtime,
        globals |-> [s \in {statics[i].symbol : i \in DOMAIN statics} |->
                       statics[CHOOSE i \in DOMAIN statics : statics[i].symbol = s].type]]

TypesOf(values) == [i \in DOMAIN values |-> values[i].type]

\* The parts of an aggregate have their types and lie inside of it, one behind another.
FieldsFit(type, fields) ==
    /\ \A i \in DOMAIN fields : /\ fields[i].value.type = fields[i].type
                                /\ fields[i].offset + TypeSize(fields[i].type) <= TypeSize(type)
    /\ \A i, j \in DOMAIN fields :
          fields[i].offset < fields[j].offset =>
             fields[i].offset + TypeSize(fields[i].type) <= fields[j].offset

WellTypedUnary(v) ==
    LET t == v.operand.type
    IN CASE v.op = "*" -> t = PointerTo(v.type)
         [] v.op = "&" -> v.type = PointerTo(t)
         [] v.op = "!" -> t = BoolType /\ v.type = BoolType
         [] OTHER -> IsInteger(t) /\ v.type = t

WellTypedBinary(v) ==
    LET l == v.lhs.type
        r == v.rhs.type
    IN CASE v.op \in Logical -> l = BoolType /\ r = BoolType /\ v.type = BoolType
         [] v.op \in Comparisons -> IsInteger(l) /\ r = l /\ v.type = BoolType
         [] IsPointer(l) -> IsInteger(r) /\ v.type = l
         [] l = StrType -> IsInteger(r) /\ v.type = PointerTo(U8)
         [] OTHER -> IsInteger(l) /\ r = l /\ v.type = l

RECURSIVE WellTyped(_, _, _)
WellTyped(sig, env, v) ==
    LET part(x) == WellTyped(sig, env, x)
    IN /\ \A x \in Parts(v) : part(x)
       /\ CASE v.kind = "Integer" -> IsInteger(v.type)
            [] v.kind = "Local" -> IF v.name \in DOMAIN env THEN env[v.name] = v.type ELSE FALSE
            [] v.kind = "Global" ->
                 IF v.symbol \in DOMAIN sig.globals THEN sig.globals[v.symbol] = v.type ELSE FALSE
            [] v.kind = "Unary" -> WellTypedUnary(v)
            [] v.kind = "Binary" -> WellTypedBinary(v)
            [] v.kind = "Call" ->
                 IF v.callee \in DOMAIN sig.functions
                 THEN /\ TypesOf(v.arguments) = sig.functions[v.callee].parameters
                      /\ v.type = sig.functions[v.callee].ret
                 ELSE FALSE
            [] v.kind \in {"StructLiteral", "EnumLiteral"} -> FieldsFit(v.type, v.fields)
            [] v.kind = "StructField" -> v.offset + TypeSize(v.type) <= TypeSize(v.base.type)
            [] OTHER -> TRUE

\* The locals a statement leaves for those behind it.
Declared(env, s) == IF s.kind = "Let" THEN (s.name :> s.value.type) @@ env ELSE env

WellTypedPattern(p, type) ==
    CASE p.kind \in {"EnumVariant", "Struct"} -> p.type = type
      [] p.kind = "Integer" -> IsInteger(type)
      [] p.kind = "Bool" -> type = BoolType
      [] OTHER -> TRUE

RECURSIVE WellTypedStatement(_, _, _, _)
RECURSIVE WellTypedBody(_, _, _, _)
WellTypedBody(sig, env, ret, body) ==
    IF body = << >> THEN TRUE
    ELSE /\ WellTypedStatement(sig, env, ret, Head(body))
         /\ WellTypedBody(sig, Declared(env, Head(body)), ret, Tail(body))

WellTypedArm(sig, env, ret, arm, type) ==
    LET bound == UNION {{p.bindings[i] : i \in DOMAIN p.bindings} : p \in {arm.patterns[i] : i \in DOMAIN arm.patterns}}
        inside == [x \in {b.name : b \in bound} |-> (CHOOSE b \in bound : b.name = x).type] @@ env
    IN /\ \A i \in DOMAIN arm.patterns : WellTypedPattern(arm.patterns[i], type)
       /\ WellTypedBody(sig, inside, ret, arm.body)

WellTypedStatement(sig, env, ret, s) ==
    LET value(v) == WellTyped(sig, env, v)
        body(b) == WellTypedBody(sig, env, ret, b)
        inner == Declared(env, s.initializer)
    IN CASE s.kind \in {"Let", "Expr"} -> value(s.value)
         [] s.kind = "Assign" -> value(s.target) /\ value(s.value) /\ s.target.type = s.value.type
         [] s.kind = "IndirectAssign" ->
              value(s.target) /\ value(s.value) /\ s.target.type = PointerTo(s.value.type)
         [] s.kind = "Return" -> value(s.value) /\ s.value.type = ret
         [] s.kind = "If" -> value(s.value) /\ s.value.type = BoolType /\ body(s.then) /\ body(s.else)
         [] s.kind = "While" -> value(s.value) /\ s.value.type = BoolType /\ body(s.body)
         [] s.kind = "Match" ->
              /\ value(s.value)
              /\ \A i \in DOMAIN s.arms : WellTypedArm(sig, env, ret, s.arms[i], s.value.type)
         [] s.kind = "For" ->
              /\ WellTypedStatement(sig, env, ret, s.initializer)
              /\ WellTyped(sig, inner, s.value) /\ s.value.type = BoolType
              /\ WellTypedStatement(sig, inner, ret, s.increment)
              /\ WellTypedBody(sig, inner, ret, s.body)
         [] OTHER -> TRUE

WellTypedModule(ir) ==
    LET sig == Signatures(ir)
        env(f) == [x \in {f.parameters[i].name : i \in DOMAIN f.parameters} |->
                     (CHOOSE p \in {f.parameters[i] : i \in DOMAIN f.parameters} : p.name = x).type]
    IN \A i \in DOMAIN ir.functions :
          LET f == ir.functions[i] IN WellTypedBody(sig, env(f), f.ret, f.body)

=============================================================================
