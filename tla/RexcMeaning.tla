---------------------------- MODULE RexcMeaning ----------------------------
(***************************************************************************)
(* What a rexc program means, for its source alone: no types beyond those  *)
(* that casts name, no layouts, no frames, no registers.  The language     *)
(* reference (docs/ch03 to ch12) is followed: a block is a scope, deferred *)
(* calls run last registered first on every way out of their block, `?`    *)
(* leaves the function, && and || evaluate their right side on demand.     *)
(*                                                                         *)
(* A number is a record n, a pointer a place in the store and an index, a  *)
(* text its characters and an index, a Result a record err, n; structs are *)
(* functions of their fields, tuples sequences, enum values a variant and  *)
(* its payloads.  The store is a sequence of cells, a cell a sequence of   *)
(* values.  An outcome is [k, v, s]: how evaluation ends ("go", "return",  *)
(* "break", "continue"), the value, and the state after it.                *)
(***************************************************************************)
EXTENDS RexcAst, RexcTypes, SequencesExt

CONSTANT ByteWidth  \* the bits of a byte

Number(n) == [n |-> n]
Truth(b) == Number(IF b THEN 1 ELSE 0)
IsTrue(v) == v.n # 0

Outcome(k, v, s) == [k |-> k, v |-> v, s |-> s]
Go(v, s) == Outcome("go", v, s)
\* What follows happens only if what comes before goes on.
Then(r, F(_)) == IF r.k = "go" THEN F(r) ELSE r

WrapTo(t, n) ==
    LET values == 2 ^ (ByteWidth * (t.bits \div 8))
        u == n % values
    IN IF IsSigned(t) /\ 2 * u >= values THEN u - values ELSE u

Toward0(a, b) ==
    LET abs(n) == IF n < 0 THEN -n ELSE n
        q == abs(a) \div abs(b)
    IN IF (a < 0) = (b < 0) THEN q ELSE -q

Cell(s, values) == [s EXCEPT !.store = Append(@, values)]
NewPlace(s) == [at |-> Len(s.store) + 1, index |-> 0]
IsText(p) == "text" \in DOMAIN p
Deref(s, p) ==
    IF IsText(p) THEN Number(IF p.index < Len(p.text) THEN p.text[p.index + 1] ELSE 0)
                 ELSE s.store[p.at][p.index + 1]
\* A place that no statement has given a value holds Unit; to read it is noted.
Unit == << >>
Read(s, p) ==
    LET v == Deref(s, p)
    IN IF DOMAIN v = {} THEN Go(Number(0), [s EXCEPT !.unassigned = TRUE]) ELSE Go(v, s)
Assign(s, p, v) == [s EXCEPT !.store[p.at][p.index + 1] = v]
Moved(p, n) == [p EXCEPT !.index = @ + n]
Named(env, x, p) == (x :> p) @@ env

(***************************************************************************)
(* Names                                                                   *)
(***************************************************************************)
\* An import of this module, then what this module has, then what the root has.
NamesOf(cx, path, declared) ==
    LET imported == SelectSeq(cx.m.uses, LAMBDA u : u.module = cx.module /\ Last(u.import) = path[1])
        paths == [i \in DOMAIN imported |-> imported[i].import \o Tail(path)]
                 \o <<cx.module \o path, path>>
    IN SelectSeq(paths, LAMBDA p : p \in declared)

FunctionNamed(cx, path) ==
    LET known(f) == f.module \o <<f.name>>
        hits == NamesOf(cx, path, {known(f) : f \in Range(cx.m.functions)})
    IN IF hits = << >> THEN << >> ELSE SelectSeq(cx.m.functions, LAMBDA f : known(f) = hits[1])

PlaceOf(cx, s, x) ==
    IF x \in DOMAIN cx.env THEN cx.env[x] ELSE s.statics[NamesOf(cx, <<x>>, DOMAIN s.statics)[1]]

(***************************************************************************)
(* Expressions                                                             *)
(***************************************************************************)
Arithmetic(op, a, b) ==
    CASE op = "+" -> Number(a + b)
      [] op = "-" -> Number(a - b)
      [] op = "*" -> Number(a * b)
      [] op = "/" -> Number(Toward0(a, b))
      [] op = "%" -> Number(a - b * Toward0(a, b))
      [] op = "==" -> Truth(a = b)
      [] op = "!=" -> Truth(a # b)
      [] op = "<" -> Truth(a < b)
      [] op = "<=" -> Truth(a <= b)
      [] op = ">" -> Truth(a > b)
      [] op = ">=" -> Truth(a >= b)

Operate(op, a, b) ==
    IF "index" \in DOMAIN a /\ op \in {"+", "-"} THEN Moved(a, IF op = "+" THEN b.n ELSE -b.n)
    ELSE IF "index" \in DOMAIN a THEN Truth((a = b) = (op = "=="))
    ELSE Arithmetic(op, a.n, b.n)

External(f, args, s) ==
    CASE f = "get" -> Go(Number(s.input), s)
      [] f = "emit" -> Go(Number(0), [s EXCEPT !.trace = Append(@, args[1].n)])
      [] f = "result_i32_ok" -> Go([err |-> FALSE, n |-> args[1].n], s)
      [] f = "result_i32_err" -> Go([err |-> TRUE, n |-> args[1].n], s)
      [] f = "result_i32_is_err" -> Go(Truth(args[1].err), s)
      [] f = "result_i32_value_or" -> Go(IF args[1].err THEN args[2] ELSE Number(args[1].n), s)

RECURSIVE Eval(_, _, _)
RECURSIVE EvalAll(_, _, _)
RECURSIVE Run(_, _, _)
RECURSIVE RunBlock(_, _, _)

\* The last one first, as the code generators do it.
EvalAll(cx, es, s) ==
    IF es = << >> THEN Go(<< >>, s)
    ELSE Then(EvalAll(cx, Tail(es), s), LAMBDA rest :
         Then(Eval(cx, Head(es), rest.s), LAMBDA first : Go(<<first.v>> \o rest.v, first.s)))

\* Parameters are fresh cells; the value of a call is what its body returns.
Call(cx, f, args, s) ==
    LET places == [i \in DOMAIN args |-> [at |-> Len(s.store) + i, index |-> 0]]
        env == FoldLeft(LAMBDA e, i : Named(e, f.parameters[i].name, places[i]), << >>,
                        [i \in DOMAIN args |-> i])
        inside == [cx EXCEPT !.module = f.module, !.env = env]
        body == RunBlock(inside, f.body, [s EXCEPT !.store = @ \o [i \in DOMAIN args |-> <<args[i]>>]])
    IN Go(body.v, body.s)

EvalCall(cx, e, s) ==
    LET f == FunctionNamed(cx, e.callee)
    IN Then(EvalAll(cx, e.arguments, s), LAMBDA args :
         IF e.callee = <<"len">> THEN Go(Number(Len(args.v[1].text) - args.v[1].index), args.s)
         ELSE IF f = << >> THEN Go([variant |-> Last(e.callee), payloads |-> args.v], args.s)
         ELSE IF f[1].extern THEN External(f[1].name, args.v, args.s)
         ELSE Call(cx, f[1], args.v, args.s))

EvalUnary(cx, e, s) ==
    LET place == PlaceOf(cx, s, e.operand.name)
        old == Read(s, place)
        new == Number(old.v.n + (IF e.op \in {"pre++", "post++"} THEN 1 ELSE -1))
    IN CASE e.op = "&" -> Go(place, s)
         [] e.op \in {"pre++", "pre--"} -> Go(new, Assign(old.s, place, new))
         [] e.op \in {"post++", "post--"} -> Go(old.v, Assign(old.s, place, new))
         [] e.op = "-" -> Then(Eval(cx, e.operand, s), LAMBDA r : Go(Number(-r.v.n), r.s))
         [] e.op = "!" -> Then(Eval(cx, e.operand, s), LAMBDA r : Go(Truth(~IsTrue(r.v)), r.s))
         [] e.op = "*" -> Then(Eval(cx, e.operand, s), LAMBDA r : Go(Deref(r.s, r.v), r.s))

\* A static array stands for the place of its first element.
EvalName(cx, x, s) ==
    LET place == PlaceOf(cx, s, x)
    IN IF x \notin DOMAIN cx.env /\ place.at \in s.arrays THEN Go(place, s) ELSE Read(s, place)

Cast(v, target) ==
    IF target.form = "type" /\ "n" \in DOMAIN v
    THEN IF IsInteger(target.type) THEN Number(WrapTo(target.type, v.n)) ELSE v
    ELSE v

Eval(cx, e, s) ==
    CASE e.kind = "Integer" -> Go(Number(e.value), s)
      [] e.kind = "Bool" -> Go(Truth(e.value), s)
      [] e.kind = "String" -> Go([text |-> e.value, index |-> 0], s)
      [] e.kind = "Name" -> EvalName(cx, e.name, s)
      [] e.kind = "Unary" -> EvalUnary(cx, e, s)
      [] e.kind = "Binary" ->
           Then(Eval(cx, e.lhs, s), LAMBDA l :
             IF e.op \in {"&&", "||"}
             THEN IF IsTrue(l.v) = (e.op = "&&") THEN Eval(cx, e.rhs, l.s) ELSE l
             ELSE Then(Eval(cx, e.rhs, l.s), LAMBDA r : Go(Operate(e.op, l.v, r.v), r.s)))
      [] e.kind = "Cast" ->
           Then(Eval(cx, e.value, s), LAMBDA r : Go(Cast(r.v, e.target), r.s))
      [] e.kind = "Call" -> EvalCall(cx, e, s)
      [] e.kind = "StructLiteral" ->
           LET names == [i \in DOMAIN e.fields |-> e.fields[i].name]
               at(x) == CHOOSE i \in DOMAIN names : names[i] = x
           IN Then(EvalAll(cx, [i \in DOMAIN names |-> e.fields[i].value], s), LAMBDA r :
                Go([x \in Range(names) |-> r.v[at(x)]], r.s))
      [] e.kind = "Tuple" -> EvalAll(cx, e.elements, s)
      [] e.kind = "FieldAccess" ->
           Then(Eval(cx, e.base, s), LAMBDA r :
             Go(IF e.index > 0 THEN r.v[e.index] ELSE r.v[e.field], r.s))
      [] e.kind = "Index" ->
           Then(Eval(cx, e.base, s), LAMBDA b :
           Then(Eval(cx, e.index, b.s), LAMBDA i : Go(Deref(i.s, Moved(b.v, i.v.n)), i.s)))
      [] e.kind = "Try" ->
           Then(Eval(cx, e.operand, s), LAMBDA r :
             IF r.v.err THEN Outcome("return", r.v, r.s) ELSE Go(Number(r.v.n), r.s))

(***************************************************************************)
(* Statements                                                              *)
(***************************************************************************)
\* The names of the first pattern that has any stand for the parts they match.
Matches(p, v) ==
    CASE p.kind = "Default" -> TRUE
      [] p.kind = "Integer" -> v.n = p.value
      [] p.kind = "Bool" -> IsTrue(v) = p.value
      [] p.kind = "Variant" -> v.variant = Last(p.path)
      [] p.kind = "Struct" -> TRUE

PartsMatched(cx, p, v) ==
    LET decl == CHOOSE d \in Range(cx.m.structs) : d.name = p.path[1]
    IN IF p.kind = "Variant" THEN v.payloads
       ELSE [i \in DOMAIN decl.fields |-> v[decl.fields[i].name]]

BindPattern(cx, p, v, s) ==
    FoldLeft(LAMBDA r, i : IF p.bindings[i] = "_" THEN r
                           ELSE [env |-> Named(r.env, p.bindings[i], NewPlace(r.s)),
                                 s |-> Cell(r.s, <<PartsMatched(cx, p, v)[i]>>)],
             [env |-> cx.env, s |-> s], [i \in DOMAIN p.bindings |-> i])

RunMatch(cx, body, v, s) ==
    LET arms == SelectSeq(body, LAMBDA a : \E p \in Range(a.patterns) : Matches(p, v))
        p == SelectSeq(arms[1].patterns, LAMBDA q : Matches(q, v))[1]
        bound == BindPattern(cx, p, v, s)
    IN IF arms = << >> THEN Go(Unit, s)
       ELSE RunBlock([cx EXCEPT !.env = bound.env], arms[1].body, bound.s)

\* One more turn of a loop; break ends it, continue goes to the increment.
RECURSIVE Loop(_, _, _, _, _)
Loop(cx, condition, increment, body, s) ==
    Then(Eval(cx, condition, s), LAMBDA c :
      IF ~IsTrue(c.v) THEN Go(Unit, c.s)
      ELSE LET turn == RunBlock(cx, body, c.s)
           IN IF turn.k = "break" THEN Go(Unit, turn.s)
              ELSE IF turn.k = "return" THEN turn
              ELSE Loop(cx, condition, increment, body,
                        IF increment = << >> THEN turn.s ELSE Run(cx, increment, turn.s).s))

\* A statement that declares nothing.
RunPlain(cx, st, s) ==
    CASE st.kind = "Assign" ->
           Then(Eval(cx, st.value, s), LAMBDA r : Go(Unit, Assign(r.s, PlaceOf(cx, r.s, st.name), r.v)))
      [] st.kind = "IndirectAssign" ->
           Then(Eval(cx, st.value, s), LAMBDA v :
           Then(Eval(cx, st.target, v.s), LAMBDA p : Go(Unit, Assign(p.s, p.v, v.v))))
      [] st.kind = "FieldAssign" ->
           Then(Eval(cx, st.value, s), LAMBDA v :
           Then(Eval(cx, st.base, v.s), LAMBDA p :
             Go(Unit, Assign(p.s, p.v, [Deref(p.s, p.v) EXCEPT ![st.field] = v.v]))))
      [] st.kind = "Expr" -> Then(Eval(cx, st.value, s), LAMBDA r : Go(Unit, r.s))
      [] st.kind = "Return" ->
           Then(Eval(cx, st.value, s), LAMBDA r : Outcome("return", r.v, r.s))
      [] st.kind = "If" ->
           Then(Eval(cx, st.condition, s), LAMBDA c :
             RunBlock(cx, IF IsTrue(c.v) THEN st.then ELSE st.else, c.s))
      [] st.kind = "Match" ->
           Then(Eval(cx, st.value, s), LAMBDA r : RunMatch(cx, st.arms, r.v, r.s))
      [] st.kind = "While" -> Loop(cx, st.condition, << >>, st.body, s)
      [] st.kind = "For" ->
           LET init == Run(cx, <<st.initializer>>, s)
               inside == [cx EXCEPT !.env = init.v]
           IN Loop(inside, st.condition, <<st.increment>>, st.body, init.s)
      [] st.kind = "Break" -> Outcome("break", Unit, s)
      [] st.kind = "Continue" -> Outcome("continue", Unit, s)
      [] st.kind = "UnsafeBlock" -> RunBlock(cx, st.body, s)

\* Statements in order.  At the end v is what the names stand for; a deferred
\* call runs after what follows it, however that ends.
Run(cx, body, s) ==
    LET st == Head(body)
        value == Eval(cx, st.value, s)
    IN IF body = << >> THEN Go(cx.env, s)
       ELSE CASE st.kind = "Let" /\ st.value = NoExpr ->
                   Run([cx EXCEPT !.env = Named(@, st.name, NewPlace(s))], Tail(body),
                       Cell(s, <<Unit>>))
              [] st.kind = "Let" /\ st.value # NoExpr ->
                   Then(value, LAMBDA r :
                     Run([cx EXCEPT !.env = Named(@, st.name, NewPlace(r.s))], Tail(body),
                         Cell(r.s, <<r.v>>)))
              [] st.kind = "Defer" ->
                   LET rest == Run(cx, Tail(body), s)
                   IN [rest EXCEPT !.s = Eval(cx, st.call, rest.s).s]
              [] OTHER -> Then(RunPlain(cx, st, s), LAMBDA r : Run(cx, Tail(body), r.s))

\* The names of a block are gone behind it.
RunBlock(cx, body, s) == Then(Run(cx, body, s), LAMBDA r : Go(Unit, r.s))

(***************************************************************************)
(* Programs: [trace, result, unassigned]                                   *)
(***************************************************************************)
Element(n, type) == IF type = TypeOf(StrType) THEN [text |-> n, index |-> 0] ELSE Number(n)

Meaning(m, input) ==
    LET scalars == [i \in DOMAIN m.scalars |-> <<Number(m.scalars[i].init)>>]
        buffers == [i \in DOMAIN m.buffers |->
                      [j \in 1..m.buffers[i].length |->
                         IF j <= Len(m.buffers[i].inits)
                         THEN Element(m.buffers[i].inits[j], m.buffers[i].type) ELSE Number(0)]]
        place(i) == [at |-> i, index |-> 0]
        paths == [i \in DOMAIN m.scalars |-> m.scalars[i].path]
                 \o [i \in DOMAIN m.buffers |-> m.buffers[i].path]
        start == [store |-> scalars \o buffers,
                  statics |-> FoldLeft(LAMBDA t, i : t @@ (paths[i] :> place(i)), << >>,
                                       [i \in DOMAIN paths |-> i]),
                  arrays |-> (Len(scalars) + 1)..Len(paths),
                  trace |-> << >>, input |-> input, unassigned |-> FALSE]
        end == EvalCall([m |-> m, module |-> << >>, env |-> << >>],
                        CallExpr(<<"main">>, << >>), start)
    IN [trace |-> end.s.trace, result |-> end.v.n, unassigned |-> end.s.unassigned]

=============================================================================
