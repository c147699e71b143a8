---------------------------- MODULE MCRexcExec ----------------------------
(***************************************************************************)
(* Small programs for RexcExec, each compiled for the targets whose known  *)
(* limits it stays within (README, section 5).                             *)
(***************************************************************************)
EXTENDS RexcExec, RexcAst, RexcTypes

Sema == INSTANCE RexcSema
Lower == INSTANCE RexcLower
X86 == INSTANCE RexcX86
Arm64 == INSTANCE RexcArm64
Reference == INSTANCE RexcMeaning WITH ByteWidth <- ByteBits

All == {"x86_64", "i386", "arm64"}
i32 == TypeOf(I32)
u8 == TypeOf(U8)
i8 == TypeOf(I8)
bool == TypeOf(BoolType)
str == TypeOf(StrType)
result == TypeOf(ResultOf(I32))

N(n) == IntegerExpr(n)
V(x) == NameExpr(x)
Bin(op, l, r) == BinaryExpr(op, l, r)
Neg(e) == UnaryExpr("-", e)
Do(f, args) == CallExpr(<<f>>, args)
CallStmt(f, args) == ExprStmt(Do(f, args))
Emit(e) == CallStmt("emit", <<e>>)
Let(x, e) == LetMutStmt(x, i32, e)
If(c, then) == IfStmt(c, then, << >>)
Defer(n) == DeferStmt(Do("emit", <<N(n)>>))
Ok(e) == Do("result_i32_ok", <<e>>)
Count(x) == ExprStmt(UnaryExpr("post++", V(x)))
Fn(name, params, ret, body) == Function(<<name>>, << >>, params, ret, body)
Main(body) == Fn("main", << >>, i32, body)

Externs == <<ExternFunction("get", << >>, i32), ExternFunction("emit", <<Param("n", i32)>>, i32),
             ExternFunction("result_i32_ok", <<Param("n", i32)>>, result),
             ExternFunction("result_i32_err", <<Param("n", i32)>>, result),
             ExternFunction("result_i32_is_err", <<Param("r", result)>>, bool),
             ExternFunction("result_i32_value_or", <<Param("r", result), Param("n", i32)>>, i32)>>
Program(structs, enums, scalars, buffers, functions) ==
    Module(structs, enums, scalars, buffers, << >>, << >>, Externs \o functions)
Functions(functions) == Program(<< >>, << >>, << >>, << >>, functions)

(***************************************************************************)
(* Defers and the ways out of a block                                      *)
(***************************************************************************)
Defers == Functions(<<
    Fn("run", <<Param("n", i32)>>, i32, <<
        Let("acc", N(0)), Defer(1),
        WhileStmt(Bin("<", V("acc"), N(3)), <<
            Defer(2), Count("acc"),
            If(Bin("==", V("acc"), V("n")), <<Defer(3), ContinueStmt>>),
            Defer(4),
            If(Bin(">", Bin("+", V("acc"), V("n")), N(3)), <<BreakStmt>>)>>),
        If(Bin(">", V("n"), N(0)), <<Defer(5), ReturnStmt(V("acc"))>>),
        Defer(6), ReturnStmt(Bin("+", V("acc"), N(100)))>>),
    Main(<<Emit(Do("run", <<Do("get", << >>)>>)), ReturnStmt(Do("run", <<N(1)>>))>>)>>)

Leave(way, n) == CASE way = "return" -> <<ReturnStmt(N(n))>> [] way = "break" -> <<BreakStmt>>
                   [] way = "continue" -> <<ContinueStmt>> [] way = "end" -> << >>

\* Two loops, each left its own way in its second turn; a `for` inside a `while`.
Ways(outer, inner) == Functions(<<
    Fn("run", << >>, i32, <<
        Let("i", N(0)), Defer(1),
        WhileStmt(Bin("<", V("i"), N(2)), <<
            Count("i"), Defer(2),
            ForStmt(Let("j", N(0)), Bin("<", V("j"), N(2)), Count("j"), <<
                Defer(3),
                If(Bin("==", V("j"), N(1)), <<Defer(4)>> \o Leave(inner, 7)),
                Emit(V("j"))>>),
            If(Bin("==", V("i"), N(1)), <<Defer(5)>> \o Leave(outer, 8)),
            Emit(Bin("+", V("i"), N(20)))>>),
        ReturnStmt(N(9))>>),
    Main(<<ReturnStmt(Do("run", << >>))>>)>>)

\* Loops that say nothing until they have ended.
Loops == Functions(<<
    Main(<<
        Let("n", Do("get", << >>)), Let("sum", N(0)), Let("i", N(0)),
        ForStmt(Let("j", N(0)), Bin("<", V("j"), N(4)), Count("j"), <<
            If(Bin("==", V("j"), V("n")), <<ContinueStmt>>),
            AssignStmt("sum", Bin("+", V("sum"), V("j")))>>),
        WhileStmt(Bin("<", V("i"), N(3)), <<
            Count("i"), If(Bin("==", V("i"), V("n")), <<ContinueStmt>>),
            AssignStmt("sum", Bin("+", V("sum"), N(10)))>>),
        WhileStmt(BoolExpr(TRUE), <<Count("n"), If(Bin(">", V("n"), N(2)), <<BreakStmt>>)>>),
        ReturnStmt(Bin("-", V("sum"), V("n")))>>)>>)

\* `?` under defers, twice in one function, and in the middle of an expression.
Tries == Functions(<<
    Fn("parse", <<Param("n", i32)>>, result, <<
        If(Bin("<", V("n"), N(0)), <<ReturnStmt(Do("result_i32_err", <<V("n")>>))>>),
        ReturnStmt(Ok(V("n")))>>),
    Fn("step", <<Param("n", i32)>>, result, <<
        Defer(1), Let("a", TryExpr(Do("parse", <<V("n")>>))),
        If(Bin(">", V("a"), N(0)), <<
            Defer(2),
            Let("b", Bin("+", N(10), TryExpr(Do("parse", <<Bin("-", V("a"), N(2))>>)))),
            Emit(V("b"))>>),
        ReturnStmt(Ok(Bin("+", V("a"), N(1))))>>),
    Main(<<ReturnStmt(Do("result_i32_value_or", <<Do("step", <<Do("get", << >>)>>), N(77)>>))>>)>>)

(***************************************************************************)
(* Expressions and control flow                                            *)
(***************************************************************************)
Say(x, n) == CallExpr(<<x>>, <<N(n)>>)
Logic == Functions(<<
    Fn("yes", <<Param("n", i32)>>, bool, <<Emit(V("n")), ReturnStmt(BoolExpr(TRUE))>>),
    Fn("no", <<Param("n", i32)>>, bool, <<Emit(V("n")), ReturnStmt(BoolExpr(FALSE))>>),
    Main(<<
        LetStmt("p", bool, Bin("<", Do("get", << >>), N(1))),
        If(Bin("&&", V("p"), Bin("||", Say("no", 1), Say("yes", 2))), <<Emit(N(3))>>),
        IfStmt(Bin("||", Bin("&&", Say("no", 4), Say("yes", 5)), UnaryExpr("!", V("p"))),
               <<Emit(N(6))>>, <<Emit(N(7))>>),
        WhileStmt(Bin("&&", V("p"), Say("no", 8)), <<Emit(N(9))>>),
        ReturnStmt(N(0))>>)>>)

Numerics == Functions(<<
    Fn("f", <<Param("a", i32), Param("b", i32)>>, i32, <<
        Let("q", Bin("/", V("a"), V("b"))), Let("r", Bin("%", V("a"), V("b"))),
        Emit(V("q")), Emit(V("r")),
        Emit(Bin("-", Bin("*", V("q"), V("b")), Bin("-", N(3), V("r")))),
        ReturnStmt(Bin("-", V("a"), Bin("+", Bin("*", V("q"), V("b")), V("r"))))>>),
    Main(<<
        Let("n", Do("get", << >>)),
        Let("x", UnaryExpr("post++", V("n"))), Let("y", UnaryExpr("pre--", V("n"))),
        Emit(Bin("+", Bin("*", V("x"), N(10)), V("y"))),
        Emit(Do("f", <<Bin("-", V("n"), N(5)), N(3)>>)),
        Emit(Do("f", <<N(7), Neg(N(2))>>)),
        If(Bin("<=", V("n"), Neg(N(1))), <<Emit(N(1))>>),
        If(Bin("<=", N(0), Neg(V("n"))), <<Emit(N(2))>>),
        ReturnStmt(Bin("*", V("n"), Neg(N(3))))>>)>>)

\* Narrow types: the value is cut to its width and extended again.
Casts == Functions(<<
    Main(<<
        Let("n", Do("get", << >>)),
        LetStmt("a", u8, CastExpr(Bin("-", V("n"), N(3)), u8)),
        LetStmt("b", i8, CastExpr(Bin("+", V("n"), N(3)), i8)),
        Emit(CastExpr(V("a"), i32)), Emit(CastExpr(V("b"), i32)),
        If(Bin(">", V("a"), CastExpr(N(3), u8)), <<Emit(N(1))>>),
        If(Bin("<", V("b"), CastExpr(N(0), i8)), <<Emit(N(2))>>),
        ReturnStmt(CastExpr(CastExpr(Bin("*", V("n"), N(9)), i8), i32))>>)>>)
UnsignedCasts == Functions(<<
    Main(<<
        LetStmt("a", u8, CastExpr(Bin("-", Do("get", << >>), N(3)), u8)),
        Emit(CastExpr(V("a"), i32)),
        If(Bin(">", V("a"), CastExpr(N(3), u8)), <<Emit(N(1))>>),
        ReturnStmt(CastExpr(Bin("/", V("a"), CastExpr(N(2), u8)), i32))>>)>>)

(***************************************************************************)
(* Calls                                                                   *)
(***************************************************************************)
Params(names) == [i \in DOMAIN names |-> Param(names[i], i32)]
Sum(names) == FoldLeft(LAMBDA e, x : Bin("+", Bin("*", e, N(2)), V(x)), N(0), names)
Nine == <<"a", "b", "c", "d", "e", "f", "g", "h", "k">>
Numbers(n) == [i \in 1..n |-> N(i % 3)]

\* More arguments than registers, and calls inside the arguments of calls.
Calls == Functions(<<
    Fn("nine", Params(Nine), i32, <<Emit(V("k")), Emit(V("g")), ReturnStmt(Sum(Nine))>>),
    Fn("eight", Params(SubSeq(Nine, 1, 8)), i32, <<ReturnStmt(Sum(SubSeq(Nine, 1, 8)))>>),
    Fn("two", Params(<<"a", "b">>), i32, <<Let("t", Bin("-", V("a"), V("b"))), ReturnStmt(V("t"))>>),
    Main(<<
        Let("n", Do("get", << >>)),
        Emit(Do("two", <<Do("two", <<N(9), V("n")>>), Do("two", <<V("n"), N(4)>>)>>)),
        Emit(Do("nine", Numbers(7) \o <<V("n"), Do("two", <<V("n"), N(1)>>)>>)),
        Emit(Bin("+", V("n"), Do("nine", <<Bin("-", Do("eight", Numbers(8)), N(290))>> \o Numbers(7) \o <<V("n")>>))),
        ReturnStmt(Do("two", <<Do("eight", Numbers(7) \o <<V("n")>>), V("n")>>))>>)>>)

Recursion == Functions(<<
    Fn("fib", Params(<<"n">>), i32, <<
        If(Bin("<", V("n"), N(2)), <<ReturnStmt(V("n"))>>),
        Let("a", Do("fib", <<Bin("-", V("n"), N(1))>>)),
        ReturnStmt(Bin("+", V("a"), Do("fib", <<Bin("-", V("n"), N(2))>>)))>>),
    Fn("even", Params(<<"n">>), bool, <<
        If(Bin("<=", V("n"), N(0)), <<ReturnStmt(BoolExpr(TRUE))>>),
        ReturnStmt(Do("odd", <<Bin("-", V("n"), N(1))>>))>>),
    Fn("odd", Params(<<"n">>), bool, <<
        If(Bin("<=", V("n"), N(0)), <<ReturnStmt(BoolExpr(FALSE))>>),
        ReturnStmt(Do("even", <<Bin("-", V("n"), N(1))>>))>>),
    Main(<<
        If(Do("even", <<Do("get", << >>)>>), <<Emit(N(1))>>),
        ReturnStmt(Do("fib", <<Bin("+", N(2), Do("get", << >>))>>))>>)>>)

(***************************************************************************)
(* Data                                                                    *)
(***************************************************************************)
Field(x, type) == [name |-> x, type |-> type]
Init1(x, e) == [name |-> x, value |-> e]
Get(e, x) == FieldAccessExpr(e, x, 0)
At1(e, k) == FieldAccessExpr(e, "", k)

Mixed == StructDecl("Mixed", << >>, <<Field("a", u8), Field("b", i32)>>)
Four == StructDecl("Four", << >>, [i \in 1..4 |-> Field(Nine[i], i32)])
FourOf(e) == StructLiteralExpr(NamedType("Four"), [i \in 1..4 |-> Init1(Nine[5 - i], Bin("+", e, N(i)))])

\* Fields in one word, in two, and in two that are passed in registers or on
\* the stack.
Structs == Program(<<Mixed, Four>>, << >>, << >>, << >>, <<
    Fn("mix", <<Param("m", NamedType("Mixed")), Param("n", i32)>>, i32, <<
        ReturnStmt(Bin("-", CastExpr(Get(V("m"), "a"), i32), Bin("*", V("n"), Get(V("m"), "b"))))>>),
    Fn("late", Params(SubSeq(Nine, 1, 7)) \o <<Param("w", NamedType("Four")), Param("z", i32)>>, i32, <<
        Emit(V("z")),
        ReturnStmt(Bin("-", Get(V("w"), "d"), Bin("*", Get(V("w"), "a"), V("g"))))>>),
    Fn("early", <<Param("w", NamedType("Four")), Param("n", i32)>>, i32, <<
        ReturnStmt(Bin("+", Bin("*", Get(V("w"), "d"), V("n")), Get(V("w"), "b")))>>),
    Main(<<
        Let("n", Do("get", << >>)),
        LetStmt("m", NamedType("Mixed"), StructLiteralExpr(NamedType("Mixed"),
            <<Init1("b", Bin("-", V("n"), N(9))), Init1("a", CastExpr(N(5), u8))>>)),
        LetStmt("w", NamedType("Four"), FourOf(V("n"))),
        LetStmt("t", TupleName(<<i32, bool, u8>>),
                TupleExpr(<<V("n"), Bin(">", V("n"), N(0)), CastExpr(N(6), u8)>>)),
        If(At1(V("t"), 2), <<Emit(N(1))>>),
        Emit(Bin("+", At1(V("t"), 1), CastExpr(At1(V("t"), 3), i32))),
        Emit(Do("mix", <<V("m"), N(2)>>)), Emit(Do("early", <<V("w"), N(3)>>)),
        Emit(Bin("-", Get(V("w"), "b"), Get(V("w"), "c"))),
        ReturnStmt(Do("late", Numbers(7) \o <<V("w"), V("n")>>))>>)>>)

Shape == EnumDecl("Shape", <<[name |-> "Dot", payloads |-> << >>], [name |-> "Line", payloads |-> <<i32>>],
                             [name |-> "Box", payloads |-> <<u8, i32>>]>>)
\* Tags, payloads at their offsets, alternatives, arms left by a return.
Matches == Program(<<Mixed>>, <<Shape>>, << >>, << >>, <<
    Fn("kind", <<Param("n", i32)>>, i32, <<
        Let("k", N(0)),
        MatchStmt(V("n"), <<
            MatchArm(<<IntegerPattern(0), IntegerPattern(1)>>, <<Defer(1), AssignStmt("k", N(4))>>),
            MatchArm(<<IntegerPattern(2)>>, <<ReturnStmt(N(6))>>),
            MatchArm(<<DefaultPattern>>, <<AssignStmt("k", N(5))>>)>>),
        MatchStmt(Bin(">", V("n"), N(0)), <<
            MatchArm(<<BoolPattern(TRUE)>>, <<Emit(N(2))>>),
            MatchArm(<<BoolPattern(FALSE)>>, <<Emit(N(3))>>)>>),
        ReturnStmt(V("k"))>>),
    Main(<<
        Let("n", Do("get", << >>)), Let("r", N(0)),
        LetMutStmt("s", NamedType("Shape"), CallExpr(<<"Dot">>, << >>)),
        If(Bin(">", V("n"), N(0)), <<AssignStmt("s", CallExpr(<<"Shape", "Line">>, <<V("n")>>))>>),
        MatchStmt(V("s"), <<
            MatchArm(<<VariantPattern(<<"Line">>, <<"x">>)>>, <<AssignStmt("r", V("x"))>>),
            MatchArm(<<DefaultPattern>>, <<AssignStmt("r", N(8))>>)>>),
        Emit(V("r")),
        MatchStmt(CallExpr(<<"Box">>, <<CastExpr(N(3), u8), Bin("-", V("n"), N(7))>>), <<
            MatchArm(<<VariantPattern(<<"Shape", "Dot">>, << >>)>>, <<Emit(N(1))>>),
            MatchArm(<<VariantPattern(<<"Box">>, <<"_", "y">>)>>, <<Emit(V("y"))>>),
            MatchArm(<<VariantPattern(<<"Line">>, <<"_">>)>>, <<Emit(N(4))>>)>>),
        LetStmt("m", NamedType("Mixed"), StructLiteralExpr(NamedType("Mixed"),
            <<Init1("a", CastExpr(N(2), u8)), Init1("b", V("n"))>>)),
        MatchStmt(V("m"), <<
            MatchArm(<<StructPattern("Mixed", <<"p", "q">>)>>,
                     <<Emit(Bin("+", CastExpr(V("p"), i32), V("q")))>>)>>),
        ReturnStmt(Do("kind", <<V("n")>>))>>)>>)

Star(e) == UnaryExpr("*", e)
Pointers == Program(<<Mixed>>, << >>, <<StaticScalar(<<"TOTAL">>, i32, 4)>>,
                    <<StaticBuffer(<<"BUF">>, i32, 3, <<7, 8>>)>>, <<
    Fn("bump", <<Param("p", TypeOf(PointerTo(I32))), Param("by", i32)>>, i32, <<
        IndirectAssignStmt(V("p"), Bin("+", Star(V("p")), V("by"))),
        ReturnStmt(Star(V("p")))>>),
    Main(<<
        Let("n", Do("get", << >>)),
        Emit(Do("bump", <<UnaryExpr("&", V("n")), N(5)>>)),
        IndirectAssignStmt(Bin("+", V("BUF"), N(2)), V("n")),
        UnsafeBlockStmt(<<
            Let("k", IndexExpr(V("BUF"), N(2))),
            Emit(Bin("-", V("k"), IndexExpr(V("BUF"), N(1))))>>),
        LetMutStmt("m", NamedType("Mixed"), StructLiteralExpr(NamedType("Mixed"),
            <<Init1("a", CastExpr(N(2), u8)), Init1("b", N(3))>>)),
        LetStmt("q", PointerName(NamedType("Mixed")), UnaryExpr("&", V("m"))),
        FieldAssignStmt(V("q"), "b", Bin("+", Get(Star(V("q")), "b"), V("n"))),
        FieldAssignStmt(V("q"), "a", CastExpr(N(7), u8)),
        Emit(Bin("+", Get(V("m"), "b"), CastExpr(Get(V("m"), "a"), i32))),
        Count("TOTAL"), AssignStmt("TOTAL", Bin("*", V("TOTAL"), N(2))),
        LetMutStmt("late", i32, NoExpr),
        IfStmt(Bin(">", V("n"), N(5)), <<AssignStmt("late", N(1))>>, <<AssignStmt("late", N(2))>>),
        ReturnStmt(Bin("+", V("TOTAL"), V("late")))>>)>>)

Texts == Program(<< >>, << >>, << >>,
                 <<StaticBuffer(<<"NAMES">>, str, 2, << <<3, 1>>, <<2>> >>),
                   StaticBuffer(<<"BYTES">>, u8, 4, <<5, 6>>)>>, <<
    Fn("last", <<Param("s", str)>>, i32, <<
        ReturnStmt(CastExpr(IndexExpr(V("s"), Bin("-", Do("len", <<V("s")>>), N(1))), i32))>>),
    Main(<<
        Emit(Do("last", <<StringExpr(<<1, 2, 3>>)>>)),
        Emit(Do("last", <<IndexExpr(V("NAMES"), N(0))>>)),
        Emit(CastExpr(IndexExpr(V("BYTES"), N(1)), i32)),
        ReturnStmt(Do("len", <<StringExpr(<<4, 4>>)>>))>>)>>)

(***************************************************************************)
(* Generics and modules                                                    *)
(***************************************************************************)
T == NamedType("T")
U == NamedType("U")
Pair == StructDecl("Pair", <<"T", "U">>, <<Field("a", T), Field("b", U)>>)
PairOf(t, u) == InstanceName("Pair", <<t, u>>)
\* Instances found through arguments and through the expected type, and made
\* while another instance is lowered.
Generics == Program(<<Pair>>, << >>, << >>, << >>, <<
    Function(<<"id">>, <<"T">>, <<Param("x", T)>>, T, <<Emit(N(1)), ReturnStmt(V("x"))>>),
    Function(<<"first">>, <<"T", "U">>, <<Param("p", PairOf(T, U))>>, T,
             <<ReturnStmt(Do("id", <<Get(V("p"), "a")>>))>>),
    Function(<<"pair">>, <<"T", "U">>, <<Param("x", T), Param("y", U)>>, PairOf(T, U), <<
        LetStmt("p", PairOf(T, U), StructLiteralExpr(NamedType("Pair"),
                                                     <<Init1("a", V("x")), Init1("b", V("y"))>>)),
        ReturnStmt(V("p"))>>),
    Main(<<
        Let("n", Do("get", << >>)),
        LetStmt("p", PairOf(u8, bool), Do("pair", <<CastExpr(N(5), u8), Bin(">", V("n"), N(0))>>)),
        LetStmt("q", PairOf(i32, u8), StructLiteralExpr(PairOf(i32, u8),
                    <<Init1("b", CastExpr(N(6), u8)), Init1("a", Bin("-", V("n"), N(3)))>>)),
        If(Do("id", <<Get(V("p"), "b")>>), <<Emit(N(2))>>),
        Emit(CastExpr(Do("first", <<V("p")>>), i32)),
        ReturnStmt(Bin("+", Do("first", <<V("q")>>), CastExpr(Get(V("q"), "b"), i32)))>>)>>)

\* One name in three modules; relative, absolute and imported paths.
Say2(path, n) == Function(path, << >>, << >>, i32, <<ReturnStmt(N(n))>>)
Modules == Module(<< >>, << >>,
    <<StaticScalar(<<"X">>, i32, 1), StaticScalar(<<"a", "X">>, i32, 2), StaticScalar(<<"a", "b", "X">>, i32, 3)>>,
    << >>,
    <<UseDecl(<<"a">>, <<"a", "b", "g">>), UseDecl(<<"c">>, <<"a", "b">>), UseDecl(<<"c">>, <<"a", "X">>)>>,
    <<ModuleDecl(<<"a">>, TRUE), ModuleDecl(<<"a", "b">>, TRUE), ModuleDecl(<<"c">>, TRUE)>>,
    Externs \o <<Say2(<<"f">>, 10), Say2(<<"a", "f">>, 20), Say2(<<"a", "b", "f">>, 30),
    Function(<<"a", "b", "g">>, << >>, << >>, i32, <<Count("X"), ReturnStmt(Bin("+", Do("f", << >>), V("X")))>>),
    Function(<<"a", "run">>, << >>, << >>, i32, <<
        Emit(Do("f", << >>)), Emit(Do("g", << >>)), Emit(CallExpr(<<"b", "f">>, << >>)), Emit(V("X")),
        ReturnStmt(CallExpr(<<"a", "b", "f">>, << >>))>>),
    Function(<<"c", "run">>, << >>, << >>, i32, <<
        Count("X"), Emit(CallExpr(<<"b", "g">>, << >>)), Emit(V("X")), ReturnStmt(Do("f", << >>))>>),
    Main(<<
        Emit(CallExpr(<<"a", "run">>, << >>)), Emit(CallExpr(<<"c", "run">>, << >>)),
        Emit(CallExpr(<<"a", "f">>, << >>)), ReturnStmt(Bin("+", Do("f", << >>), V("X")))>>)>>)

(***************************************************************************)
(* The instance                                                            *)
(***************************************************************************)
MCInputs == {-1, 0, 2}

Exits == {"return", "break", "continue", "end"}
WaysNames == [outer : Exits, inner : Exits]

MCSources ==
    [defers |-> Defers, loops |-> Loops, tries |-> Tries, logic |-> Logic, arith |-> Numerics, casts |-> Casts,
     unsigned |-> UnsignedCasts, calls |-> Calls, recursion |-> Recursion, structs |-> Structs,
     matches |-> Matches, pointers |-> Pointers, texts |-> Texts, generics |-> Generics,
     modules |-> Modules]
    @@ [w \in {"ways-" \o x.outer \o "-" \o x.inner : x \in WaysNames} |->
          LET x == CHOOSE y \in WaysNames : w = "ways-" \o y.outer \o "-" \o y.inner
          IN Ways(x.outer, x.inner)]

\* Targets that get a program right; README section 5 says why not the others.
Targets(source) ==
    CASE source = "casts" -> {"x86_64", "i386"}
      [] source = "structs" -> {"x86_64", "arm64"}
      [] OTHER -> All

MCPrograms == UNION {[source : {s}, target : Targets(s)] : s \in DOMAIN MCSources}

\* What analysis does not accept is not compiled.
MCCompile(p) ==
    LET lowered == [Lower!LowerModule(MCSources[p.source]) EXCEPT
                      !.ok = @ /\ Sema!Accepts(MCSources[p.source], FALSE)]
    IN IF p.target = "arm64" THEN Arm64!Arm64Image(lowered) ELSE X86!X86Image(p.target, lowered)

MCMeaningOf(source, n) == LET meaning == Reference!Meaning(MCSources[source], n) IN meaning

=============================================================================
