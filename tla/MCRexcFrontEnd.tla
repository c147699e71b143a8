-------------------------- MODULE MCRexcFrontEnd --------------------------
(***************************************************************************)
(* Themes for RexcFrontEnd: each has the statements that meet one part of  *)
(* the analysis, and calls its open function `probe` from `main`.  Extern  *)
(* functions are called through safe ones, as the command line demands.    *)
(***************************************************************************)
EXTENDS RexcFrontEnd

Typing == INSTANCE RexcTyping
\* A byte of 3 bits keeps a 64-bit number within TLC's integers.
Reference == INSTANCE RexcMeaning WITH ByteWidth <- 3

i32 == TypeOf(I32)
u8 == TypeOf(U8)
i8 == TypeOf(I8)
i64 == TypeOf(I64)
bool == TypeOf(BoolType)
str == TypeOf(StrType)
result == TypeOf(ResultOf(I32))

N(n) == IntegerExpr(n)
V(x) == NameExpr(x)
B(b) == BoolExpr(b)
Bin(op, l, r) == BinaryExpr(op, l, r)
Un(op, e) == UnaryExpr(op, e)
Do(f, args) == CallExpr(<<f>>, args)
At(path, args) == CallExpr(path, args)
Show(e) == ExprStmt(Do("show", <<e>>))
Emit(e) == ExprStmt(Do("emit", <<e>>))
Let(x, type, e) == LetStmt(x, type, e)
Var(x, type, e) == LetMutStmt(x, type, e)
Fn(name, params, ret, body) == Function(<<name>>, << >>, params, ret, body)
Field(x, type) == [name |-> x, type |-> type]
Give(x, e) == [name |-> x, value |-> e]
Get(e, x) == FieldAccessExpr(e, x, 0)
Part(e, k) == FieldAccessExpr(e, "", k)
Count(s, t) == 1..(Len(s) * Len(t))
\* Make of every member of s with every member of t.
Every(Make(_, _), s, t) ==
    [k \in Count(s, t) |-> Make(s[1 + ((k - 1) % Len(s))], t[1 + ((k - 1) \div Len(s))])]

Runtime == <<
    ExternFunction("get", << >>, i32), ExternFunction("emit", <<Param("n", i32)>>, i32),
    ExternFunction("result_i32_ok", <<Param("n", i32)>>, result),
    ExternFunction("result_i32_err", <<Param("n", i32)>>, result),
    ExternFunction("result_i32_is_err", <<Param("r", result)>>, bool),
    ExternFunction("result_i32_value_or", <<Param("r", result), Param("n", i32)>>, i32),
    Fn("show", <<Param("n", i32)>>, i32, <<UnsafeBlockStmt(<<Emit(V("n"))>>), ReturnStmt(V("n"))>>),
    Fn("input", << >>, i32, <<Var("n", i32, N(0)),
        UnsafeBlockStmt(<<AssignStmt("n", Do("get", << >>))>>), ReturnStmt(V("n"))>>)>>
Main(call) == Fn("main", << >>, i32, <<ReturnStmt(call)>>)
Probe == Fn("probe", <<Param("n", i32)>>, i32, << >>)
ProbeInput == Do("probe", <<Do("input", << >>)>>)

ThemeOf(module, function, before, after, simple, heads, limit) ==
    [module |-> module, function |-> function, before |-> before, after |-> after,
     simple |-> simple, heads |-> heads, limit |-> limit]

(***************************************************************************)
(* Assignment along the ways through a body                                *)
(***************************************************************************)
Answer == EnumDecl("Answer", <<[name |-> "No", payloads |-> << >>], [name |-> "Yes", payloads |-> <<i32>>]>>)
Flow == Module(<< >>, <<Answer>>, << >>, << >>, << >>, << >>, Runtime \o <<Main(ProbeInput),
    Fn("answer", <<Param("n", i32)>>, NamedType("Answer"), <<
        IfStmt(Bin("<", V("n"), N(1)), <<ReturnStmt(At(<<"No">>, << >>))>>, << >>),
        ReturnStmt(At(<<"Yes">>, <<V("n")>>))>>)>>)
Before == <<Var("x", i32, NoExpr), Var("k", i32, N(0))>>
After == <<Show(V("k")), ReturnStmt(V("k"))>>

SetX == AssignStmt("x", N(1))
CountX == ExprStmt(Un("post++", V("x")))
DeferX == DeferStmt(Do("show", <<V("x")>>))
ReturnX == ReturnStmt(V("x"))

Again == Bin("<", Un("pre++", V("k")), N(3))
Positive == Bin(">", V("n"), N(0))
IfHead == IfStmt(Positive, << >>, << >>)
WhileHead == WhileStmt(Again, << >>)
ForHead == ForStmt(Var("j", i32, N(0)), Again, AssignStmt("x", N(2)), << >>)
Arm(pattern) == MatchArm(<<pattern>>, << >>)
MatchHead == MatchStmt(V("n"), <<Arm(IntegerPattern(0)), Arm(DefaultPattern)>>)
EnumHead == MatchStmt(Do("answer", <<V("n")>>),
                      <<Arm(VariantPattern(<<"No">>, << >>)), Arm(VariantPattern(<<"Yes">>, <<"y">>))>>)
OpenHead == MatchStmt(V("n"), <<Arm(IntegerPattern(0)), Arm(IntegerPattern(2))>>)
UnsafeHead == UnsafeBlockStmt(<< >>)

FlowTheme(simple, heads, limit) == ThemeOf(Flow, Probe, Before, After, simple, heads, limit)

(***************************************************************************)
(* Types: every operator over operands of every type, assigned to a place  *)
(* of every type                                                           *)
(***************************************************************************)
Mixed == StructDecl("Mixed", << >>, <<Field("a", u8), Field("b", i32)>>)
\* A struct in a struct: one whose alignment is its size (README, section 5).
One == StructDecl("One", << >>, <<Field("v", i32)>>)
Wide == StructDecl("Wide", << >>, <<Field("a", i8), Field("one", NamedType("One")), Field("z", bool)>>)
MixedOf(a, b) == StructLiteralExpr(NamedType("Mixed"), <<Give("b", b), Give("a", a)>>)
Typed1 == Module(<<Mixed, One, Wide>>, <<Answer>>, <<StaticScalar(<<"S">>, i32, 4)>>,
    <<StaticBuffer(<<"W">>, i32, 2, <<1, 2>>), StaticBuffer(<<"BYTES">>, u8, 2, <<5>>)>>, << >>, << >>,
    Runtime \o <<Main(ProbeInput)>>)
Places == <<Var("a", i8, N(1)), Var("b", u8, N(3)), Var("w", i64, N(2)), Var("p", bool, B(TRUE)),
            Var("s", str, StringExpr(<<1, 2>>)), Var("c", i32, N(1)),
            Var("q", PointerName(i32), Un("&", V("c"))),
            Var("t", TupleName(<<i32, bool>>), TupleExpr(<<N(1), B(TRUE)>>)),
            Var("m", NamedType("Mixed"), MixedOf(N(1), N(2))),
            Var("e", NamedType("Answer"), At(<<"No">>, << >>))>>
PlaceNames == <<"a", "b", "w", "p", "s", "c", "q", "t", "m", "e">>
Atoms == <<V("a"), V("w"), V("p"), V("s"), V("c"), V("q"), N(5), N(200), Un("-", N(7)), B(TRUE), V("S"), V("W")>>
Numbers == <<V("a"), V("b"), V("w"), V("c"), N(5), Un("-", N(7))>>
Composed ==
    <<Part(V("t"), 1), Part(V("t"), 2), Part(V("t"), 3), Get(V("m"), "a"), Get(V("m"), "b"), Get(V("c"), "b"),
      IndexExpr(V("s"), V("c")), IndexExpr(V("W"), N(1)), IndexExpr(V("BYTES"), V("a")), IndexExpr(V("c"), N(0)),
      Do("len", <<V("s")>>), Do("len", <<V("c")>>), Do("show", <<V("c")>>), Do("show", <<N(3)>>), Do("show", <<V("a")>>),
      Un("-", V("b")), Un("-", V("a")), Un("!", V("p")), Un("!", V("c")), Un("post++", V("a")), Un("pre--", V("p")),
      Un("&", V("c")), Un("&", V("a")), V("t"), V("m"), V("e"),
      TupleExpr(<<N(4), V("p")>>), TupleExpr(<<V("p"), N(4)>>), TupleExpr(<<V("c"), Bin("<", V("a"), N(3))>>),
      MixedOf(N(9), V("c")), MixedOf(V("c"), N(9)), MixedOf(N(300), N(1)), MixedOf(V("b"), Bin("+", N(1), V("c"))),
      At(<<"Yes">>, <<V("c")>>), At(<<"Yes">>, <<V("p")>>), At(<<"Answer", "No">>, << >>), At(<<"Maybe">>, << >>)>>
    \o Every(CastExpr, <<V("a"), V("p"), V("q"), V("s"), V("c"), N(300)>>, <<i8, i64, bool, str>>)
Conditions == <<V("p"), V("c"), Bin("<", V("a"), N(3)), Bin("&&", V("p"), Bin("==", N(2), V("w"))),
                Un("!", Bin(">=", V("c"), V("b"))), Bin("||", V("c"), V("p"))>>

TypeHeads ==
    <<MatchStmt(V("a"), <<Arm(IntegerPattern(5)), Arm(DefaultPattern)>>),
      MatchStmt(V("a"), <<Arm(IntegerPattern(-128)), Arm(IntegerPattern(128))>>),
      MatchStmt(V("p"), <<Arm(BoolPattern(TRUE))>>), MatchStmt(V("c"), <<Arm(BoolPattern(TRUE))>>),
      MatchStmt(V("m"), <<Arm(StructPattern("Mixed", <<"u", "v">>))>>),
      MatchStmt(V("m"), <<Arm(StructPattern("Mixed", <<"u">>))>>),
      MatchStmt(V("e"), <<Arm(VariantPattern(<<"Yes">>, <<"v">>)), Arm(DefaultPattern)>>),
      MatchStmt(V("e"), <<Arm(VariantPattern(<<"Yes">>, <<"v">>))>>)>>
    \o [i \in DOMAIN Conditions |-> IfStmt(Conditions[i], << >>, << >>)]

Assigned(names, values) == Every(AssignStmt, names, values)

(***************************************************************************)
(* Generics: instances from arguments, from the expected type, and inside  *)
(* of other instances                                                      *)
(***************************************************************************)
T == NamedType("T")
U == NamedType("U")
Box == StructDecl("Box", <<"T">>, <<Field("value", T)>>)
Pair == StructDecl("Pair", <<"T", "U">>, <<Field("a", T), Field("b", U)>>)
BoxOf(t) == InstanceName("Box", <<t>>)
PairOf(t, u) == InstanceName("Pair", <<t, u>>)
Boxed(type, e) == StructLiteralExpr(type, <<Give("value", e)>>)
Paired(type, e, f) == StructLiteralExpr(type, <<Give("a", e), Give("b", f)>>)
Holder == StructDecl("Holder", << >>, <<Field("h", u8), Field("box", BoxOf(i32))>>)

Templates == Module(<<Box, Pair, Holder>>, << >>, << >>, << >>, << >>, << >>, Runtime \o <<Main(ProbeInput),
    Function(<<"id">>, <<"T">>, <<Param("x", T)>>, T, <<ReturnStmt(V("x"))>>),
    Function(<<"box">>, <<"T">>, <<Param("x", T)>>, BoxOf(T), <<
        LetStmt("b", BoxOf(T), Boxed(NamedType("Box"), Do("id", <<V("x")>>))), ReturnStmt(V("b"))>>),
    Function(<<"open">>, <<"T">>, <<Param("b", BoxOf(T))>>, T, <<ReturnStmt(Get(V("b"), "value"))>>),
    Function(<<"pair">>, <<"T", "U">>, <<Param("x", T), Param("y", U)>>, PairOf(T, U), <<
        ReturnStmt(Paired(NamedType("Pair"), V("x"), V("y")))>>),
    Function(<<"second">>, <<"T", "U">>, <<Param("p", PairOf(T, U))>>, U,
             <<ReturnStmt(Get(V("p"), "b"))>>),
    Function(<<"same">>, <<"T">>, <<Param("x", T), Param("y", T)>>, T, <<ReturnStmt(V("y"))>>)>>)
Instances == <<Var("c", i32, V("n")), Var("b", u8, N(3)), Var("p", bool, B(TRUE)),
               Var("bc", BoxOf(i32), Boxed(NamedType("Box"), N(3))),
               Var("bp", BoxOf(bool), Boxed(BoxOf(bool), B(FALSE))),
               Var("cp", PairOf(i32, bool), Do("pair", <<V("n"), B(TRUE)>>)),
               Var("h", NamedType("Holder"), StructLiteralExpr(NamedType("Holder"),
                   <<Give("box", Boxed(NamedType("Box"), N(8))), Give("h", N(2))>>))>>
InstanceNames == <<"c", "b", "p", "bc", "bp", "cp", "h">>
Values == <<V("c"), V("b"), V("p"), N(6), V("bc"), V("bp"), V("cp")>>
Some == <<V("c"), V("p"), V("b"), N(6)>>
GenericCalls ==
    Every(LAMBDA f, x : Do(f, <<x>>), <<"id", "box", "open", "second">>, Values)
    \o Every(LAMBDA x, y : Do("pair", <<x, y>>), Some, Some)
    \o Every(LAMBDA x, y : Do("same", <<x, y>>), Some, Some)
    \o Every(Boxed, <<NamedType("Box"), BoxOf(i32), BoxOf(bool), NamedType("Pair")>>, Some)
    \o <<Paired(NamedType("Pair"), V("c"), V("p")), Paired(PairOf(i32, bool), V("c"), V("p")),
         Paired(PairOf(bool, i32), V("c"), V("p")),
         Get(V("h"), "box"), Get(Get(V("h"), "box"), "value"), Get(V("cp"), "b"), Do("open", <<Get(V("h"), "box")>>),
         Do("open", <<Do("box", <<V("p")>>)>>), Do("second", <<Do("pair", <<V("p"), V("b")>>)>>),
         Do("box", <<Do("id", <<N(300)>>)>>), Do("id", <<Do("box", <<V("b")>>)>>)>>

(***************************************************************************)
(* Raw pointers and extern functions                                       *)
(***************************************************************************)
Raw == Module(<<Mixed>>, << >>, << >>, << >>, << >>, << >>,
    Runtime \o <<Main(ProbeInput),
    UnsafeFunction(Fn("peek", <<Param("p", PointerName(i32))>>, i32, <<
        Emit(N(3)), ReturnStmt(Un("*", V("p")))>>))>>)
RawBefore == <<Var("c", i32, V("n")), Var("q", PointerName(i32), Un("&", V("c"))),
               Var("m", NamedType("Mixed"), MixedOf(N(1), N(2))),
               Var("r", PointerName(NamedType("Mixed")), Un("&", V("m"))), Var("k", i32, N(0))>>
RawSimple == <<IndirectAssignStmt(V("q"), N(5)), FieldAssignStmt(V("r"), "b", N(6)), Emit(V("c")),
               AssignStmt("c", Un("*", V("q"))), DeferStmt(Do("emit", <<N(1)>>)),
               Show(Bin("+", N(1), Get(Un("*", V("r")), "b"))), ReturnStmt(Un("*", V("q"))), Show(V("c"))>>
RawHeads == <<UnsafeHead, IfHead, WhileHead, IfStmt(Bin("<", Un("*", V("q")), N(3)), << >>, << >>),
              ForStmt(IndirectAssignStmt(V("q"), N(1)), Again, Show(N(2)), << >>)>>

(***************************************************************************)
(* Errors carried upwards                                                  *)
(***************************************************************************)
Tries == Module(<< >>, << >>, << >>, << >>, << >>, << >>, Runtime \o <<
    Fn("ok", <<Param("n", i32)>>, result, <<UnsafeBlockStmt(<<ReturnStmt(Do("result_i32_ok", <<V("n")>>))>>)>>),
    Fn("err", <<Param("n", i32)>>, result, <<UnsafeBlockStmt(<<ReturnStmt(Do("result_i32_err", <<V("n")>>))>>)>>),
    Fn("main", << >>, i32, <<UnsafeBlockStmt(<<
        ReturnStmt(Do("result_i32_value_or", <<ProbeInput, N(77)>>))>>)>>)>>)
TryProbe == Fn("probe", <<Param("n", i32)>>, result, << >>)
TrySimple == <<AssignStmt("x", TryExpr(Do("ok", <<V("n")>>))), AssignStmt("x", TryExpr(Do("err", <<V("k")>>))),
               Show(V("x")), ReturnStmt(Do("ok", <<V("x")>>)), ReturnStmt(TryExpr(Do("ok", <<N(1)>>))),
               DeferStmt(Do("show", <<V("k")>>)), BreakStmt,
               ReturnStmt(Do("ok", <<TryExpr(Do("err", <<N(2)>>))>>))>>

(***************************************************************************)
(* Modules: a and a::b with a function, a static and an import each, and   *)
(* every choice of what of it is public; the open function is in one of    *)
(* four modules                                                            *)
(***************************************************************************)
Where == <<<< >>, <<"a">>, <<"a", "b">>, <<"c">> >>
Bit(choice, k) == (choice \div 2 ^ k) % 2 = 0
Answers1(path, n, public) ==
    LET f == Function(path, << >>, << >>, i32, <<ReturnStmt(N(n))>>)
    IN IF public THEN f ELSE PrivateFunction(f)
Number(path, n, public) == IF public THEN StaticScalar(path, i32, n) ELSE Private(StaticScalar(path, i32, n))
Hidden(w, choice) ==
    Module(<< >>, << >>,
        <<Number(<<"X">>, 1, TRUE), Number(<<"a", "Y">>, 2, Bit(choice, 0)), Number(<<"a", "b", "X">>, 3, Bit(choice, 1))>>,
        << >>,
        IF Bit(choice, 4) THEN <<UseDecl(Where[w], <<"a", "b", "g">>), UseDecl(Where[w], <<"a", "Y">>)>>
                          ELSE <<UseDecl(Where[w], <<"a", "b">>)>>,
        <<ModuleDecl(<<"a">>, Bit(choice, 2)), ModuleDecl(<<"a", "b">>, Bit(choice, 3)), ModuleDecl(<<"c">>, TRUE)>>,
        Runtime \o <<Main(At(Where[w] \o <<"probe">>, <<N(1)>>)),
        Answers1(<<"f">>, 10, TRUE), Answers1(<<"a", "f">>, 20, Bit(choice, 0)),
        Answers1(<<"a", "b", "g">>, 30, Bit(choice, 1)), Answers1(<<"c", "g">>, 40, FALSE)>>)
PathCalls ==
    [i \in 1..6 |-> Show(At(<< <<"f">>, <<"g">>, <<"a", "f">>, <<"b", "g">>, <<"a", "b", "g">>, <<"c", "g">> >>[i], << >>))]
    \o <<Show(V("X")), Show(V("Y")), AssignStmt("X", N(5))>>
ProbeIn(w) == Function(Where[w] \o <<"probe">>, << >>, <<Param("n", i32)>>, i32, << >>)

ModuleNames == {"modules-" \o ToString(i) : i \in 0..127}
ModuleTheme(i) ==
    ThemeOf(Hidden(1 + (i % 4), i \div 4), ProbeIn(1 + (i % 4)), << >>, <<ReturnStmt(N(0))>>, PathCalls, << >>, 1)

(***************************************************************************)
(* The instance                                                            *)
(***************************************************************************)
Reassigned == Assigned(InstanceNames, GenericCalls)
Retyped ==
    Assigned(PlaceNames, Atoms \o Composed
        \o Every(LAMBDA x, y : Bin("+", x, y), Atoms, Numbers)
        \o Every(LAMBDA x, y : Bin("<", x, y), Atoms, Numbers)
        \o Every(LAMBDA x, y : Bin("&&", x, y), Conditions, Conditions))

MCThemes ==
    [name \in ModuleNames \cup {"flow", "turns", "arms", "fall", "scopes", "types", "typed bodies", "generics", "raw", "tries"} |->
       CASE name = "flow" -> FlowTheme(<<SetX, CountX, DeferX, BreakStmt, ContinueStmt, ReturnX, ReturnStmt(N(7))>>,
                                      <<IfHead, WhileHead, ForHead, MatchHead, EnumHead>>, 3)
         [] name = "turns" -> FlowTheme(<<SetX, CountX, BreakStmt>>, <<IfHead, WhileHead>>, 4)
         [] name = "arms" -> FlowTheme(<<SetX, CountX, ReturnStmt(N(7))>>, <<EnumHead>>, 4)
         [] name = "fall" -> FlowTheme(<<SetX, CountX>>, <<OpenHead>>, 4)
         [] name = "scopes" ->
              FlowTheme(<<Let("y", i32, N(4)), Show(V("y")), ReturnStmt(V("y"))>>, <<IfHead, WhileHead, EnumHead>>, 3)
         [] name = "types" -> ThemeOf(Typed1, Probe, Places, <<ReturnStmt(V("c"))>>, Retyped, TypeHeads, 1)
         [] name = "typed bodies" ->
              ThemeOf(Typed1, Probe, Places, <<ReturnStmt(V("c"))>>,
                      Assigned(<<"c", "b">>, <<V("u"), V("v"), N(1)>>), TypeHeads, 2)
         [] name = "generics" -> ThemeOf(Templates, Probe, Instances, <<ReturnStmt(V("c"))>>, Reassigned, << >>, 1)
         [] name = "raw" -> ThemeOf(Raw, Probe, RawBefore, <<ReturnStmt(V("c"))>>, RawSimple, RawHeads, 3)
         [] name = "tries" ->
              ThemeOf(Tries, TryProbe, Before, <<ReturnStmt(Do("ok", <<V("k")>>))>>, TrySimple,
                      <<IfHead, WhileStmt(Bin("<", Un("post++", V("k")), N(2)), << >>)>>, 3)
         [] OTHER -> ModuleTheme(CHOOSE i \in 0..127 : name = "modules-" \o ToString(i))]

MCAnswers == {0, 1}

MCAnalyzed(m) == LET analysis == Analyze(m, TRUE) IN analysis
MCLower(m) == LET ir == Lowering!LowerModule(m) IN ir
MCValuesFit(ir) == LET typed == Typing!WellTypedModule(ir) IN typed
MCMeaningOf(m, answer) == LET meaning == Reference!Meaning(m, answer) IN meaning

=============================================================================
