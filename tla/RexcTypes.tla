----------------------------- MODULE RexcTypes -----------------------------
(***************************************************************************)
(* The type model shared by the passes of rexc: include/rexc/types.hpp and *)
(* types.cpp.  A type is a record with the fields the code's PrimitiveType *)
(* uses for its kind.  The code spells type names as text ("*T",           *)
(* "Box<i32>", "(i32, bool)"); here a name is the record its parse yields, *)
(* and a mangled symbol is the sequence of identifiers its text is joined  *)
(* from, so that two symbols are equal when their texts are.               *)
(***************************************************************************)
EXTENDS Integers, Sequences, TLC

Largest(S) == CHOOSE x \in S : \A y \in S : y <= x

IntegerType(width, signed) ==
    [kind |-> IF signed THEN "SignedInteger" ELSE "UnsignedInteger", bits |-> width]

I8 == IntegerType(8, TRUE)
U8 == IntegerType(8, FALSE)
I16 == IntegerType(16, TRUE)
I32 == IntegerType(32, TRUE)
U32 == IntegerType(32, FALSE)
I64 == IntegerType(64, TRUE)
BoolType == [kind |-> "Bool", bits |-> 0]
StrType == [kind |-> "Str", bits |-> 0]
PointerTo(t) == [kind |-> "Pointer", bits |-> 0, pointee |-> t]
ResultOf(t) == [kind |-> "Result", bits |-> 0, pointee |-> t]

\* inst: << >>, or <<template, arguments>> while an instance is still spelled
\* with its type variables and has no layout ("Box<T>").
UserStructType(name, width) ==
    [kind |-> "UserStruct", bits |-> width, name |-> name, inst |-> << >>]
UserEnumType(name, width) == [kind |-> "UserEnum", bits |-> width, name |-> name]

IsInteger(t) == t.kind \in {"SignedInteger", "UnsignedInteger"}
IsSigned(t) == t.kind = "SignedInteger"
IsUnsigned(t) == t.kind = "UnsignedInteger"
IsPointer(t) == t.kind = "Pointer"
IsTuple(t) == t.kind = "Tuple"
IsStruct(t) == t.kind = "UserStruct"
IsEnum(t) == t.kind = "UserEnum"
IsAggregate(t) == t.kind \in {"UserStruct", "UserEnum", "Tuple"}

\* A type variable is a user struct named after the generic parameter.
TypeVariable(name) == UserStructType(<<name>>, 0)

RECURSIVE IsValid(_)
IsValid(t) ==
    CASE IsInteger(t) -> t.bits \in {8, 16, 32, 64}
      [] t.kind \in {"Bool", "Str"} -> t.bits = 0
      [] t.kind \in {"Pointer", "Result"} -> t.bits = 0 /\ IsValid(t.pointee)
      [] IsTuple(t) -> /\ Len(t.elements) >= 2
                       /\ t.bits > 0
                       /\ \A i \in DOMAIN t.elements : IsValid(t.elements[i])
      [] OTHER -> t.bits >= 0

AlignUp(value, alignment) ==
    IF alignment <= 1 THEN value
                      ELSE ((value + alignment - 1) \div alignment) * alignment

\* Fields one after another, each at its alignment.
Layout(sizes, alignments) ==
    LET end[i \in 0..Len(sizes)] ==
            IF i = 0 THEN 0 ELSE AlignUp(end[i - 1], alignments[i]) + sizes[i]
        widest == Largest({1} \cup {alignments[i] : i \in DOMAIN alignments})
    IN [offsets |-> [i \in DOMAIN sizes |-> AlignUp(end[i - 1], alignments[i])],
        alignment |-> widest,
        size |-> AlignUp(end[Len(sizes)], widest)]

TypeSize(t) ==
    CASE t.kind \in {"SignedInteger", "UnsignedInteger"} \/ IsAggregate(t) -> t.bits \div 8
      [] t.kind = "Bool" -> 1
      [] OTHER -> 8

RECURSIVE TypeAlignment(_)
TypeAlignment(t) ==
    IF IsTuple(t)
    THEN Largest({1} \cup {TypeAlignment(t.elements[i]) : i \in DOMAIN t.elements})
    ELSE Largest({1, TypeSize(t)})

LayoutTuple(types) ==
    Layout([i \in DOMAIN types |-> TypeSize(types[i])],
           [i \in DOMAIN types |-> TypeAlignment(types[i])])

TupleType(types) ==
    [kind |-> "Tuple", bits |-> 8 * LayoutTuple(types).size, elements |-> types]

TagSize == 4

\* The payload of every variant starts at one offset behind the tag.
LayoutEnum(payloads) ==
    LET variant == [i \in DOMAIN payloads |-> LayoutTuple(payloads[i])]
        widest == Largest({1} \cup {variant[i].alignment : i \in DOMAIN payloads})
        start == AlignUp(TagSize, widest)
        alignment == Largest({TagSize, widest})
    IN [variants |-> variant, start |-> start, alignment |-> alignment,
        size |-> AlignUp(start + Largest({0} \cup {variant[i].size : i \in DOMAIN payloads}),
                         alignment)]

(***************************************************************************)
(* Generics.  A binding is a function from type variables to types.        *)
(***************************************************************************)
Unbound == << >>

Bind(bindings, v, t) ==
    [x \in DOMAIN bindings \cup {v} |-> IF x \in DOMAIN bindings THEN bindings[x] ELSE t]

RECURSIVE Unify(_, _, _, _, _)
RECURSIVE UnifyAll(_, _, _, _, _)

\* [ok, bindings]: the pattern matched against a type.  The name of a monomorph
\* is taken back to its template through the table of struct layouts, and
\* unified argument by argument.
Unify(structs, pattern, actual, generics, bindings) ==
    LET answer(b) == [ok |-> b, bindings |-> bindings]
        variable == pattern.name[1]
    IN CASE IsStruct(pattern) /\ \E v \in generics : pattern = TypeVariable(v) ->
              IF variable \in DOMAIN bindings
              THEN answer(bindings[variable] = actual)
              ELSE [ok |-> TRUE, bindings |-> Bind(bindings, variable, actual)]
         [] pattern.kind # actual.kind -> answer(FALSE)
         [] pattern.kind \in {"Pointer", "Result"} ->
              Unify(structs, pattern.pointee, actual.pointee, generics, bindings)
         [] IsTuple(pattern) ->
              UnifyAll(structs, pattern.elements, actual.elements, generics, bindings)
         [] IsStruct(pattern) /\ pattern.name # actual.name ->
              IF pattern.inst = << >> \/ actual.name \notin DOMAIN structs THEN answer(FALSE)
              ELSE IF structs[actual.name].inst = << >> THEN answer(FALSE)
              ELSE IF structs[actual.name].inst[1] # pattern.inst[1] THEN answer(FALSE)
              ELSE UnifyAll(structs, pattern.inst[2], structs[actual.name].inst[2],
                            generics, bindings)
         [] IsStruct(pattern) \/ IsEnum(pattern) -> answer(pattern.name = actual.name)
         [] OTHER -> answer(pattern = actual)

UnifyAll(structs, patterns, actuals, generics, bindings) ==
    IF Len(patterns) # Len(actuals) THEN [ok |-> FALSE, bindings |-> bindings]
    ELSE IF patterns = << >> THEN [ok |-> TRUE, bindings |-> bindings]
    ELSE LET first == Unify(structs, Head(patterns), Head(actuals), generics, bindings)
         IN IF first.ok
            THEN UnifyAll(structs, Tail(patterns), Tail(actuals), generics, first.bindings)
            ELSE first

\* The identifiers of a type's text in a symbol: punctuation is dropped or
\* becomes an underscore, a star becomes the letter p.
RECURSIVE MangleType(_)
RECURSIVE MangleTypes(_)
MangleType(t) ==
    CASE IsInteger(t) -> <<IF IsSigned(t) THEN "i" ELSE "u", ToString(t.bits)>>
      [] t.kind = "Bool" -> <<"bool">>
      [] t.kind = "Str" -> <<"str">>
      [] IsPointer(t) -> <<"p">> \o MangleType(t.pointee)
      [] t.kind = "Result" -> <<"Result_">> \o MangleType(t.pointee)
      [] IsTuple(t) -> MangleTypes(t.elements)
      [] OTHER -> t.name
MangleTypes(types) ==
    IF Len(types) = 1 THEN MangleType(types[1])
                      ELSE MangleType(Head(types)) \o <<"__">> \o MangleTypes(Tail(types))

RECURSIVE MangleSuffix(_, _)
MangleSuffix(parameters, bindings) ==
    IF parameters = << >> THEN << >>
    ELSE <<"__">> \o MangleType(bindings[Head(parameters)])
                  \o MangleSuffix(Tail(parameters), bindings)

AngleType(base, args) ==
    [UserStructType(<<base, "<">> \o MangleTypes(args) \o <<">">>, 0)
        EXCEPT !.inst = <<base, args>>]

\* An instance stays in the angle form, without a width; so does a tuple keep
\* the width its pattern had.
RECURSIVE Substitute(_, _)
Substitute(t, bindings) ==
    CASE IsStruct(t) /\ Len(t.name) = 1 /\ t.name[1] \in DOMAIN bindings -> bindings[t.name[1]]
      [] IsStruct(t) /\ t.inst # << >> ->
           AngleType(t.inst[1], [i \in DOMAIN t.inst[2] |-> Substitute(t.inst[2][i], bindings)])
      [] t.kind \in {"Pointer", "Result"} -> [t EXCEPT !.pointee = Substitute(@, bindings)]
      [] IsTuple(t) ->
           [t EXCEPT !.elements = [i \in DOMAIN @ |-> Substitute(@[i], bindings)]]
      [] OTHER -> t

IsI386Supported(t) == IsValid(t) /\ ~(IsInteger(t) /\ t.bits = 64)

=============================================================================
