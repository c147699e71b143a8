------------------------------ MODULE RexcAst ------------------------------
(***************************************************************************)
(* The source-level tree of rexc (include/rexc/ast.hpp) as records, and    *)
(* the type names it carries.  What only diagnostics use, the source       *)
(* locations, is left out.  A path is a sequence of identifiers.           *)
(***************************************************************************)
EXTENDS Integers, Sequences

\* Type names: a type, a name to look up, or a form around other names.
TypeOf(t) == [form |-> "type", type |-> t]
NamedType(name) == [form |-> "name", name |-> name]
PointerName(n) == [form |-> "pointer", of |-> n]
TupleName(ns) == [form |-> "tuple", of |-> ns]
InstanceName(base, args) == [form |-> "instance", name |-> base, of |-> args]

IntegerExpr(n) == [kind |-> "Integer", value |-> n]
BoolExpr(b) == [kind |-> "Bool", value |-> b]
StringExpr(s) == [kind |-> "String", value |-> s]
NameExpr(x) == [kind |-> "Name", name |-> x]
UnaryExpr(op, e) == [kind |-> "Unary", op |-> op, operand |-> e]
BinaryExpr(op, l, r) == [kind |-> "Binary", op |-> op, lhs |-> l, rhs |-> r]
CastExpr(e, target) == [kind |-> "Cast", value |-> e, target |-> target]
CallExpr(path, args) == [kind |-> "Call", callee |-> path, arguments |-> args]
StructLiteralExpr(type, fields) ==
    [kind |-> "StructLiteral", type |-> type, fields |-> fields]
TupleExpr(es) == [kind |-> "Tuple", elements |-> es]
\* field: a name, or for a tuple its position; which of the two is base's type's matter.
FieldAccessExpr(e, field, index) ==
    [kind |-> "FieldAccess", base |-> e, field |-> field, index |-> index]
IndexExpr(e, i) == [kind |-> "Index", base |-> e, index |-> i]
TryExpr(e) == [kind |-> "Try", operand |-> e]

NoExpr == [kind |-> "None"]

LetStmt(x, type, e) ==
    [kind |-> "Let", name |-> x, type |-> type, value |-> e, mutable |-> FALSE]
LetMutStmt(x, type, e) == [LetStmt(x, type, e) EXCEPT !.mutable = TRUE]
AssignStmt(x, e) == [kind |-> "Assign", name |-> x, value |-> e]
IndirectAssignStmt(p, e) == [kind |-> "IndirectAssign", target |-> p, value |-> e]
FieldAssignStmt(p, field, e) ==
    [kind |-> "FieldAssign", base |-> p, field |-> field, value |-> e]
ExprStmt(e) == [kind |-> "Expr", value |-> e]
ReturnStmt(e) == [kind |-> "Return", value |-> e]
IfStmt(c, then, else) == [kind |-> "If", condition |-> c, then |-> then, else |-> else]
MatchStmt(e, arms) == [kind |-> "Match", value |-> e, arms |-> arms]
WhileStmt(c, body) == [kind |-> "While", condition |-> c, body |-> body]
ForStmt(init, c, inc, body) ==
    [kind |-> "For", initializer |-> init, condition |-> c, increment |-> inc, body |-> body]
BreakStmt == [kind |-> "Break"]
ContinueStmt == [kind |-> "Continue"]
UnsafeBlockStmt(body) == [kind |-> "UnsafeBlock", body |-> body]
DeferStmt(call) == [kind |-> "Defer", call |-> call]

\* Patterns; a binding named "_" binds nothing.
MatchArm(patterns, body) == [patterns |-> patterns, body |-> body]
DefaultPattern == [kind |-> "Default", bindings |-> << >>]
IntegerPattern(n) == [kind |-> "Integer", value |-> n, bindings |-> << >>]
BoolPattern(b) == [kind |-> "Bool", value |-> b, bindings |-> << >>]
VariantPattern(path, xs) == [kind |-> "Variant", path |-> path, bindings |-> xs]
StructPattern(name, xs) == [kind |-> "Struct", path |-> <<name>>, bindings |-> xs]

Param(x, type) == [name |-> x, type |-> type]
Function(path, generics, params, ret, body) ==
    [module |-> SubSeq(path, 1, Len(path) - 1), name |-> path[Len(path)],
     generics |-> generics, parameters |-> params, ret |-> ret, body |-> body,
     public |-> TRUE, unsafe |-> FALSE, extern |-> FALSE]
PrivateFunction(f) == [f EXCEPT !.public = FALSE]
UnsafeFunction(f) == [f EXCEPT !.unsafe = TRUE]
ExternFunction(name, params, ret) ==
    [Function(<<name>>, << >>, params, ret, << >>) EXCEPT !.extern = TRUE]
StructDecl(name, generics, fields) ==
    [name |-> name, generics |-> generics, fields |-> fields]
\* variants: a sequence of [name, payloads].
EnumDecl(name, variants) == [name |-> name, variants |-> variants]
StaticScalar(path, type, init) ==
    [path |-> path, type |-> type, init |-> init, mutable |-> TRUE, public |-> TRUE]
StaticBuffer(path, type, length, inits) ==
    [path |-> path, type |-> type, length |-> length, inits |-> inits, mutable |-> TRUE, public |-> TRUE]
\* Constant(s), Private(s): a static that is not declared mut, or not pub.
Constant(s) == [s EXCEPT !.mutable = FALSE]
Private(s) == [s EXCEPT !.public = FALSE]
UseDecl(module, import) == [module |-> module, import |-> import]
ModuleDecl(path, public) == [path |-> path, public |-> public]

Module(structs, enums, scalars, buffers, uses, modules, functions) ==
    [structs |-> structs, enums |-> enums, scalars |-> scalars, buffers |-> buffers,
     uses |-> uses, modules |-> modules, functions |-> functions]

=============================================================================
