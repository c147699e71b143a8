------------------------------ MODULE RexcIr -------------------------------
(***************************************************************************)
(* The typed intermediate representation (include/rexc/ir.hpp) that        *)
(* lowering hands to the code generators, as records.                      *)
(***************************************************************************)
EXTENDS RexcTypes

IntegerValue(type, n) == [kind |-> "Integer", type |-> type, number |-> n]
BoolValue(b) == [kind |-> "Bool", type |-> BoolType, truth |-> b]
StringValue(s) == [kind |-> "String", type |-> StrType, text |-> s]
LocalValue(x, type) == [kind |-> "Local", type |-> type, name |-> x]
GlobalValue(symbol, type) == [kind |-> "Global", type |-> type, symbol |-> symbol]
UnaryValue(op, v, type) == [kind |-> "Unary", type |-> type, op |-> op, operand |-> v]
BinaryValue(op, l, r, type) ==
    [kind |-> "Binary", type |-> type, op |-> op, lhs |-> l, rhs |-> r]
CastValue(v, type) == [kind |-> "Cast", type |-> type, value |-> v]
CallValue(symbol, args, type) ==
    [kind |-> "Call", type |-> type, callee |-> symbol, arguments |-> args]
\* fields: a sequence of [type, offset, value].
StructLiteralValue(type, fields) == [kind |-> "StructLiteral", type |-> type, fields |-> fields]
StructFieldValue(v, type, offset) ==
    [kind |-> "StructField", type |-> type, base |-> v, offset |-> offset]
EnumLiteralValue(type, tag, payloads) ==
    [kind |-> "EnumLiteral", type |-> type, tag |-> tag, fields |-> payloads]

LetStatement(x, v) == [kind |-> "Let", name |-> x, value |-> v]
\* target: a LocalValue or a GlobalValue.
AssignStatement(target, v) == [kind |-> "Assign", target |-> target, value |-> v]
IndirectAssignStatement(p, v) == [kind |-> "IndirectAssign", target |-> p, value |-> v]
ExprStatement(v) == [kind |-> "Expr", value |-> v]
ReturnStatement(v) == [kind |-> "Return", value |-> v]
IfStatement(c, then, else) == [kind |-> "If", value |-> c, then |-> then, else |-> else]
MatchStatement(v, arms) == [kind |-> "Match", value |-> v, arms |-> arms]
WhileStatement(c, body) == [kind |-> "While", value |-> c, body |-> body]
ForStatement(init, c, inc, body) ==
    [kind |-> "For", initializer |-> init, value |-> c, increment |-> inc, body |-> body]
BreakStatement == [kind |-> "Break"]
ContinueStatement == [kind |-> "Continue"]

NoType == [kind |-> "None"]

\* Patterns of a match arm; a binding is [name, type, offset].
IrPattern(kind, type, value, bindings) ==
    [kind |-> kind, type |-> type, value |-> value, bindings |-> bindings]

IrFunction(symbol, params, ret, body, extern) ==
    [symbol |-> symbol, parameters |-> params, ret |-> ret, body |-> body, extern |-> extern]

(***************************************************************************)
(* The parts of a value and of a statement, for what walks the whole IR.   *)
(***************************************************************************)
Parts(v) ==
    CASE v.kind = "Unary" -> {v.operand}
      [] v.kind = "Binary" -> {v.lhs, v.rhs}
      [] v.kind = "Cast" -> {v.value}
      [] v.kind = "Call" -> {v.arguments[i] : i \in DOMAIN v.arguments}
      [] v.kind \in {"StructLiteral", "EnumLiteral"} -> {v.fields[i].value : i \in DOMAIN v.fields}
      [] v.kind = "StructField" -> {v.base}
      [] OTHER -> {}

RECURSIVE WithParts(_)
WithParts(v) == {v} \cup UNION {WithParts(x) : x \in Parts(v)}

RECURSIVE StatementValues(_)
BodyValues(body) == UNION {StatementValues(body[i]) : i \in DOMAIN body}
StatementValues(s) ==
    LET body(b) == UNION {StatementValues(b[i]) : i \in DOMAIN b}
    IN CASE s.kind \in {"Let", "Assign", "Expr", "Return"} -> WithParts(s.value)
         [] s.kind = "IndirectAssign" -> WithParts(s.target) \cup WithParts(s.value)
         [] s.kind = "If" -> WithParts(s.value) \cup body(s.then) \cup body(s.else)
         [] s.kind = "Match" ->
              WithParts(s.value) \cup UNION {body(s.arms[i].body) : i \in DOMAIN s.arms}
         [] s.kind = "While" -> WithParts(s.value) \cup body(s.body)
         [] s.kind = "For" -> StatementValues(s.initializer) \cup WithParts(s.value)
                              \cup StatementValues(s.increment) \cup body(s.body)
         [] OTHER -> {}

ModuleValues(ir) == UNION {BodyValues(ir.functions[i].body) : i \in DOMAIN ir.functions}

Comparisons == {"==", "!=", "<", "<=", ">", ">="}
Logical == {"&&", "||"}

=============================================================================
