---------------------------- MODULE RexcFrontEnd ----------------------------
(***************************************************************************)
(* Analysis and lowering together, over programs that are written one      *)
(* statement at a time.  A theme is a module with a function whose body is *)
(* open: statements are added at its end, and blocks are opened and closed *)
(* in it; what analysis refuses is not kept, so every state is a program   *)
(* that is accepted under the policy of the command line (main.cpp:522).   *)
(***************************************************************************)
EXTENDS RexcSema, Naturals

CONSTANTS
    Themes,     \* by name: [module, function, before, after, simple, heads, limit],
                \* where limit bounds the statements written into the open body
    Answers,    \* what the program's environment answers when it is run
    \* The passes, each a function of the tree, or of what lowering made of it:
    Analyzed(_),        \* RexcSema!Analyze, under the policy of the command line
    Lower(_),           \* RexcLower!LowerModule
    ValuesFit(_),       \* RexcTyping!WellTypedModule, of the lowered module
    MeaningOf(_, _)       \* RexcMeaning!Meaning, of the tree, for an answer

VARIABLES
    theme,          \* the name of the theme
    open,           \* the open blocks, outermost first: [head, bodies]
    written         \* the number of statements so far

vars == <<theme, open, written>>

Lowering == INSTANCE RexcLower

Theme == Themes[theme]

(***************************************************************************)
(* The program                                                             *)
(***************************************************************************)
BodyCount(head) == CASE head.kind = "If" -> 2
                     [] head.kind = "Match" -> Len(head.arms)
                     [] OTHER -> 1

\* A statement from its head and its bodies; one not written yet is empty.
Build(head, bodies) ==
    LET body(i) == IF i \in DOMAIN bodies THEN bodies[i] ELSE << >>
    IN CASE head.kind = "If" -> [head EXCEPT !.then = body(1), !.else = body(2)]
         [] head.kind = "Match" ->
              [head EXCEPT !.arms = [i \in DOMAIN @ |-> [@[i] EXCEPT !.body = body(i)]]]
         [] OTHER -> [head EXCEPT !.body = body(1)]

AddTo(block, s) == [block EXCEPT !.bodies[Len(block.bodies)] = Append(@, s)]

\* The innermost block is put where it stands in the one around it.
Closed(blocks) ==
    LET inner == Last(blocks)
        outer == Front(blocks)
    IN [outer EXCEPT ![Len(outer)] = AddTo(@, Build(inner.head, inner.bodies))]

RECURSIVE AllClosed(_)
AllClosed(blocks) == IF Len(blocks) = 1 THEN blocks[1].bodies[1] ELSE AllClosed(Closed(blocks))

\* The module with these blocks in its open function.
ProgramOf(t, blocks) ==
    [t.module EXCEPT !.functions =
        Append(@, [t.function EXCEPT !.body = t.before \o AllClosed(blocks) \o t.after])]

Program == ProgramOf(Theme, open)

\* The policy of the command line: raw pointers and extern functions need `unsafe`.
Accepted(t, blocks) == Analyzed(ProgramOf(t, blocks)).errors = {}

(***************************************************************************)
(* Writing                                                                 *)
(***************************************************************************)
Init ==
    /\ theme \in DOMAIN Themes
    /\ open = <<[head |-> [kind |-> "Function"], bodies |-> << << >> >>]>>
    /\ written = 0
    /\ Accepted(Theme, open)

\* The statement goes to the end of the innermost body.
Write ==
    /\ written < Theme.limit
    /\ \E i \in DOMAIN Theme.simple :
          open' = [open EXCEPT ![Len(open)] = AddTo(@, Theme.simple[i])]
    /\ written' = written + 1
    /\ UNCHANGED theme
    /\ Accepted(Theme, open')

Open ==
    /\ written < Theme.limit
    /\ \E i \in DOMAIN Theme.heads :
          open' = Append(open, [head |-> Theme.heads[i], bodies |-> << << >> >>])
    /\ written' = written + 1
    /\ UNCHANGED theme
    /\ Accepted(Theme, open')

\* The next body of the same statement: the else, or the next arm.
NextBody ==
    /\ Len(Last(open).bodies) < BodyCount(Last(open).head)
    /\ open' = [open EXCEPT ![Len(open)].bodies = Append(@, << >>)]
    /\ UNCHANGED <<theme, written>>

Close ==
    /\ Len(open) > 1
    /\ Len(Last(open).bodies) = BodyCount(Last(open).head)
    /\ open' = Closed(open)
    /\ UNCHANGED <<theme, written>>

Next == Write \/ Open \/ NextBody \/ Close

Spec == Init /\ [][Next]_vars

(***************************************************************************)
(* Properties                                                              *)
(***************************************************************************)
Lowered == Lower(Program)

\* What analysis accepts, lowering finishes without a throw (lower_ir.cpp looks
\* names, variants, fields and instances up again, by rules of its own).
AcceptedLowers == Lowered.ok

\* What analysis accepts is well typed behind lowering (lower_ir.cpp:733: "Sema
\* has already proven types match"): values have the types of the places, the
\* parameters and the operators they meet, in every instance of a template too.
IrWellTyped == LET ir == Lowered IN ir.ok => ValuesFit(ir)

\* Analysis and lowering lay out a struct and each instance of a template alike,
\* though each has code of its own for it (sema.cpp:2545, lower_ir.cpp:315).
LayoutsAgree ==
    Program.structs # << >> =>
    LET sema == Analyzed(Program).structs
        lowered == Lowered.structs
    IN \A name \in DOMAIN sema \cap DOMAIN lowered :
          IF sema[name].generics # << >> THEN TRUE
          ELSE /\ sema[name].size = lowered[name].size
               /\ sema[name].alignment = lowered[name].alignment
               /\ Len(sema[name].fields) = Len(lowered[name].fields)
               /\ \A i \in DOMAIN sema[name].fields :
                     sema[name].fields[i].type = lowered[name].fields[i].type

\* No run of an accepted program reads a local before it is assigned, whichever
\* branches, arms and turns it takes (sema.cpp:918-995; lower_ir.cpp:431-434
\* relies on it: "sema rejects reads before assignment").
ReadsAreAssigned == \A answer \in Answers : ~MeaningOf(Program, answer).unassigned

\* Where an item may be used, by docs/ch11-modules.md: a public one where each
\* private module on its path is the user's own, around it, or a child of it;
\* a private one inside of its module only.
MayUse(user, module, public) ==
    LET declared(p) == \E i \in DOMAIN Program.modules :
                          Program.modules[i].path = p /\ Program.modules[i].public
        inside(p) == IsPrefix(p, user)
    IN /\ public \/ inside(module)
       /\ \A p \in OuterModules(module) : declared(p) \/ inside(p) \/ user = Front(p)

\* The calls and the statics lowering resolved stay within what their module may
\* use: lowering knows no visibility (lower_ir.cpp:676-725), analysis resolves
\* names on its own (sema.cpp:764-848), and both follow imports.
PrivateStaysPrivate ==
    Program.modules # << >> =>
    LET ir == Lowered
        functions == Range(Program.functions)
        statics == Range(Program.scalars)
        usedIn(f) == Lowering!BodyValues(f.body)
    IN \A i \in DOMAIN ir.functions : \A v \in usedIn(ir.functions[i]) :
          LET user == Front(ir.functions[i].symbol)
          IN /\ v.kind = "Call" => \A f \in functions :
                   ItemPath(f.module, f.name) = v.callee => MayUse(user, f.module, f.public)
             /\ v.kind = "Global" => \A s \in statics :
                   s.path = v.symbol => MayUse(user, Front(s.path), s.public)

(***************************************************************************)
(* Operations that need `unsafe`                                           *)
(***************************************************************************)
Operands(e) ==
    CASE e.kind = "Unary" -> <<e.operand>>
      [] e.kind = "Binary" -> <<e.lhs, e.rhs>>
      [] e.kind = "Cast" -> <<e.value>>
      [] e.kind = "Call" -> e.arguments
      [] e.kind = "StructLiteral" -> [i \in DOMAIN e.fields |-> e.fields[i].value]
      [] e.kind = "Tuple" -> e.elements
      [] e.kind = "FieldAccess" -> <<e.base>>
      [] e.kind = "Index" -> <<e.base, e.index>>
      [] e.kind = "Try" -> <<e.operand>>
      [] OTHER -> << >>

\* A read through `*`, or a call of an extern function.
RECURSIVE IsGuarded(_, _)
IsGuarded(externs, e) ==
    \/ e.kind = "Unary" /\ e.op = "*"
    \/ e.kind = "Call" /\ Last(e.callee) \in externs
    \/ \E i \in DOMAIN Operands(e) : IsGuarded(externs, Operands(e)[i])

\* Whether that, or a write through `*`, is done outside of an unsafe block.
RECURSIVE DoneOutside(_, _)
RECURSIVE DoesOutside(_, _)
DoneOutside(externs, body) == \E i \in DOMAIN body : DoesOutside(externs, body[i])
DoesOutside(externs, s) ==
    LET raw(e) == IsGuarded(externs, e)
        inside(body) == DoneOutside(externs, body)
    IN CASE s.kind = "Let" -> s.value # NoExpr /\ raw(s.value)
         [] s.kind \in {"Assign", "Expr", "Return"} -> raw(s.value)
         [] s.kind \in {"IndirectAssign", "FieldAssign"} -> TRUE
         [] s.kind = "Defer" -> raw(s.call)
         [] s.kind = "If" -> raw(s.condition) \/ inside(s.then) \/ inside(s.else)
         [] s.kind = "Match" -> raw(s.value) \/ \E i \in DOMAIN s.arms : inside(s.arms[i].body)
         [] s.kind = "While" -> raw(s.condition) \/ inside(s.body)
         [] s.kind = "For" -> \/ inside(<<s.initializer, s.increment>>)
                              \/ raw(s.condition) \/ inside(s.body)
         [] OTHER -> FALSE

\* FE-013 as sema.hpp:27 words it: `*` and calls of extern functions are in unsafe
\* blocks and unsafe functions only, wherever in a statement they are, in a
\* deferred call too, and neither before nor behind the block.  This is less than
\* docs/ch10-unsafe.md:16 promises: the code asks for no block around an index into
\* a pointer, pointer arithmetic, a `static mut` or the call of an `unsafe fn`, and
\* the themes do some of these in safe code (README, section 5).
DereferencesAreMarked ==
    LET externs == {Program.functions[i].name : i \in {j \in DOMAIN Program.functions :
                                                          Program.functions[j].extern}}
    IN \A i \in DOMAIN Program.functions :
          Program.functions[i].unsafe \/ ~DoneOutside(externs, Program.functions[i].body)

=============================================================================
