------------------------------ MODULE RexcExec ------------------------------
(***************************************************************************)
(* The compiler and the processor together: programs that went through     *)
(* lowering and a code generator are run (RexcMachine) and compared with   *)
(* what their source means.  The name of an image is a record of the       *)
(* source and the target.                                                  *)
(***************************************************************************)
EXTENDS RexcMachine

\* MeaningOf(s, i) is what the program with source s does on input i: its trace
\* and its result (RexcMeaning!Meaning of the checked tree).
CONSTANT MeaningOf(_, _)

\* Correct compilation (lower_ir.cpp, codegen_x86.cpp, codegen_arm64.cpp): the
\* program is accepted, has no label twice and, when it ends, has emitted and
\* returned what its source says, in that order: through deferred calls on every
\* way out, early returns of `?`, matches, instances of templates, modules, calls.
RunsAsWritten ==
    /\ image.ok /\ image.unique
    /\ status = "halted" =>
          LET meaning == MeaningOf(program.source, input)
          IN trace = meaning.trace /\ Signed(regs[image.accumulator], 4) = meaning.result

\* Between two statements nothing is left on the evaluation stack: wherever
\* branches, loops and returns meet, the stack pointer is at the end of the frame.
StackBalanced ==
    (status = "running" /\ Instruction.op = "Label") =>
        LET label == Instruction.name
        IN label.kind # "function" =>
              regs["sp"] = FrameOf(regs) - image.frames[label.symbol]

\* A call comes back to where it was made with the caller's stack pointer and
\* frame, whatever the callee pushed, and however it was left.
CallsReturn ==
    [][calls' = Front(calls) =>
         LET call == Last(calls)
         IN /\ status' = "running" => pc' = call.pc
            /\ status' = "halted" <=> call.pc = Halt
            /\ regs'["sp"] = call.sp
            /\ FrameOf(regs') = call.frame]_vars

\* Every program here ends: no loop is entered again without its increment, no
\* branch falls back, and the processor never stops at a fault, which is a read
\* of a slot, a register or a flag that was not written, of a register that a
\* call may have changed, or an access below the stack pointer or outside of the
\* frame and the data.
Halts == <>(status = "halted")

=============================================================================
