---------------------------- MODULE AtomicWrites ----------------------------
(***************************************************************************)
(* AtomicFile seen call by call: each call of atomic_write_text_file has a   *)
(* text it is asked to write and an end, with or without an exception.  The *)
(* variables added here record that; they guard no step of AtomicFile.      *)
(***************************************************************************)
EXTENDS AtomicFile

CONSTANT NoText

ASSUME NoTextAssumption == NoText \notin Contents

VARIABLES
    asked,      \* [Procs -> the text of the call it is in, NoText outside]
    answer,     \* [Procs -> how its last call ended]
    alone,      \* history: callers that no other call overlapped, flush not lost
    firm        \* history: since the last call that succeeded alone, or from the
                \*   start, no two calls overlapped and no flush was lost

callVars  == <<asked, answer, alone, firm>>
writeVars == <<fileVars, callVars>>

CallsInit ==
    /\ Init
    /\ asked = [p \in Procs |-> NoText]
    /\ answer = [p \in Procs |-> "none"]
    /\ alone = {} /\ firm = TRUE

\* The call: the open is its first step.
Call(p, text) ==
    /\ Open(p)
    /\ asked' = [asked EXCEPT ![p] = text]
    /\ answer' = [answer EXCEPT ![p] = "none"]
    /\ alone' = IF Alone THEN {p} ELSE {}
    /\ firm' = (firm /\ Alone)

Writes(p) == asked[p] # NoText /\ Write(p, asked[p]) /\ UNCHANGED callVars

Loses(p) == /\ FlushFails(p)
            /\ alone' = alone \ {p} /\ firm' = FALSE
            /\ UNCHANGED <<asked, answer>>

Leave(p, how) ==
    /\ asked' = [asked EXCEPT ![p] = NoText]
    /\ answer' = [answer EXCEPT ![p] = how]
    /\ alone' = alone \ {p}

\* Renaming is the last step of a call that returns.
Returns(p) == Rename(p) /\ Leave(p, "ok") /\ firm' = (firm \/ p \in alone)

\* The three throws of the function, and the death of its process anywhere in it.
Throws(p) ==
    /\ \/ WriteFails(p) \/ RenameFails(p)
       \/ at[p] # "out" /\ Abandon(p)
    /\ Leave(p, "failed") /\ UNCHANGED firm

Deleted == Unlink /\ UNCHANGED callVars

CallsNext ==
    \/ \E p \in Writers : \/ Writes(p) \/ Loses(p) \/ Returns(p) \/ Throws(p)
                          \/ \E text \in Contents : Call(p, text)
    \/ Deleted

CallsSpec == CallsInit /\ [][CallsNext]_writeVars
-----------------------------------------------------------------------------
\* atomic_write_text_file is a register: a call that no other overlaps puts its
\* own text in the file, in the step in which it is seen to succeed, and a call
\* that throws or dies, alone or not, leaves what readers read as it was.  After
\* overlapping calls or a lost flush the next call that succeeds alone is enough.
Register == INSTANCE AtomicRegister WITH value <- Read, Texts <- Contents
RegisterSpec == Register!Spec
=============================================================================
