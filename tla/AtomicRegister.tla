--------------------------- MODULE AtomicRegister ---------------------------
(***************************************************************************)
(* What atomic_write_text_file promises: a register.  A call that no other  *)
(* call overlaps sets the value to its own text in one step, if it succeeds, *)
(* and leaves it alone otherwise.  Calls that do overlap, and one whose last *)
(* flush is lost, may leave anything; the next call that succeeds alone puts *)
(* that right.                                                              *)
(***************************************************************************)
CONSTANTS Procs, Texts, Absent, NoText

VARIABLES
    value,      \* what a reader reads
    asked,      \* [Procs -> the text its call is to write, NoText outside]
    answer,     \* [Procs -> how its last call ended]
    alone,      \* the callers that no other call has overlapped so far
    firm        \* the value is Absent or what a call that was alone wrote

regVars == <<value, asked, answer, alone, firm>>

Pending == {p \in Procs : asked[p] # NoText}

Init ==
    /\ value = Absent /\ firm = TRUE /\ alone = {}
    /\ asked = [p \in Procs |-> NoText]
    /\ answer = [p \in Procs |-> "none"]

Begin(p, text) ==
    /\ p \notin Pending
    /\ asked' = [asked EXCEPT ![p] = text]
    /\ answer' = [answer EXCEPT ![p] = "none"]
    /\ alone' = IF Pending = {} THEN {p} ELSE {}
    /\ firm' = (firm /\ Pending = {})
    /\ UNCHANGED value

End(p, how) ==
    /\ p \in Pending
    /\ asked' = [asked EXCEPT ![p] = NoText]
    /\ answer' = [answer EXCEPT ![p] = how]
    /\ alone' = alone \ {p}

Succeed(p) ==
    /\ End(p, "ok")
    /\ IF p \in alone THEN value' = asked[p] /\ firm' = TRUE
                      ELSE ~firm /\ UNCHANGED firm

\* The call throws, or its process dies in it.
Fail(p) == End(p, "failed") /\ UNCHANGED <<value, firm>>

\* The call loses its text and does not notice.
Lose(p) == /\ p \in Pending
           /\ alone' = alone \ {p} /\ firm' = FALSE
           /\ UNCHANGED <<value, asked, answer>>

\* A call that is not alone may change the value before it ends.
Scribble == /\ Pending \ alone # {} /\ ~firm
            /\ UNCHANGED <<asked, answer, alone, firm>>

\* The user deletes the file.
Unset == value' = Absent /\ UNCHANGED <<asked, answer, alone, firm>>

Next ==
    \/ \E p \in Procs : Succeed(p) \/ Fail(p) \/ Lose(p) \/ \E text \in Texts : Begin(p, text)
    \/ Scribble \/ Unset

Spec == Init /\ [][Next]_regVars
=============================================================================
