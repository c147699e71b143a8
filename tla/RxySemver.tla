------------------------------ MODULE RxySemver ------------------------------
(***************************************************************************)
(* Versions and version requirements: parse_constraint, matches and         *)
(* resolve_highest of rxy/semver/semver.cpp.  A pre-release is its rank in   *)
(* the order of its text, 0 for a release; build metadata is compared       *)
(* nowhere and is left out.  A requirement is written as a sequence of      *)
(* terms [op, parts, pre]: an operator ("" for none), the numbers that are  *)
(* given and a pre-release.                                                 *)
(***************************************************************************)
EXTENDS Integers, Sequences

CONSTANT NoVersion

Version == [major : Nat, minor : Nat, patch : Nat, pre : Nat]

ASSUME NoVersionAssumption == NoVersion \notin Version

Release(major, minor, patch) ==
    [major |-> major, minor |-> minor, patch |-> patch, pre |-> 0]

\* Numbers first; a pre-release comes before its release.
Less(v, w) ==
    \/ v.major < w.major
    \/ v.major = w.major /\ v.minor < w.minor
    \/ v.major = w.major /\ v.minor = w.minor /\ v.patch < w.patch
    \/ /\ [v EXCEPT !.pre = 0] = [w EXCEPT !.pre = 0]
       /\ v.pre # 0 /\ (w.pre = 0 \/ v.pre < w.pre)

Term == [op : {"", "=", ">", ">=", "<", "<=", "^", "~"}, parts : Seq(Nat), pre : Nat]

\* What is not given is 0; a text without a number ("*"), or with a fourth, is no
\* version.
ParseVersion(parts, pre) ==
    LET part(i) == IF i <= Len(parts) THEN parts[i] ELSE 0
    IN  IF parts = <<>> \/ Len(parts) > 3 THEN NoVersion
        ELSE [Release(part(1), part(2), part(3)) EXCEPT !.pre = pre]

ParseConstraint(text) ==
    [i \in DOMAIN text |-> [op |-> IF text[i].op = "" THEN "^" ELSE text[i].op,
                            v  |-> ParseVersion(text[i].parts, text[i].pre)]]

IsConstraint(text) ==
    text # <<>> /\ \A i \in DOMAIN text : ParseVersion(text[i].parts, text[i].pre) # NoVersion

\* Mutant: ^0.1 stands for every 0.
CaretUpperMajor(v) == Release(v.major + 1, 0, 0)

\* The first version that ^v no longer accepts, and the first that ~v does not.
CaretUpper(v) == IF v.major # 0 THEN Release(v.major + 1, 0, 0)
                 ELSE IF v.minor # 0 THEN Release(0, v.minor + 1, 0)
                 ELSE Release(0, 0, v.patch + 1)
TildeUpper(v) == Release(v.major, v.minor + 1, 0)

MatchOp(op, v, target) ==
    CASE op = "="  -> v = target
      [] op = ">"  -> Less(target, v)
      [] op = ">=" -> ~Less(v, target)
      [] op = "<"  -> Less(v, target)
      [] op = "<=" -> ~Less(target, v)
      [] op = "^"  -> ~Less(v, target) /\ Less(v, CaretUpper(target))
      [] op = "~"  -> ~Less(v, target) /\ Less(v, TildeUpper(target))

Matches(constraint, v) ==
    \A i \in DOMAIN constraint : MatchOp(constraint[i].op, v, constraint[i].v)

\* best[i] is the best of the first i.
ResolveHighest(constraint, available) ==
    LET better(b, v) == IF Matches(constraint, v) /\ (b = NoVersion \/ Less(b, v)) THEN v ELSE b
        best[i \in 0..Len(available)] == IF i = 0 THEN NoVersion ELSE better(best[i - 1], available[i])
    IN  best[Len(available)]

-----------------------------------------------------------------------------
(* What the operators are documented to mean, by the digits that must stay   *)
(* (semver.hpp:36-41 and the comments in match_op).                          *)

\* What counts in a version, the first place that differs most.
Places(v) == <<v.major, v.minor, v.patch, IF v.pre = 0 THEN 1 ELSE 0, v.pre>>

Below(v, w) == \E k \in 1..5 : /\ Places(v)[k] < Places(w)[k]
                               /\ \A i \in 1..(k - 1) : Places(v)[i] = Places(w)[i]

Digits(v) == <<v.major, v.minor, v.patch>>

\* ^ keeps everything up to the first number that is not 0, ~ major and minor.
Kept(op, t) == IF op = "~" THEN 2
               ELSE CHOOSE k \in 1..3 : /\ \A i \in 1..(k - 1) : Digits(t)[i] = 0
                                        /\ k = 3 \/ Digits(t)[k] # 0

TermAccepts(term, v) ==
    LET t  == [k \in 1..3 |-> IF k <= Len(term.parts) THEN term.parts[k] ELSE 0]
        tv == [major |-> t[1], minor |-> t[2], patch |-> t[3], pre |-> term.pre]
    IN  CASE term.op = "="  -> Places(v) = Places(tv)
          [] term.op = ">"  -> Below(tv, v)
          [] term.op = ">=" -> ~Below(v, tv)
          [] term.op = "<"  -> Below(v, tv)
          [] term.op = "<=" -> ~Below(tv, v)
          [] OTHER -> /\ ~Below(v, tv)
                      /\ \A i \in 1..Kept(term.op, tv) : Digits(v)[i] = Digits(tv)[i]

Accepts(text, v) == \A i \in DOMAIN text : TermAccepts(text[i], v)
=============================================================================
