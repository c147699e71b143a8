-------------------------- MODULE RxyResolverProofs --------------------------
(***************************************************************************)
(* Proofs about RxySemver and RxyResolver, for any packages, manifests,     *)
(* workspaces and indexes: what a finished graph contains, which request    *)
(* each of its packages comes from, and that the walk comes to an end.      *)
(***************************************************************************)
EXTENDS RxyResolver, FiniteSetTheorems, WellFoundedInduction, TLAPS

-----------------------------------------------------------------------------
(* Induction and recursion over the first numbers                            *)

\* The order of the natural numbers has no infinite descent.
LEMMA NumbersDescend ==
    \E R : /\ IsWellFoundedOn(R, Nat)
           /\ \A m, n \in Nat : <<m, n>> \in R <=> m < n
  <1>1. \A m, n \in Nat : <<m, n>> \in OpToRel(<, Nat) <=> m < n
    BY DEF OpToRel
  <1>. QED
    BY <1>1, NatLessThanWellFounded, Zenon

\* What holds of 0, and of a number up to n if of the one before, holds up to n:
\* among the numbers for which it does not hold there would be a first.
LEMMA UpTo ==
    ASSUME NEW n \in Nat, NEW T, 0 \in T, \A i \in 1..n : i - 1 \in T => i \in T
    PROVE  0..n \subseteq T
  <1> DEFINE Bad == {i \in 0..n : i \notin T}
  <1>1. PICK R : IsWellFoundedOn(R, Nat) /\ \A m, k \in Nat : <<m, k>> \in R <=> m < k
    BY NumbersDescend
  <1>2. SUFFICES ASSUME Bad # {} PROVE FALSE
    OBVIOUS
  <1>3. Bad \subseteq Nat
    OBVIOUS
  <1>4. \E i \in Bad : \A j \in Bad : ~ (<<j, i>> \in R)
    <2>1. IsWellFoundedOn(R, Nat)
      BY <1>1
    <2>2. Bad # {}
      BY <1>2
    <2> HIDE DEF Bad
    <2>. QED
      BY <1>3, <2>1, <2>2, WFMin
  <1>5. PICK i \in Bad : \A j \in Bad : ~ (<<j, i>> \in R)
    BY <1>4
  <1>6. i \in 1..n /\ i \notin T
    BY <1>5
  <1>7. i - 1 \in 0..n /\ i - 1 \in Nat /\ i \in Nat /\ i - 1 < i
    BY <1>6
  <1>8. i - 1 \notin T
    BY <1>6
  <1>9. i - 1 \in Bad
    BY <1>7, <1>8
  <1>. QED
    BY <1>1, <1>5, <1>7, <1>9

\* g[i] is the state of a loop after i of its n turns, F[i] what a turn does.
IsLoop(g, n, S, b, F) ==
    g \in [0..n -> S] /\ g[0] = b /\ \A i \in 1..n : g[i] = F[i][g[i - 1]]

\* Every loop has its states: a recursive definition over 0..n defines something.
LEMMA LoopExists ==
    ASSUME NEW n \in Nat, NEW S, NEW b \in S, NEW F \in [1..n -> [S -> S]]
    PROVE  \E g : IsLoop(g, n, S, b, F)
  <1> DEFINE Good(k, g) == g[0] = b /\ \A i \in 1..k : g[i] = F[i][g[i - 1]]
             T == {k \in 0..n : \E g \in [0..k -> S] : Good(k, g)}
  <1>1. 0 \in T
    <2> DEFINE g == [i \in 0..0 |-> b]
    <2>1. g \in [0..0 -> S] /\ Good(0, g)
      OBVIOUS
    <2> HIDE DEF g, Good
    <2>. QED
      BY <2>1
  <1>2. ASSUME NEW k \in 1..n, k - 1 \in T PROVE k \in T
    <2>1. PICK g \in [0..(k - 1) -> S] : Good(k - 1, g)
      BY <1>2
    <2> DEFINE h == [i \in 0..k |-> IF i = k THEN F[k][g[k - 1]] ELSE g[i]]
    <2>2. g[k - 1] \in S /\ F[k] \in [S -> S]
      BY <2>1
    <2>3. h \in [0..k -> S]
      BY <2>1, <2>2
    <2>4. \A i \in 0..(k - 1) : h[i] = g[i]
      OBVIOUS
    <2>5. h[k] = F[k][h[k - 1]]
      BY <2>4
    <2>6. \A i \in 1..(k - 1) : h[i] = F[i][h[i - 1]]
      BY <2>1, <2>4
    <2>7. Good(k, h)
      BY <2>1, <2>4, <2>5, <2>6
    <2> HIDE DEF h, Good
    <2>. QED
      BY <2>3, <2>7
  <1>3. 0..n \subseteq T
    <2> HIDE DEF T
    <2>. QED
      BY <1>1, <1>2, UpTo
  <1>. QED
    BY <1>3 DEF IsLoop

\* What a sequence holds after Append.
LEMMA AppendedSet ==
    ASSUME NEW X, NEW s \in Seq(X), NEW x \in X
    PROVE  Append(s, x) \in Seq(X) /\ ToSet(Append(s, x)) = ToSet(s) \cup {x}
  <1>1. /\ Append(s, x) \in Seq(X) /\ DOMAIN Append(s, x) = 1..(Len(s) + 1)
        /\ Len(s) \in Nat /\ DOMAIN s = 1..Len(s)
        /\ \A i \in 1..Len(s) : Append(s, x)[i] = s[i]
        /\ Append(s, x)[Len(s) + 1] = x
    OBVIOUS
  <1>. QED
    BY <1>1 DEF ToSet

\* What Filtered keeps.
LEMMA FilteredIs ==
    ASSUME NEW X, NEW s \in Seq(X), NEW S
    PROVE  /\ Filtered(s, S) \in Seq(X)
           /\ ToSet(Filtered(s, S)) = ToSet(s) \cap S
           /\ Len(Filtered(s, S)) <= Len(s)
  <1> DEFINE n == Len(s)
             Next1(g, i) == IF i = 0 THEN <<>> ELSE IF s[i] \in S THEN Append(g[i - 1], s[i]) ELSE g[i - 1]
             Is(g) == g = [i \in 0..n |-> Next1(g, i)]
             g0 == CHOOSE g : Is(g)
  <1>0. n \in Nat /\ 1..n = DOMAIN s
    OBVIOUS
  <1>1. Filtered(s, S) = g0[n]
    BY DEF Filtered
  <1>2. n \in Nat /\ \A i \in 1..n : s[i] \in X
    BY <1>0
  <1> HIDE DEF n
  <1>3. \E g : Is(g)
    <2> DEFINE F == [i \in 1..n |-> [u \in Seq(X) |-> IF s[i] \in S THEN Append(u, s[i]) ELSE u]]
    <2>1. F \in [1..n -> [Seq(X) -> Seq(X)]]
      BY <1>2
    <2>2. PICK g \in [0..n -> Seq(X)] : g[0] = <<>> /\ \A i \in 1..n : g[i] = F[i][g[i - 1]]
      <3>1. <<>> \in Seq(X)
        OBVIOUS
      <3>2. n \in Nat
        BY <1>2
      <3> HIDE DEF F
      <3>3. \E g : IsLoop(g, n, Seq(X), <<>>, F)
        BY <2>1, <3>1, <3>2, LoopExists, Zenon
      <3>. QED
        BY <3>3 DEF IsLoop
    <2>3. ASSUME NEW i \in 0..n PROVE g[i] = Next1(g, i)
      <3>1. CASE i = 0
        BY <2>2, <3>1
      <3>2. CASE i \in 1..n
        <4>1. g[i - 1] \in Seq(X) /\ g[i] = F[i][g[i - 1]]
          <5>1. i - 1 \in 0..n
            BY <1>2, <3>2
          <5> HIDE DEF F
          <5>. QED
            BY <2>2, <3>2, <5>1
        <4>. QED
          BY <1>2, <3>2, <4>1
      <3>. QED
        BY <1>2, <3>1, <3>2
    <2>4. Is(g)
      <3> HIDE DEF Next1
      <3>. QED
        BY <2>2, <2>3
    <2>. QED
      BY <2>4
  <1>4. Is(g0)
    BY <1>3
  <1> HIDE DEF g0
  <1>5. /\ g0[0] = <<>>
        /\ \A i \in 1..n : g0[i] = IF s[i] \in S THEN Append(g0[i - 1], s[i]) ELSE g0[i - 1]
    <2>1. \A i \in 0..n : g0[i] = Next1(g0, i)
      <3> HIDE DEF Next1
      <3>. QED
        BY <1>4
    <2>2. 0 \in 0..n /\ \A i \in 1..n : i \in 0..n /\ i # 0
      BY <1>2
    <2>. QED
      BY <2>1, <2>2
  <1> DEFINE Good(i) == /\ g0[i] \in Seq(X) /\ Len(g0[i]) <= i
                        /\ ToSet(g0[i]) = {s[j] : j \in 1..i} \cap S
             T == {i \in 0..n : Good(i)}
  <1>6. 0 \in T
    <2>1. g0[0] \in Seq(X) /\ Len(g0[0]) <= 0 /\ ToSet(g0[0]) = {}
      BY <1>5 DEF ToSet
    <2>2. 0 \in 0..n /\ {s[j] : j \in 1..0} = {}
      BY <1>2
    <2>. QED
      BY <2>1, <2>2
  <1>7. ASSUME NEW i \in 1..n, i - 1 \in T PROVE i \in T
    <2>1. Good(i - 1) /\ s[i] \in X
      BY <1>2, <1>7
    <2>2. {s[j] : j \in 1..i} = {s[j] : j \in 1..(i - 1)} \cup {s[i]}
      BY <1>2
    <2>3. CASE s[i] \in S
      <3>1. g0[i] = Append(g0[i - 1], s[i])
        BY <1>5, <2>3
      <3>2. g0[i] \in Seq(X) /\ ToSet(g0[i]) = ToSet(g0[i - 1]) \cup {s[i]}
        BY <2>1, <3>1, AppendedSet
      <3>3. Len(g0[i]) <= i
        BY <1>2, <2>1, <3>1
      <3>. QED
        BY <1>2, <2>1, <2>2, <2>3, <3>2, <3>3
    <2>4. CASE s[i] \notin S
      <3>1. g0[i] = g0[i - 1]
        BY <1>5, <2>4
      <3>2. Len(g0[i]) <= i
        BY <1>2, <2>1, <3>1
      <3>. QED
        BY <1>2, <2>1, <2>2, <2>4, <3>1, <3>2
    <2>. QED
      BY <2>3, <2>4
  <1>8. n \in T
    <2> HIDE DEF T
    <2>1. 0..n \subseteq T
      BY <1>2, <1>6, <1>7, UpTo
    <2>. QED
      BY <1>2, <2>1
  <1>9. ToSet(s) = {s[j] : j \in 1..n}
    BY <1>0 DEF ToSet, n
  <1>10. Good(n) /\ n = Len(s)
    BY <1>8 DEF n
  <1> HIDE DEF Good
  <1>11. Good(n) => g0[n] \in Seq(X) /\ ToSet(g0[n]) = ToSet(s) \cap S /\ Len(g0[n]) <= n
    BY <1>9 DEF Good
  <1>. QED
    BY <1>1, <1>10, <1>11

-----------------------------------------------------------------------------
(* Versions                                                                  *)

\* Less orders the versions: strictly, and any two that differ.
LEMMA LessIsAnOrder ==
    /\ \A v \in Version : ~Less(v, v)
    /\ \A u, v, w \in Version : Less(u, v) /\ Less(v, w) => Less(u, w)
    /\ \A v, w \in Version : v = w \/ Less(v, w) \/ Less(w, v)
  <1>1. ASSUME NEW v \in Version PROVE ~Less(v, v)
    BY DEF Version, Less
  <1>2. ASSUME NEW u \in Version, NEW v \in Version, NEW w \in Version, Less(u, v), Less(v, w)
        PROVE  Less(u, w)
    BY <1>2 DEF Version, Less
  <1>3. ASSUME NEW v \in Version, NEW w \in Version PROVE v = w \/ Less(v, w) \/ Less(w, v)
    BY DEF Version, Less
  <1>. QED
    BY <1>1, <1>2, <1>3

\* What resolve_highest is to return of the versions in S.
IsHighest(best, constraint, S) ==
    \/ best = NoVersion /\ \A v \in S : ~Matches(constraint, v)
    \/ /\ best \in S /\ Matches(constraint, best)
       /\ \A v \in S : Matches(constraint, v) => ~Less(best, v)

\* resolve_highest returns the highest version that matches, in whatever order
\* the index lists them, and none only if none matches.
THEOREM HighestIsHighest ==
    ASSUME NEW constraint, NEW available \in Seq(Version)
    PROVE  IsHighest(ResolveHighest(constraint, available), constraint, ToSet(available))
  <1> DEFINE n == Len(available)
             Better(b, v) == IF Matches(constraint, v) /\ (b = NoVersion \/ Less(b, v)) THEN v ELSE b
             Turn(g, i) == IF i = 0 THEN NoVersion ELSE Better(g[i - 1], available[i])
             Is(g) == g = [i \in 0..n |-> Turn(g, i)]
             g0 == CHOOSE g : Is(g)
  <1>1. ResolveHighest(constraint, available) = g0[n]
    BY DEF ResolveHighest
  <1>2. n \in Nat /\ 1..n = DOMAIN available /\ \A i \in 1..n : available[i] \in Version
    OBVIOUS
  <1> HIDE DEF n
  <1>3. \E g : Is(g)
    <2> DEFINE Q == Version \cup {NoVersion}
               F == [i \in 1..n |-> [b \in Q |-> Better(b, available[i])]]
    <2>1. F \in [1..n -> [Q -> Q]] /\ NoVersion \in Q
      BY <1>2
    <2>2. PICK g : IsLoop(g, n, Q, NoVersion, F)
      <3> HIDE DEF F, Q
      <3>. QED
        BY <1>2, <2>1, LoopExists, Zenon
    <2>3. ASSUME NEW i \in 0..n PROVE g[i] = Turn(g, i)
      <3>1. CASE i = 0
        BY <2>2, <3>1 DEF IsLoop
      <3>2. CASE i \in 1..n
        <4>1. g[i - 1] \in Q /\ g[i] = F[i][g[i - 1]] /\ i # 0
          <5>1. i - 1 \in 0..n /\ i # 0
            BY <1>2, <3>2
          <5> HIDE DEF F
          <5>. QED
            BY <2>2, <3>2, <5>1 DEF IsLoop
        <4> HIDE DEF Better
        <4>. QED
          BY <3>2, <4>1
      <3>. QED
        BY <1>2, <3>1, <3>2
    <2>4. Is(g)
      <3> HIDE DEF Turn
      <3>. QED
        BY <2>2, <2>3 DEF IsLoop
    <2>. QED
      BY <2>4
  <1>4. Is(g0)
    BY <1>3
  <1> HIDE DEF g0
  <1>5. g0[0] = NoVersion /\ \A i \in 1..n : g0[i] = Better(g0[i - 1], available[i])
    <2>1. \A i \in 0..n : g0[i] = Turn(g0, i)
      <3> HIDE DEF Turn
      <3>. QED
        BY <1>4
    <2>2. 0 \in 0..n /\ \A i \in 1..n : i \in 0..n /\ i # 0
      BY <1>2
    <2> HIDE DEF Better
    <2>. QED
      BY <2>1, <2>2
  <1> DEFINE First(i) == {available[j] : j \in 1..i}
             T == {i \in 0..n : IsHighest(g0[i], constraint, First(i))}
  <1>6. 0 \in T
    BY <1>2, <1>5 DEF IsHighest
  <1>7. ASSUME NEW i \in 1..n, i - 1 \in T PROVE i \in T
    <2> DEFINE v == available[i] b == g0[i - 1]
    <2>1. First(i) = First(i - 1) \cup {v} /\ v \in Version /\ i \in 0..n
      BY <1>2
    <2>2. IsHighest(b, constraint, First(i - 1)) /\ First(i - 1) \subseteq Version
      BY <1>2, <1>7
    <2>3. g0[i] = Better(b, v)
      BY <1>5
    <2> HIDE DEF v, b, First
    <2>4. IsHighest(Better(b, v), constraint, First(i - 1) \cup {v})
      BY <2>1, <2>2, LessIsAnOrder, NoVersionAssumption DEF IsHighest
    <2>. QED
      BY <2>1, <2>3, <2>4
  <1>8. n \in T
    <2> HIDE DEF T
    <2>1. 0..n \subseteq T
      BY <1>2, <1>6, <1>7, UpTo
    <2>. QED
      BY <1>2, <2>1
  <1>9. ToSet(available) = First(n)
    BY <1>2 DEF ToSet
  <1>. QED
    BY <1>1, <1>8, <1>9

-----------------------------------------------------------------------------
(* Types                                                                     *)

\* What Head and Tail make of the elements.
LEMMA PoppedSet ==
    ASSUME NEW X, NEW q \in Seq(X), q # <<>>
    PROVE  /\ Head(q) \in X /\ Tail(q) \in Seq(X)
           /\ ToSet(q) = {Head(q)} \cup ToSet(Tail(q))
  <1>1. /\ Len(q) \in Nat \ {0} /\ DOMAIN q = 1..Len(q) /\ Head(q) = q[1]
        /\ Tail(q) \in Seq(X) /\ DOMAIN Tail(q) = 1..(Len(q) - 1)
        /\ \A i \in 1..(Len(q) - 1) : Tail(q)[i] = q[i + 1]
    OBVIOUS
  <1>2. \A i \in 1..Len(q) : i = 1 \/ (i - 1 \in 1..(Len(q) - 1) /\ q[i] = Tail(q)[i - 1])
    BY <1>1
  <1>3. ToSet(q) \subseteq {Head(q)} \cup ToSet(Tail(q))
    <2>1. ASSUME NEW i \in 1..Len(q) PROVE q[i] = Head(q) \/ q[i] \in ToSet(Tail(q))
      <3>1. CASE i = 1
        BY <1>1, <3>1
      <3>2. CASE i - 1 \in 1..(Len(q) - 1) /\ q[i] = Tail(q)[i - 1]
        BY <1>1, <3>2 DEF ToSet
      <3>. QED
        BY <1>2, <3>1, <3>2
    <2>. QED
      BY <1>1, <2>1 DEF ToSet
  <1>4. 1 \in DOMAIN q /\ \A i \in 1..(Len(q) - 1) : i + 1 \in DOMAIN q
    BY <1>1
  <1>5. Head(q) \in ToSet(q) /\ ToSet(Tail(q)) \subseteq ToSet(q)
    BY <1>1, <1>4 DEF ToSet
  <1>6. q[1] \in X
    BY <1>4
  <1>. QED
    BY <1>1, <1>3, <1>5, <1>6

\* What \o makes of the elements.
LEMMA JoinedSet ==
    ASSUME NEW X, NEW s \in Seq(X), NEW t \in Seq(X)
    PROVE  s \o t \in Seq(X) /\ ToSet(s \o t) = ToSet(s) \cup ToSet(t)
  <1>1. /\ s \o t \in Seq(X) /\ DOMAIN (s \o t) = 1..(Len(s) + Len(t))
        /\ Len(s) \in Nat /\ Len(t) \in Nat /\ DOMAIN s = 1..Len(s) /\ DOMAIN t = 1..Len(t)
        /\ \A i \in 1..Len(s) : (s \o t)[i] = s[i]
        /\ \A i \in 1..Len(t) : (s \o t)[Len(s) + i] = t[i]
    OBVIOUS
  <1>2. \A i \in 1..(Len(s) + Len(t)) : i \in 1..Len(s) \/ i - Len(s) \in 1..Len(t)
    BY <1>1
  <1>3. \A i \in 1..(Len(s) + Len(t)) : i = Len(s) + (i - Len(s))
    BY <1>1
  <1>4. ToSet(s \o t) \subseteq ToSet(s) \cup ToSet(t)
    BY <1>1, <1>2, <1>3 DEF ToSet
  <1>5. /\ \A i \in 1..Len(s) : i \in 1..(Len(s) + Len(t))
        /\ \A i \in 1..Len(t) : Len(s) + i \in 1..(Len(s) + Len(t))
    BY <1>1
  <1>6. ToSet(s) \subseteq ToSet(s \o t) /\ ToSet(t) \subseteq ToSet(s \o t)
    BY <1>1, <1>5 DEF ToSet
  <1>. QED
    BY <1>1, <1>4, <1>6

\* The names a list of dependencies asks for.
Asked(deps) == {d.name : d \in ToSet(deps)}

\* NamesOf gives these names, in the order of the list.
LEMMA NamesOfIs ==
    ASSUME NEW deps \in Seq(Dependency)
    PROVE  NamesOf(deps) \in Seq(Names) /\ ToSet(NamesOf(deps)) = Asked(deps)
  <1>1. Len(deps) \in Nat /\ DOMAIN deps = 1..Len(deps) /\ \A i \in DOMAIN deps : deps[i] \in Dependency
    OBVIOUS
  <1>2. NamesOf(deps) \in [1..Len(deps) -> Names] /\ DOMAIN NamesOf(deps) = DOMAIN deps
    BY <1>1 DEF NamesOf, Dependency
  <1>3. NamesOf(deps) \in Seq(Names)
    BY <1>1, <1>2
  <1>. QED
    BY <1>2, <1>3 DEF NamesOf, Asked, ToSet

\* What the world a resolution reads holds.
LEMMA WorldTypes ==
    ASSUME TypeOK
    PROVE  /\ world.manifest \in [Trees -> Seq(Dependency)]
           /\ \A n \in DOMAIN world.shared :
                world.shared[n] \in Dependency /\ world.shared[n].name = n
           /\ \A n \in DOMAIN world.index : world.index[n] \in Seq(Listing)
           /\ world.cwd \in Trees \cup {NoTree}
  <1>1. PICK i \in DOMAIN Worlds : world \in Worlds[i]
    BY DEF TypeOK
  <1>. QED
    BY <1>1, WorldAssumption

\* The versions the index offers a request for a name.
Offered(n) == {e.version : e \in {e \in ToSet(world.index[n]) : ~e.yanked}}

\* A registry source is the highest version the index offers and the request
\* accepts.
LEMMA RegistrySource ==
    ASSUME TypeOK, NEW spec \in Dependency, NEW r \in ResolveRegistry(spec)
    PROVE  /\ r \in Package /\ r.name = spec.name
           /\ spec.name \in DOMAIN world.index /\ IsConstraint(spec.req)
           /\ r.version # NoVersion
           /\ IsHighest(r.version, ParseConstraint(spec.req), Offered(spec.name))
  <1> DEFINE entries    == world.index[spec.name]
             live       == {e \in ToSet(entries) : ~e.yanked}
             candidates == Filtered(entries, live)
             versions   == [i \in DOMAIN candidates |-> candidates[i].version]
             best       == ResolveHighest(ParseConstraint(spec.req), versions)
             entry      == Filtered(candidates, {e \in ToSet(candidates) : e.version = best})[1]
             found      == At(spec, entry.tree, <<"registry", NoTree>>)
  <1>1. /\ spec.name \in DOMAIN world.index /\ IsConstraint(spec.req)
        /\ best # NoVersion
        /\ r \in {[x EXCEPT !.version = best] : x \in found}
    BY Zenon DEF ResolveRegistry
  <1>2. entries \in Seq(Listing)
    BY <1>1, WorldTypes
  <1>3. candidates \in Seq(Listing) /\ ToSet(candidates) = live
    BY <1>2, FilteredIs
  <1> HIDE DEF candidates
  <1>4. versions \in Seq(Version) /\ ToSet(versions) = Offered(spec.name)
    <2>1. /\ Len(candidates) \in Nat /\ DOMAIN candidates = 1..Len(candidates)
          /\ \A i \in DOMAIN candidates : candidates[i] \in Listing
      BY <1>3
    <2>2. versions \in [1..Len(candidates) -> Version]
      BY <2>1 DEF Listing
    <2>3. versions \in Seq(Version)
      BY <2>1, <2>2
    <2>. QED
      BY <1>3, <2>1, <2>2, <2>3 DEF Offered, ToSet
  <1>5. IsHighest(best, ParseConstraint(spec.req), Offered(spec.name))
    <2> HIDE DEF versions
    <2>. QED
      BY <1>4, HighestIsHighest
  <1>6. best \in Version
    <2>1. Offered(spec.name) \subseteq Version
      <3>1. \A i \in DOMAIN entries : entries[i] \in Listing
        BY <1>2
      <3>. QED
        BY <3>1 DEF Offered, ToSet, Listing
    <2>. QED
      BY <1>1, <1>5, <2>1 DEF IsHighest
  <1> HIDE DEF best, entry
  <1>7. PICK t \in Trees : r = [name |-> spec.name, version |-> best, tree |-> t,
                                token |-> <<"registry", NoTree>>]
    BY <1>1 DEF At
  <1>8. spec.name \in Names
    BY DEF Dependency
  <1>. QED
    BY <1>1, <1>5, <1>6, <1>7, <1>8 DEF Package, Token

\* A source that is found is a package of the name that was asked for.
LEMMA SourceTypes ==
    ASSUME TypeOK, NEW spec \in Dependency, NEW r \in ResolveSource(spec)
    PROVE  r \in Package /\ r.name = spec.name
  <1>1. ASSUME NEW tree \in Trees \cup {NoTree}, NEW token \in Token, NEW x \in At(spec, tree, token)
        PROVE  x \in Package /\ x.name = spec.name
    BY <1>1, OwnerAssumption DEF At, Package, Dependency
  <1>2. spec.tree \in Trees \cup {NoTree} /\ spec.name \in Names
    BY DEF Dependency
  <1>3. CASE spec.kind = "path" \/ spec.kind = "git"
    <2>1. <<"path", spec.tree>> \in Token /\ <<"git", spec.tree>> \in Token
      BY <1>2 DEF Token
    <2>. QED
      BY <1>1, <1>2, <1>3, <2>1 DEF ResolveSource, ResolvePath, ResolveGit
  <1>4. CASE spec.name = "std" /\ spec.kind \in {"registry", "workspace"}
    BY <1>4, BundledAssumption, OwnerAssumption DEF ResolveSource, ResolveBundled, Package, Token
  <1>5. CASE spec.name # "std" /\ spec.kind = "registry"
    <2>1. r \in ResolveRegistry(spec)
      BY <1>5 DEF ResolveSource
    <2>. QED
      BY <2>1, RegistrySource
  <1>. QED
    BY <1>3, <1>4, <1>5 DEF ResolveSource

-----------------------------------------------------------------------------
(* Steps                                                                     *)

\* Visit, with the package r that is found and the requests u it adds.
Visits(r, u) ==
    /\ pc = "walk" /\ queue # <<>> /\ r.name = Head(queue).name /\ r.name \notin DOMAIN tokens
    /\ r \in ResolveSource(Head(queue)) /\ ManifestTree(r) \in Trees
    /\ tokens' = With(tokens, r.name, r.token)
    /\ packages' = Append(packages, r)
    /\ edges' = With(edges, r.name, NamesOf(world.manifest[ManifestTree(r)]))
    /\ queue' = Tail(queue) \o u
    /\ ToSet(u) = {d \in ToSet(world.manifest[ManifestTree(r)]) : d.name \notin DOMAIN tokens'}
    /\ Len(u) <= Len(world.manifest[ManifestTree(r)])
    /\ UNCHANGED <<world, pc>>

\* Every visit has such a package and such requests.
LEMMA VisitParts ==
    ASSUME TypeOK, Visit
    PROVE  \E r \in Package, u \in Seq(Dependency) : Visits(r, u)
  <1>1. PICK r \in ResolveSource(Head(queue)) :
          /\ ManifestTree(r) \in Trees
          /\ tokens' = With(tokens, r.name, r.token)
          /\ packages' = Append(packages, r)
          /\ edges' = With(edges, r.name, NamesOf(world.manifest[ManifestTree(r)]))
          /\ queue' = Enqueue(Tail(queue), world.manifest[ManifestTree(r)])
    BY DEF Visit
  <1>2. Head(queue) \in Dependency
    BY PoppedSet DEF Visit, TypeOK
  <1>3. r \in Package /\ r.name = Head(queue).name
    BY <1>1, <1>2, SourceTypes
  <1> DEFINE deps == world.manifest[ManifestTree(r)]
             u == Unseen(deps)
  <1>4. deps \in Seq(Dependency)
    BY <1>1, WorldTypes
  <1> HIDE DEF deps
  <1>5. /\ u \in Seq(Dependency)
        /\ ToSet(u) = ToSet(deps) \cap {d \in ToSet(deps) : d.name \notin DOMAIN tokens'}
        /\ Len(u) <= Len(deps)
    BY <1>4, FilteredIs, Zenon DEF Unseen
  <1>6. ToSet(u) = {d \in ToSet(deps) : d.name \notin DOMAIN tokens'}
    BY <1>5
  <1>7. queue' = Tail(queue) \o u
    BY <1>1 DEF Enqueue, deps
  <1> HIDE DEF u
  <1>8. Visits(r, u)
    BY <1>1, <1>3, <1>5, <1>6, <1>7 DEF Visits, Visit, deps
  <1>. QED
    BY <1>3, <1>5, <1>8

\* Nothing is resolved at first.
LEMMA InitTypes == Init => TypeOK
  <1> SUFFICES ASSUME Init PROVE TypeOK
    OBVIOUS
  <1>1. /\ <<>> \in Seq(Dependency) /\ <<>> \in Seq(Package)
        /\ DOMAIN <<>> = {}
    OBVIOUS
  <1>2. <<>> \in [DOMAIN <<>> -> Token] /\ <<>> \in [DOMAIN <<>> -> Seq(Names)]
    BY <1>1
  <1>. QED
    BY <1>1, <1>2 DEF Init, TypeOK

\* What a package inherits from its workspace are dependencies, of the same names.
LEMMA InheritedIs ==
    ASSUME TypeOK, CanInherit(world.manifest[RootTree])
    PROVE  LET deps == world.manifest[RootTree]
               q    == [i \in DOMAIN deps |-> Inherited(deps[i])]
           IN  /\ deps \in Seq(Dependency) /\ q \in Seq(Dependency)
               /\ Asked(q) = Asked(deps)
               /\ ToSet(q) = {Inherited(d) : d \in ToSet(deps)}
  <1> DEFINE deps == world.manifest[RootTree]
             q    == [i \in DOMAIN deps |-> Inherited(deps[i])]
  <1>1. deps \in Seq(Dependency)
    BY WorldTypes, TreeAssumption
  <1>2. /\ Len(deps) \in Nat /\ DOMAIN deps = 1..Len(deps)
        /\ \A i \in DOMAIN deps : deps[i] \in Dependency
    BY <1>1
  <1>3. ASSUME NEW i \in DOMAIN deps
        PROVE  Inherited(deps[i]) \in Dependency /\ Inherited(deps[i]).name = deps[i].name
    BY <1>2, WorldTypes DEF CanInherit, Inherited
  <1> HIDE DEF deps
  <1>4. q \in [1..Len(deps) -> Dependency]
    BY <1>2, <1>3
  <1>5. q \in Seq(Dependency)
    BY <1>2, <1>4
  <1>6. Asked(q) = Asked(deps)
    BY <1>2, <1>3 DEF Asked, ToSet
  <1>7. ToSet(q) = {Inherited(d) : d \in ToSet(deps)}
    BY DEF ToSet
  <1>. QED
    BY <1>1, <1>5, <1>6, <1>7 DEF deps

\* Every step keeps the types.
LEMMA StepTypes == TypeOK /\ [Next]_vars => TypeOK'
  <1> SUFFICES ASSUME TypeOK, [Next]_vars PROVE TypeOK'
    OBVIOUS
  <1>1. CASE LoadFails \/ Fail \/ Finish
    BY <1>1 DEF LoadFails, Fail, Finish, TypeOK
  <1>2. CASE Load
    <2> DEFINE q == [i \in DOMAIN world.manifest[RootTree] |-> Inherited(world.manifest[RootTree][i])]
    <2>1. /\ q \in Seq(Dependency) /\ queue' = q
          /\ edges' = With(edges, Root, NamesOf(world.manifest[RootTree]))
      BY <1>2, InheritedIs, Zenon DEF Load
    <2>2. Root \in Names /\ NamesOf(world.manifest[RootTree]) \in Seq(Names)
      BY WorldTypes, NamesOfIs, OwnerAssumption, TreeAssumption DEF Root
    <2> HIDE DEF q
    <2>3. edges' \in [DOMAIN edges' -> Seq(Names)] /\ DOMAIN edges' \subseteq Names
      BY <2>1, <2>2 DEF With, TypeOK
    <2>. QED
      BY <1>2, <2>1, <2>3 DEF Load, TypeOK
  <1>3. CASE Skip
    BY <1>3, PoppedSet DEF Skip, TypeOK
  <1>4. CASE Visit
    <2>1. PICK r \in Package, u \in Seq(Dependency) : Visits(r, u)
      BY <1>4, VisitParts
    <2>2. NamesOf(world.manifest[ManifestTree(r)]) \in Seq(Names)
      BY <2>1, WorldTypes, NamesOfIs DEF Visits
    <2>3. r.name \in Names /\ r.token \in Token
      BY DEF Package
    <2>4. edges' \in [DOMAIN edges' -> Seq(Names)] /\ DOMAIN edges' \subseteq Names
      BY <2>1, <2>2, <2>3 DEF Visits, With, TypeOK
    <2>5. tokens' \in [DOMAIN tokens' -> Token] /\ DOMAIN tokens' \subseteq Names
      BY <2>1, <2>3 DEF Visits, With, TypeOK
    <2>6. packages' \in Seq(Package)
      BY <2>1, AppendedSet DEF Visits, TypeOK
    <2>7. queue' \in Seq(Dependency)
      BY <2>1, PoppedSet, JoinedSet DEF Visits, TypeOK
    <2>. QED
      BY <2>1, <2>4, <2>5, <2>6, <2>7 DEF Visits, TypeOK
  <1>5. CASE UNCHANGED vars
    BY <1>5 DEF vars, TypeOK
  <1>. QED
    BY <1>1, <1>2, <1>3, <1>4, <1>5 DEF Next

-----------------------------------------------------------------------------
(* The graph                                                                 *)

Walking == pc \in {"walk", "done"}

\* The two maps and the list of packages speak of the same names, each once.
NamesAgree ==
    /\ pc = "load" => queue = <<>> /\ DOMAIN tokens = {} /\ packages = <<>> /\ DOMAIN edges = {}
    /\ pc = "done" => queue = <<>>
    /\ DOMAIN tokens = Asked(packages)
    /\ Walking => DOMAIN edges = {Root} \cup DOMAIN tokens

EachOnce == \A i, j \in DOMAIN packages : packages[i].name = packages[j].name => i = j

\* What a package of the graph asks for is resolved, or waits to be.
TargetsKept ==
    Walking => \A n \in DOMAIN edges : ToSet(edges[n]) \subseteq DOMAIN tokens \cup Asked(queue)

GraphInv == TypeOK /\ NamesAgree /\ EachOnce /\ TargetsKept

\* Nothing is resolved at first, and nobody has asked.
LEMMA InitGraph == Init => GraphInv
  <1> SUFFICES ASSUME Init PROVE GraphInv
    OBVIOUS
  <1>1. TypeOK
    BY InitTypes
  <1>2. DOMAIN <<>> = {}
    OBVIOUS
  <1>3. NamesAgree
    BY <1>2 DEF Init, NamesAgree, Asked, ToSet, Walking
  <1>4. EachOnce /\ TargetsKept
    BY <1>2 DEF Init, EachOnce, TargetsKept, Walking
  <1>. QED
    BY <1>1, <1>3, <1>4 DEF GraphInv

\* What is asked for by a queue is asked for by its head or by the rest.
LEMMA AskedPopped ==
    ASSUME NEW q \in Seq(Dependency), q # <<>>
    PROVE  Asked(q) = {Head(q).name} \cup Asked(Tail(q))
  BY PoppedSet DEF Asked

\* Likewise for the requests of two lists.
LEMMA AskedJoined ==
    ASSUME NEW s \in Seq(Dependency), NEW t \in Seq(Dependency)
    PROVE  Asked(s \o t) = Asked(s) \cup Asked(t)
  BY JoinedSet DEF Asked

\* Every step keeps the names in agreement.
LEMMA StepNamesAgree == GraphInv /\ [Next]_vars => NamesAgree'
  <1> SUFFICES ASSUME GraphInv, [Next]_vars PROVE NamesAgree'
    OBVIOUS
  <1> USE DEF GraphInv, NamesAgree, Walking
  <1>1. CASE LoadFails \/ Fail \/ Finish \/ Skip
    BY <1>1 DEF LoadFails, Fail, Finish, Skip, Asked
  <1>2. CASE Load
    BY <1>2 DEF Load, With, Asked
  <1>3. CASE Visit
    <2>1. PICK r \in Package, u \in Seq(Dependency) : Visits(r, u)
      BY <1>3, VisitParts
    <2>2. Asked(packages') = Asked(packages) \cup {r.name}
      BY <2>1, AppendedSet DEF Visits, TypeOK, Asked
    <2>. QED
      BY <2>1, <2>2 DEF Visits, With
  <1>4. CASE UNCHANGED vars
    BY <1>4 DEF vars, Asked
  <1>. QED
    BY <1>1, <1>2, <1>3, <1>4 DEF Next

\* Every step keeps each package once: its name had no source.
LEMMA StepEachOnce == GraphInv /\ [Next]_vars => EachOnce'
  <1> SUFFICES ASSUME GraphInv, [Next]_vars PROVE EachOnce'
    OBVIOUS
  <1>1. CASE Visit
    <2>1. PICK r \in Package, u \in Seq(Dependency) : Visits(r, u)
      BY <1>1, VisitParts DEF GraphInv
    <2>2. r.name \notin Asked(packages)
      BY <2>1 DEF Visits, GraphInv, NamesAgree
    <2>3. /\ Len(packages) \in Nat /\ DOMAIN packages = 1..Len(packages)
          /\ DOMAIN packages' = 1..(Len(packages) + 1)
          /\ packages'[Len(packages) + 1] = r
          /\ \A i \in DOMAIN packages : packages'[i] = packages[i]
      BY <2>1 DEF Visits, GraphInv, TypeOK
    <2>4. \A i \in DOMAIN packages : packages[i].name # r.name
      BY <2>2 DEF Asked, ToSet
    <2>5. \A i \in DOMAIN packages' : i \in DOMAIN packages \/ i = Len(packages) + 1
      BY <2>3
    <2>. QED
      BY <2>3, <2>4, <2>5 DEF GraphInv, EachOnce
  <1>2. CASE ~Visit
    <2>1. packages' = packages
      BY <1>2 DEF Next, LoadFails, Load, Skip, Fail, Finish, vars
    <2>. QED
      BY <2>1 DEF GraphInv, EachOnce
  <1>. QED
    BY <1>1, <1>2

\* Every step keeps what is asked for resolved or waiting.
LEMMA StepTargetsKept == GraphInv /\ [Next]_vars => TargetsKept'
  <1> SUFFICES ASSUME GraphInv, [Next]_vars PROVE TargetsKept'
    OBVIOUS
  <1> USE DEF GraphInv, TargetsKept, Walking
  <1>1. CASE LoadFails \/ Fail \/ Finish
    BY <1>1 DEF LoadFails, Fail, Finish, Asked
  <1>2. CASE Load
    <2>1. Asked(queue') = Asked(world.manifest[RootTree])
      BY <1>2, InheritedIs, Zenon DEF Load
    <2>2. ToSet(NamesOf(world.manifest[RootTree])) = Asked(world.manifest[RootTree])
      BY WorldTypes, TreeAssumption, NamesOfIs
    <2>3. DOMAIN edges' = {Root} /\ edges'[Root] = NamesOf(world.manifest[RootTree])
      BY <1>2 DEF Load, NamesAgree, With
    <2>. QED
      BY <2>1, <2>2, <2>3
  <1>3. CASE Skip
    <2>1. Asked(queue) = {Head(queue).name} \cup Asked(Tail(queue))
      BY <1>3, AskedPopped DEF Skip, TypeOK
    <2>. QED
      BY <1>3, <2>1 DEF Skip
  <1>4. CASE Visit
    <2>1. PICK r \in Package, u \in Seq(Dependency) : Visits(r, u)
      BY <1>4, VisitParts
    <2> DEFINE deps == world.manifest[ManifestTree(r)]
    <2>2. Asked(queue) = {r.name} \cup Asked(Tail(queue)) /\ Tail(queue) \in Seq(Dependency)
      BY <2>1, AskedPopped, PoppedSet DEF Visits, TypeOK
    <2>3. Asked(queue') = Asked(Tail(queue)) \cup Asked(u)
      BY <2>1, <2>2, AskedJoined DEF Visits
    <2>4. Asked(deps) \subseteq DOMAIN tokens' \cup Asked(u)
      BY <2>1 DEF Visits, Asked
    <2>5. DOMAIN tokens' = DOMAIN tokens \cup {r.name}
      BY <2>1 DEF Visits, With
    <2>6. ToSet(NamesOf(deps)) = Asked(deps)
      BY <2>1, WorldTypes, NamesOfIs DEF Visits
    <2>7. /\ DOMAIN edges' = DOMAIN edges \cup {r.name} /\ edges'[r.name] = NamesOf(deps)
          /\ \A n \in DOMAIN edges \ {r.name} : edges'[n] = edges[n]
      BY <2>1 DEF Visits, With
    <2>8. \A n \in DOMAIN edges : ToSet(edges[n]) \subseteq DOMAIN tokens \cup Asked(queue)
      BY <2>1 DEF Visits
    <2> HIDE DEF deps
    <2>. QED
      BY <2>2, <2>3, <2>4, <2>5, <2>6, <2>7, <2>8
  <1>5. CASE UNCHANGED vars
    BY <1>5 DEF vars, Asked
  <1>. QED
    BY <1>1, <1>2, <1>3, <1>4, <1>5 DEF Next

\* The graph invariant is inductive.
LEMMA GraphInvariant == Spec => []GraphInv
  <1>1. GraphInv /\ [Next]_vars => GraphInv'
    BY StepTypes, StepNamesAgree, StepEachOnce, StepTargetsKept DEF GraphInv
  <1>. QED
    BY <1>1, InitGraph, PTL DEF Spec

\* Every variable keeps its type.
THEOREM ResolutionTypeOK == Spec => []TypeOK
  BY GraphInvariant, PTL DEF GraphInv

\* When the queue is empty, what is asked for is resolved.
LEMMA ClosedAtEnd ==
    ASSUME GraphInv, pc = "done"
    PROVE  \A n \in DOMAIN edges : ToSet(edges[n]) \subseteq Asked(packages)
  <1>1. Asked(queue) = {}
    BY DEF GraphInv, NamesAgree, Asked, ToSet
  <1>. QED
    BY <1>1 DEF GraphInv, NamesAgree, TargetsKept, Walking

\* Whatever the manifests say, two packages of one name included, a finished
\* resolution holds each name once and everything its packages ask for.
ClosedGraph ==
    pc = "done" =>
        /\ \A i, j \in DOMAIN packages : packages[i].name = packages[j].name => i = j
        /\ \A n \in DOMAIN edges : ToSet(edges[n]) \subseteq {p.name : p \in ToSet(packages)}

\* No package twice, and none missing, for any graph, with cycles or without.
THEOREM GraphIsClosed == Spec => []ClosedGraph
  <1>1. GraphInv => ClosedGraph
    BY ClosedAtEnd DEF ClosedGraph, GraphInv, EachOnce, Asked
  <1>. QED
    BY <1>1, GraphInvariant, PTL

-----------------------------------------------------------------------------
(* The end of the walk                                                       *)

\* No manifest a resolution may read lists more than `most` dependencies.
AtMost(most) == \A i \in DOMAIN Worlds : \A w \in Worlds[i] : \A t \in Trees : Len(w.manifest[t]) <= most

\* The turns the walk can still take: the requests in the queue, and those that
\* the packages not resolved so far may add.
TurnsLeft(most) == Len(queue) + most * Cardinality(Names \ DOMAIN tokens)

\* Every step within the walk uses up at least one turn.
WalkShortens(most) == pc = "walk" /\ pc' = "walk" => TurnsLeft(most)' < TurnsLeft(most)

\* The turns left are a number, as long as the names are finitely many.
LEMMA TurnsAreCounted ==
    ASSUME IsFiniteSet(Names), NEW most \in Nat, TypeOK
    PROVE  /\ IsFiniteSet(Names \ DOMAIN tokens) /\ Cardinality(Names \ DOMAIN tokens) \in Nat
           /\ most * Cardinality(Names \ DOMAIN tokens) \in Nat
           /\ Len(queue) \in Nat /\ TurnsLeft(most) \in Nat
  <1>1. IsFiniteSet(Names \ DOMAIN tokens)
    BY FS_Subset
  <1>2. Cardinality(Names \ DOMAIN tokens) \in Nat
    BY <1>1, FS_CardinalityType
  <1>3. Len(queue) \in Nat
    BY DEF TypeOK
  <1>4. most * Cardinality(Names \ DOMAIN tokens) \in Nat
    BY <1>2
  <1>. QED
    BY <1>1, <1>2, <1>3, <1>4 DEF TurnsLeft

\* A visit adds at most `most` requests, and takes one name out of those that
\* could add any: the queue only pays for a name once.
LEMMA VisitShortens ==
    ASSUME IsFiniteSet(Names), NEW most \in Nat, AtMost(most), TypeOK, Visit
    PROVE  TurnsLeft(most)' < TurnsLeft(most)
  <1> DEFINE k == Cardinality(Names \ DOMAIN tokens)
  <1>1. PICK r \in Package, u \in Seq(Dependency) : Visits(r, u)
    BY VisitParts
  <1>2. r.name \in Names \ DOMAIN tokens
    BY <1>1 DEF Visits, Package
  <1>3. Names \ DOMAIN tokens' = (Names \ DOMAIN tokens) \ {r.name}
    BY <1>1 DEF Visits, With
  <1>4. Cardinality(Names \ DOMAIN tokens') = k - 1 /\ k \in Nat
    <2> DEFINE S == Names \ DOMAIN tokens
    <2>1. IsFiniteSet(S) /\ Cardinality(S) \in Nat
      BY TurnsAreCounted
    <2>2. r.name \in S /\ Names \ DOMAIN tokens' = S \ {r.name}
      BY <1>2, <1>3
    <2> HIDE DEF S
    <2>3. Cardinality(S \ {r.name}) = Cardinality(S) - 1
      BY <2>1, <2>2, FS_RemoveElement
    <2>. QED
      BY <2>1, <2>2, <2>3 DEF S
  <1>5. Len(u) \in 0..most
    <2>1. PICK i \in DOMAIN Worlds : world \in Worlds[i]
      BY DEF TypeOK
    <2>2. Len(world.manifest[ManifestTree(r)]) <= most
      BY <1>1, <2>1 DEF AtMost, Visits
    <2>3. Len(world.manifest[ManifestTree(r)]) \in Nat
      BY <1>1, WorldTypes DEF Visits
    <2>. QED
      BY <1>1, <2>2, <2>3 DEF Visits
  <1>6. Len(queue') = Len(queue) - 1 + Len(u) /\ Len(queue) \in Nat
    BY <1>1 DEF Visits, TypeOK
  <1>7. most * (k - 1) = most * k - most /\ most * k \in Nat
    BY <1>4
  <1> HIDE DEF k
  <1>8. Len(queue') + most * (k - 1) < Len(queue) + most * k
    BY <1>5, <1>6, <1>7
  <1>. QED
    BY <1>4, <1>8 DEF TurnsLeft, k

\* resolve_graph ends on any graph of finitely many names, cycles and packages
\* that ask for themselves included: each turn of its loop leaves fewer turns,
\* and their number is at first that of the package's own dependencies plus
\* what every name may add.
THEOREM WalkEnds ==
    ASSUME IsFiniteSet(Names), NEW most \in Nat, AtMost(most)
    PROVE  /\ Spec => [](TurnsLeft(most) \in Nat)
           /\ Spec => [][WalkShortens(most)]_vars
  <1>1. TypeOK => TurnsLeft(most) \in Nat
    BY TurnsAreCounted
  <1>2. TypeOK /\ [Next]_vars => [WalkShortens(most)]_vars
    <2> SUFFICES ASSUME TypeOK, Next, pc = "walk", pc' = "walk"
                 PROVE  TurnsLeft(most)' < TurnsLeft(most)
      BY DEF WalkShortens
    <2>1. CASE Visit
      BY <2>1, VisitShortens
    <2>2. CASE Skip
      <3>1. Len(queue') = Len(queue) - 1 /\ Len(queue) \in Nat /\ tokens' = tokens
        BY <2>2 DEF Skip, TypeOK
      <3>2. most * Cardinality(Names \ DOMAIN tokens) \in Nat
        BY TurnsAreCounted
      <3>. QED
        BY <3>1, <3>2 DEF TurnsLeft
    <2>. QED
      BY <2>1, <2>2 DEF Next, LoadFails, Load, Fail, Finish
  <1>. QED
    BY <1>1, <1>2, ResolutionTypeOK, PTL DEF Spec

-----------------------------------------------------------------------------
(* The order of the walk                                                     *)

\* Position 0 is the package that is built, position i the i-th that was resolved.
NameAt(i) == IF i = 0 THEN Root ELSE packages[i].name
AsksAt(i) == IF i = 0 THEN {Inherited(d) : d \in ToSet(world.manifest[RootTree])}
             ELSE ToSet(world.manifest[ManifestTree(packages[i])])
Calls(i, x) == \E d \in AsksAt(i) : d.name = x

Positions == 0..Len(packages)

\* f[i] is the position that package i was resolved for, a[j] the one that
\* waits for request j.
Came(f) ==
    \A i \in DOMAIN packages :
        /\ f[i] < i
        /\ \E spec \in AsksAt(f[i]) : spec.name = packages[i].name /\ packages[i] \in ResolveSource(spec)
Waits(a) ==
    \A j \in DOMAIN queue : a[j] <= Len(packages) /\ queue[j] \in AsksAt(a[j])

\* Those who came earlier are served earlier.
InTurn(f, a) ==
    /\ \A i, j \in DOMAIN packages : i <= j => f[i] <= f[j]
    /\ \A i \in DOMAIN packages, j \in DOMAIN queue : f[i] <= a[j]
    /\ \A i, j \in DOMAIN queue : i <= j => a[i] <= a[j]

\* A package was resolved for the first that asks for it.
First(f) == \A k \in Positions, i \in DOMAIN packages : Calls(k, packages[i].name) => f[i] <= k

\* Whoever asks for a package has it, or waits for it no longer than others.
Served(a) ==
    \A k \in Positions, x \in Names :
        Calls(k, x) => x \in DOMAIN tokens \/ \E j \in DOMAIN queue : queue[j].name = x /\ a[j] <= k

InOrder(f, a) == Came(f) /\ Waits(a) /\ InTurn(f, a) /\ First(f) /\ Served(a)

OrderInv ==
    Walking =>
        /\ CanInherit(world.manifest[RootTree])
        /\ \A i \in DOMAIN packages : ManifestTree(packages[i]) \in Trees
        /\ \E f \in [1..Len(packages) -> Nat], a \in [1..Len(queue) -> Nat] : InOrder(f, a)

\* What is found at a source depends on the world alone.
LEMMA SourcesStay ==
    ASSUME world' = world
    PROVE  \A spec : ResolveSource(spec)' = ResolveSource(spec)
  <1> TAKE spec
  <1>1. \A s, tree, token : At(s, tree, token)' = At(s, tree, token)
    BY DEF At
  <1>2. ResolveRegistry(spec)' = ResolveRegistry(spec)
    BY <1>1 DEF ResolveRegistry
  <1>. QED
    BY <1>1, <1>2 DEF ResolveSource, ResolvePath, ResolveGit, ResolveBundled

\* What a visit leaves of the positions, and what it adds to them.
LEMMA VisitPositions ==
    ASSUME GraphInv, NEW r \in Package, NEW u \in Seq(Dependency), Visits(r, u)
    PROVE  /\ Len(packages) \in Nat /\ DOMAIN packages = 1..Len(packages)
           /\ Len(packages') = Len(packages) + 1 /\ DOMAIN packages' = 1..(Len(packages) + 1)
           /\ packages'[Len(packages) + 1] = r
           /\ \A i \in DOMAIN packages : packages'[i] = packages[i]
           /\ \A i \in Positions : AsksAt(i)' = AsksAt(i) /\ NameAt(i)' = NameAt(i)
           /\ \A k : k = Len(packages) + 1 => AsksAt(k)' = ToSet(world.manifest[ManifestTree(r)])
  <1>1. /\ Len(packages) \in Nat /\ DOMAIN packages = 1..Len(packages)
        /\ Len(packages') = Len(packages) + 1 /\ DOMAIN packages' = 1..(Len(packages) + 1)
        /\ packages'[Len(packages) + 1] = r
        /\ \A i \in DOMAIN packages : packages'[i] = packages[i]
    BY DEF Visits, GraphInv, TypeOK
  <1>2. world' = world
    BY DEF Visits
  <1>3. ASSUME NEW i \in Positions PROVE AsksAt(i)' = AsksAt(i) /\ NameAt(i)' = NameAt(i)
    BY <1>1, <1>2 DEF Positions, AsksAt, NameAt, Inherited, ManifestTree
  <1>4. ASSUME NEW k, k = Len(packages) + 1 PROVE AsksAt(k)' = ToSet(world.manifest[ManifestTree(r)])
    <2>1. k # 0 /\ packages'[k] = r
      BY <1>1, <1>4
    <2>. QED
      BY <1>2, <2>1 DEF AsksAt, ManifestTree
  <1>. QED
    BY <1>1, <1>3, <1>4

\* What a visit makes of the queue.
LEMMA VisitQueue ==
    ASSUME GraphInv, NEW r \in Package, NEW u \in Seq(Dependency), Visits(r, u)
    PROVE  /\ Len(queue) \in Nat \ {0} /\ DOMAIN queue = 1..Len(queue)
           /\ Len(u) \in Nat /\ DOMAIN u = 1..Len(u)
           /\ queue[1].name = r.name /\ r \in ResolveSource(queue[1])
           /\ Len(queue') = Len(queue) - 1 + Len(u)
           /\ DOMAIN queue' = 1..(Len(queue) - 1 + Len(u))
           /\ \A j \in 1..(Len(queue) - 1) : queue'[j] = queue[j + 1]
           /\ \A j \in 1..Len(u) : queue'[Len(queue) - 1 + j] = u[j]
  <1>1. /\ Len(queue) \in Nat \ {0} /\ DOMAIN queue = 1..Len(queue)
        /\ Head(queue) = queue[1]
        /\ Tail(queue) \in Seq(Dependency) /\ Len(Tail(queue)) = Len(queue) - 1
        /\ \A j \in 1..(Len(queue) - 1) : Tail(queue)[j] = queue[j + 1]
    BY DEF Visits, GraphInv, TypeOK
  <1>2. Len(u) \in Nat /\ DOMAIN u = 1..Len(u)
    OBVIOUS
  <1>3. queue' = Tail(queue) \o u
    BY DEF Visits
  <1>. QED
    BY <1>1, <1>2, <1>3 DEF Visits

\* A visit keeps the order: the package was asked for by the one that has waited
\* longest, and what it asks for waits behind all others.
LEMMA VisitInOrder ==
    ASSUME GraphInv, NEW r \in Package, NEW u \in Seq(Dependency), Visits(r, u),
           \A i \in DOMAIN packages : ManifestTree(packages[i]) \in Trees,
           CanInherit(world.manifest[RootTree]),
           NEW f \in [1..Len(packages) -> Nat], NEW a \in [1..Len(queue) -> Nat], InOrder(f, a)
    PROVE  \E g \in [1..Len(packages') -> Nat], b \in [1..Len(queue') -> Nat] : InOrder(g, b)'
  <1>0. PICK n, m, l : n = Len(packages) /\ m = Len(queue) /\ l = Len(u)
    OBVIOUS
  <1>1. /\ n \in Nat /\ DOMAIN packages = 1..n
        /\ Len(packages') = n + 1 /\ DOMAIN packages' = 1..(n + 1)
        /\ packages'[n + 1] = r
        /\ \A i \in 1..n : packages'[i] = packages[i]
        /\ \A i \in 0..n : AsksAt(i)' = AsksAt(i)
        /\ \A k : k = n + 1 => AsksAt(k)' = ToSet(world.manifest[ManifestTree(r)])
    BY <1>0, VisitPositions DEF Positions
  <1>2. /\ m \in Nat \ {0} /\ DOMAIN queue = 1..m
        /\ l \in Nat /\ DOMAIN u = 1..l
        /\ queue[1].name = r.name /\ r \in ResolveSource(queue[1])
        /\ Len(queue') = m - 1 + l /\ DOMAIN queue' = 1..(m - 1 + l)
        /\ \A j \in 1..(m - 1) : queue'[j] = queue[j + 1]
        /\ \A j \in 1..l : queue'[m - 1 + j] = u[j]
    BY <1>0, VisitQueue
  <1>3. /\ \A j \in 1..m : a[j] \in Nat /\ a[j] <= n /\ queue[j] \in AsksAt(a[j])
        /\ \A i \in 1..n : f[i] \in Nat /\ f[i] < i
    BY <1>0, <1>1, <1>2 DEF InOrder, Waits, Came
  <1>t. /\ \A i, j \in 1..n : i <= j => f[i] <= f[j]
        /\ \A i \in 1..n, j \in 1..m : f[i] <= a[j]
        /\ \A i, j \in 1..m : i <= j => a[i] <= a[j]
    BY <1>1, <1>2 DEF InOrder, InTurn
  <1>f. \A k \in 0..n, i \in 1..n : Calls(k, packages[i].name) => f[i] <= k
    BY <1>0, <1>1 DEF InOrder, First, Positions
  <1>s. \A k \in 0..n, x \in Names :
            Calls(k, x) => x \in DOMAIN tokens \/ \E j \in 1..m : queue[j].name = x /\ a[j] <= k
    BY <1>0, <1>2 DEF InOrder, Served, Positions
  <1>4. \A spec : ResolveSource(spec)' = ResolveSource(spec)
    BY SourcesStay DEF Visits
  <1>5. \A k \in 1..l : u[k] \in ToSet(world.manifest[ManifestTree(r)])
    BY <1>2 DEF Visits, ToSet
  <1>6. DOMAIN tokens' = DOMAIN tokens \cup {r.name} /\ r.name \notin DOMAIN tokens
    BY DEF Visits, With
  <1>7. PICK g \in [1..(n + 1) -> Nat] : g[n + 1] = a[1] /\ \A i \in 1..n : g[i] = f[i]
    <2> DEFINE h == [i \in 1..(n + 1) |-> IF i = n + 1 THEN a[1] ELSE f[i]]
    <2>1. h \in [1..(n + 1) -> Nat] /\ h[n + 1] = a[1] /\ \A i \in 1..n : h[i] = f[i]
      BY <1>1, <1>2, <1>3
    <2>. QED
      BY <2>1
  <1>8. PICK b \in [1..(m - 1 + l) -> Nat] :
            /\ \A j \in 1..(m - 1) : b[j] = a[j + 1]
            /\ \A j \in 1..l : b[m - 1 + j] = n + 1
    <2> DEFINE c == [j \in 1..(m - 1 + l) |-> IF j < m THEN a[j + 1] ELSE n + 1]
    <2>1. ASSUME NEW j \in 1..(m - 1 + l), j < m PROVE a[j + 1] \in Nat
      BY <1>2, <1>3, <2>1
    <2>2. c \in [1..(m - 1 + l) -> Nat]
      BY <1>1, <2>1
    <2>3. \A j \in 1..(m - 1) : j \in 1..(m - 1 + l) /\ j < m
      BY <1>2
    <2>4. \A j \in 1..l : m - 1 + j \in 1..(m - 1 + l) /\ ~(m - 1 + j < m)
      BY <1>2
    <2>. QED
      BY <2>2, <2>3, <2>4
  <1>9. ASSUME NEW j \in 1..(m - 1 + l)
        PROVE  \/ /\ j < m /\ j \in 1..(m - 1) /\ j + 1 \in 1..m
                  /\ b[j] = a[j + 1] /\ queue'[j] = queue[j + 1]
               \/ j >= m /\ b[j] = n + 1 /\ \E i \in 1..l : queue'[j] = u[i]
    <2>1. CASE j < m
      BY <1>2, <1>8, <2>1
    <2>2. CASE j >= m
      <3> DEFINE i == j - (m - 1)
      <3>1. i \in 1..l /\ j = m - 1 + i
        BY <1>2, <2>2
      <3> HIDE DEF i
      <3>. QED
        BY <1>2, <1>8, <2>2, <3>1
    <2>. QED
      BY <1>2, <2>1, <2>2
  <1>10. Came(g)'
    <2>1. ASSUME NEW i \in 1..(n + 1)
          PROVE  /\ g[i] < i
                 /\ \E spec \in AsksAt(g[i])' :
                      spec.name = packages'[i].name /\ packages'[i] \in ResolveSource(spec)
      <3>1. CASE i \in 1..n
        <4>1. f[i] \in 0..n /\ g[i] = f[i] /\ packages'[i] = packages[i]
          BY <1>1, <1>3, <1>7, <3>1
        <4>. QED
          BY <1>1, <3>1, <4>1 DEF InOrder, Came
      <3>2. CASE i = n + 1
        <4>0. 1 \in 1..m
          BY <1>2
        <4>1. a[1] \in 0..n /\ queue[1] \in AsksAt(a[1])
          BY <1>1, <1>3, <4>0
        <4>2. g[i] = a[1] /\ packages'[i] = r /\ AsksAt(a[1])' = AsksAt(a[1]) /\ a[1] < i
          BY <1>1, <1>7, <3>2, <4>1
        <4>. QED
          BY <1>2, <4>1, <4>2
      <3>. QED
        BY <1>1, <3>1, <3>2
    <2>. QED
      BY <1>1, <1>4, <2>1 DEF Came
  <1>11. Waits(b)'
    <2>1. ASSUME NEW j \in 1..(m - 1 + l)
          PROVE  b[j] <= n + 1 /\ queue'[j] \in AsksAt(b[j])'
      <3>1. CASE j < m
        <4>0. ~(j >= m)
          BY <1>2, <3>1
        <4>1. j + 1 \in 1..m /\ b[j] = a[j + 1] /\ queue'[j] = queue[j + 1]
          BY <1>9, <4>0
        <4>2. a[j + 1] \in 0..n /\ queue[j + 1] \in AsksAt(a[j + 1])
          BY <1>1, <1>3, <4>1
        <4>. QED
          BY <1>1, <4>1, <4>2
      <3>2. CASE j >= m
        <4>1. b[j] = n + 1 /\ \E i \in 1..l : queue'[j] = u[i]
          BY <1>2, <1>9, <3>2
        <4>. QED
          BY <1>1, <1>5, <4>1
      <3>. QED
        BY <1>2, <3>1, <3>2
    <2>. QED
      BY <1>1, <1>2, <2>1 DEF Waits
  <1>12. InTurn(g, b)'
    <2>1. \A j \in 1..m : a[1] <= a[j]
      BY <1>2, <1>t
    <2>2. \A i \in 1..n, j \in 1..m : f[i] <= a[j]
      BY <1>t
    <2>3. \A i, j \in 1..(n + 1) : i <= j => g[i] <= g[j]
      <3> SUFFICES ASSUME NEW i \in 1..(n + 1), NEW j \in 1..(n + 1), i <= j PROVE g[i] <= g[j]
        OBVIOUS
      <3>1. CASE i \in 1..n /\ j \in 1..n
        BY <1>1, <1>7, <1>t, <3>1
      <3>2. CASE i \in 1..n /\ j = n + 1
        BY <1>1, <1>2, <1>7, <2>2, <3>2
      <3>3. CASE i = n + 1 /\ j = n + 1
        BY <1>1, <1>2, <1>3, <1>7, <3>3
      <3>. QED
        BY <1>1, <3>1, <3>2, <3>3
    <2>4. ASSUME NEW j \in 1..(m - 1 + l)
          PROVE  \/ j >= m /\ b[j] = n + 1
                 \/ j < m /\ j + 1 \in 1..m /\ b[j] = a[j + 1]
      BY <1>9, Zenon
    <2>5. ASSUME NEW i \in 1..(n + 1)
          PROVE  g[i] \in Nat /\ g[i] <= n /\ \A j \in 1..m : g[i] <= a[j]
      <3>1. CASE i = n + 1
        BY <1>2, <1>3, <1>7, <2>1, <3>1
      <3>2. CASE i \in 1..n
        BY <1>1, <1>3, <1>7, <2>2, <3>2
      <3>. QED
        BY <1>1, <3>1, <3>2
    <2>6. ASSUME NEW i \in 1..(n + 1), NEW j \in 1..(m - 1 + l) PROVE g[i] <= b[j]
      <3>1. g[i] \in Nat /\ g[i] <= n /\ \A k \in 1..m : g[i] <= a[k]
        BY <2>5
      <3>2. CASE b[j] = n + 1
        <4>1. n \in Nat /\ g[i] \in Nat /\ g[i] <= n
          BY <1>1, <3>1, Zenon
        <4>2. g[i] <= n + 1
          BY <4>1
        <4>. QED
          BY <3>2, <4>2, Zenon
      <3>3. CASE j + 1 \in 1..m /\ b[j] = a[j + 1]
        <4>1. g[i] <= a[j + 1]
          BY <3>1, <3>3, Zenon
        <4>. QED
          BY <3>3, <4>1
      <3>. QED
        BY <2>4, <3>2, <3>3
    <2>7. ASSUME NEW i \in 1..(m - 1 + l), NEW j \in 1..(m - 1 + l), i <= j
          PROVE  b[i] <= b[j]
      <3>1. CASE j >= m
        <4>1. b[j] = n + 1
          BY <1>2, <2>4, <3>1
        <4>2. \A k \in 1..m : a[k] <= n + 1
          BY <1>1, <1>3
        <4>3. b[i] = n + 1 \/ \E k \in 1..m : b[i] = a[k]
          BY <2>4, Zenon
        <4>4. n + 1 <= n + 1
          BY <1>1
        <4>. QED
          BY <4>1, <4>2, <4>3, <4>4, Zenon
      <3>2. CASE j < m
        <4>1. i < m
          BY <1>2, <2>7, <3>2
        <4>2. /\ i + 1 \in 1..m /\ j + 1 \in 1..m /\ i + 1 <= j + 1
              /\ b[i] = a[i + 1] /\ b[j] = a[j + 1]
          BY <1>2, <2>4, <2>7, <3>2, <4>1
        <4>. QED
          BY <1>t, <4>2
      <3>. QED
        BY <1>2, <3>1, <3>2
    <2>. QED
      BY <1>1, <1>2, <2>3, <2>6, <2>7 DEF InTurn
  <1>13. First(g)'
    <2>1. ASSUME NEW k \in 0..(n + 1), NEW i \in 1..(n + 1), Calls(k, packages[i].name)'
          PROVE  g[i] <= k
      <3>1. g[i] \in 0..n
        <4>1. CASE i \in 1..n
          BY <1>1, <1>3, <1>7, <4>1
        <4>2. CASE i = n + 1
          BY <1>1, <1>2, <1>3, <1>7, <4>2
        <4>. QED
          BY <1>1, <4>1, <4>2
      <3>2. CASE k = n + 1
        BY <1>1, <3>1, <3>2
      <3>3. CASE k \in 0..n /\ i \in 1..n
        <4>1. Calls(k, packages[i].name)
          BY <1>1, <2>1, <3>3 DEF Calls
        <4>. QED
          BY <1>7, <1>f, <3>3, <4>1
      <3>4. CASE k \in 0..n /\ i = n + 1
        <4>1. Calls(k, r.name)
          BY <1>1, <2>1, <3>4 DEF Calls
        <4>2. PICK j \in 1..m : queue[j].name = r.name /\ a[j] <= k
          BY <1>6, <1>s, <3>4, <4>1 DEF Package
        <4>3. a[1] <= a[j]
          BY <1>2, <1>t
        <4>4. g[i] = a[1] /\ 1 \in 1..m
          BY <1>2, <1>7, <3>4
        <4>5. a[1] \in Nat /\ a[j] \in Nat /\ k \in Nat
          BY <1>1, <1>3, <3>4, <4>4
        <4>. QED
          BY <4>2, <4>3, <4>4, <4>5
      <3>. QED
        BY <1>1, <3>2, <3>3, <3>4
    <2>. QED
      BY <1>1, <2>1 DEF First, Positions
  <1>14. Served(b)'
    <2>1. ASSUME NEW k \in 0..(n + 1), NEW x \in Names, Calls(k, x)', x \notin DOMAIN tokens'
          PROVE  \E j \in 1..(m - 1 + l) : queue'[j].name = x /\ b[j] <= k
      <3>1. CASE k \in 0..n
        <4>1. Calls(k, x)
          BY <1>1, <2>1, <3>1 DEF Calls
        <4>2. PICK j \in 1..m : queue[j].name = x /\ a[j] <= k
          BY <1>6, <1>s, <2>1, <3>1, <4>1
        <4>3. j # 1
          BY <1>2, <1>6, <2>1, <4>2
        <4>0. m \in Nat \ {0} /\ l \in Nat
          BY <1>2
        <4>4. j - 1 \in 1..(m - 1) /\ j = (j - 1) + 1 /\ j - 1 \in 1..(m - 1 + l)
          BY <4>0, <4>3
        <4>5. queue'[j - 1] = queue[j] /\ b[j - 1] = a[j]
          BY <1>2, <1>8, <4>4
        <4>. QED
          BY <4>2, <4>4, <4>5
      <3>2. CASE k = n + 1
        <4>1. PICK d \in ToSet(world.manifest[ManifestTree(r)]) : d.name = x
          BY <1>1, <2>1, <3>2 DEF Calls
        <4>2. d \in ToSet(u)
          BY <2>1, <4>1 DEF Visits
        <4>3. PICK i \in 1..l : u[i] = d
          BY <1>2, <4>2 DEF ToSet
        <4>4. queue'[m - 1 + i] = d /\ b[m - 1 + i] = n + 1
          <5>1. queue'[m - 1 + i] = u[i]
            BY <1>2, Zenon
          <5>2. b[m - 1 + i] = n + 1
            BY <1>8, Zenon
          <5>. QED
            BY <4>3, <5>1, <5>2
        <4>5. m \in Nat \ {0} /\ l \in Nat
          BY <1>2
        <4>6. m - 1 + i \in 1..(m - 1 + l)
          BY <4>5
        <4>. QED
          BY <1>1, <3>2, <4>1, <4>4, <4>6
      <3>. QED
        BY <1>1, <3>1, <3>2
    <2>. QED
      BY <1>1, <1>2, <2>1 DEF Served, Positions
  <1>. QED
    BY <1>1, <1>2, <1>7, <1>8, <1>10, <1>11, <1>12, <1>13, <1>14 DEF InOrder

\* A request that is skipped was served, so that nobody waits for it.
LEMMA SkipInOrder ==
    ASSUME GraphInv, Skip,
           NEW f \in [1..Len(packages) -> Nat], NEW a \in [1..Len(queue) -> Nat], InOrder(f, a)
    PROVE  \E g \in [1..Len(packages') -> Nat], b \in [1..Len(queue') -> Nat] : InOrder(g, b)'
  <1>0. PICK m : m = Len(queue)
    OBVIOUS
  <1>1. /\ m \in Nat \ {0} /\ DOMAIN queue = 1..m /\ Head(queue) = queue[1]
        /\ DOMAIN queue' = 1..(m - 1) /\ Len(queue') = m - 1
        /\ \A j \in 1..(m - 1) : queue'[j] = queue[j + 1]
    BY <1>0 DEF Skip, GraphInv, TypeOK
  <1>2. /\ world' = world /\ packages' = packages /\ tokens' = tokens
        /\ Head(queue).name \in DOMAIN tokens
    BY DEF Skip
  <1>3. /\ \A k : AsksAt(k)' = AsksAt(k)
        /\ \A k, x : Calls(k, x)' <=> Calls(k, x)
        /\ Positions' = Positions
    BY <1>2 DEF AsksAt, Calls, Positions, Inherited, ManifestTree
  <1>4. \A spec : ResolveSource(spec)' = ResolveSource(spec)
    BY <1>2, SourcesStay
  <1>5. \A j \in 1..(m - 1) : j + 1 \in 1..m /\ a[j + 1] \in Nat
    BY <1>0, <1>1
  <1>6. PICK b \in [1..(m - 1) -> Nat] : \A j \in 1..(m - 1) : b[j] = a[j + 1]
    <2> DEFINE c == [j \in 1..(m - 1) |-> a[j + 1]]
    <2>1. c \in [1..(m - 1) -> Nat]
      BY <1>5
    <2>. QED
      BY <2>1
  <1>7. Came(f)'
    BY <1>2, <1>3, <1>4 DEF InOrder, Came
  <1>8. Waits(b)'
    BY <1>1, <1>2, <1>3, <1>5, <1>6 DEF InOrder, Waits
  <1>9. InTurn(f, b)'
    <2>1. \A i, j \in 1..m : i <= j => a[i] <= a[j]
      BY <1>1 DEF InOrder, InTurn
    <2>2. ASSUME NEW i \in 1..(m - 1), NEW j \in 1..(m - 1), i <= j PROVE b[i] <= b[j]
      <3>1. i + 1 \in 1..m /\ j + 1 \in 1..m /\ i + 1 <= j + 1
        BY <1>1, <2>2
      <3>. QED
        BY <1>6, <2>1, <3>1
    <2>3. \A i \in DOMAIN packages, j \in 1..(m - 1) : f[i] <= b[j]
      BY <1>1, <1>5, <1>6 DEF InOrder, InTurn
    <2>4. \A i, j \in DOMAIN packages : i <= j => f[i] <= f[j]
      BY DEF InOrder, InTurn
    <2>. QED
      BY <1>1, <1>2, <2>2, <2>3, <2>4 DEF InTurn
  <1>10. First(f)'
    BY <1>2, <1>3 DEF InOrder, First
  <1>11. Served(b)'
    <2>1. ASSUME NEW k \in Positions, NEW x \in Names, Calls(k, x), x \notin DOMAIN tokens
          PROVE  \E j \in 1..(m - 1) : queue'[j].name = x /\ b[j] <= k
      <3>1. PICK j \in 1..m : queue[j].name = x /\ a[j] <= k
        BY <1>1, <2>1 DEF InOrder, Served
      <3>2. j # 1
        BY <1>1, <1>2, <2>1, <3>1
      <3>3. j - 1 \in 1..(m - 1) /\ j = (j - 1) + 1
        BY <1>1, <3>2
      <3>. QED
        BY <1>1, <1>6, <3>1, <3>3
    <2>. QED
      BY <1>1, <1>2, <1>3, <2>1 DEF Served
  <1>. QED
    BY <1>1, <1>2, <1>6, <1>7, <1>8, <1>9, <1>10, <1>11 DEF InOrder

\* The order holds when the walk begins: position 0 waits for all of the queue.
LEMMA LoadInOrder ==
    ASSUME GraphInv, Load
    PROVE  \E f \in [1..Len(packages') -> Nat], a \in [1..Len(queue') -> Nat] : InOrder(f, a)'
  <1>1. /\ Len(packages) = 0 /\ DOMAIN packages = {} /\ packages' = packages /\ world' = world
        /\ CanInherit(world.manifest[RootTree])
    BY DEF GraphInv, NamesAgree, Load
  <1>2. queue' \in Seq(Dependency) /\ ToSet(queue') = {Inherited(d) : d \in ToSet(world.manifest[RootTree])}
    BY <1>1, InheritedIs, Zenon DEF Load, GraphInv
  <1>3. PICK m : m = Len(queue')
    OBVIOUS
  <1>4. m \in Nat /\ DOMAIN queue' = 1..m /\ \A j \in 1..m : queue'[j] \in ToSet(queue')
    BY <1>2, <1>3 DEF ToSet
  <1>5. AsksAt(0)' = ToSet(queue')
    BY <1>1, <1>2 DEF AsksAt, Inherited
  <1>6. PICK a \in [1..m -> Nat] : \A j \in 1..m : a[j] = 0
    <2>1. [j \in 1..m |-> 0] \in [1..m -> Nat]
      OBVIOUS
    <2>. QED
      BY <2>1
  <1>7. PICK f \in [1..0 -> Nat] : TRUE
    <2>1. [j \in 1..0 |-> 0] \in [1..0 -> Nat]
      OBVIOUS
    <2>. QED
      BY <2>1
  <1>8. Came(f)' /\ First(f)'
    BY <1>1 DEF Came, First
  <1>9. Waits(a)'
    BY <1>1, <1>4, <1>5, <1>6 DEF Waits
  <1>10. InTurn(f, a)'
    BY <1>1, <1>4, <1>6 DEF InTurn
  <1>11. Served(a)'
    <2>1. ASSUME NEW x \in Names, Calls(0, x)' PROVE \E j \in 1..m : queue'[j].name = x /\ a[j] <= 0
      <3>1. PICK d \in ToSet(queue') : d.name = x
        BY <1>5, <2>1 DEF Calls
      <3>2. PICK j \in 1..m : queue'[j] = d
        BY <1>4 DEF ToSet
      <3>. QED
        BY <1>6, <3>1, <3>2
    <2>2. Positions' = {0}
      BY <1>1 DEF Positions
    <2>. QED
      BY <1>4, <2>1, <2>2 DEF Served
  <1>. QED
    BY <1>1, <1>3, <1>6, <1>7, <1>8, <1>9, <1>10, <1>11 DEF InOrder

\* The order is that of the queue, the sources and the packages.
LEMMA OrderStays ==
    ASSUME UNCHANGED <<world, queue, tokens, packages>>
    PROVE  \A f, a : InOrder(f, a) => InOrder(f, a)'
  <1>1. /\ \A k : AsksAt(k)' = AsksAt(k)
        /\ \A k, x : Calls(k, x)' <=> Calls(k, x)
        /\ Positions' = Positions
    BY DEF AsksAt, Calls, Positions, Inherited, ManifestTree
  <1>2. \A spec : ResolveSource(spec)' = ResolveSource(spec)
    BY SourcesStay
  <1> TAKE f, a
  <1>3. Came(f) => Came(f)'
    BY <1>1, <1>2 DEF Came
  <1>4. Waits(a) => Waits(a)'
    BY <1>1 DEF Waits
  <1>5. InTurn(f, a) => InTurn(f, a)'
    BY DEF InTurn
  <1>6. First(f) => First(f)'
    BY <1>1 DEF First
  <1>7. Served(a) => Served(a)'
    BY <1>1 DEF Served
  <1>. QED
    BY <1>3, <1>4, <1>5, <1>6, <1>7 DEF InOrder

\* Every step keeps the order.
LEMMA StepInOrder == GraphInv /\ OrderInv /\ [Next]_vars => OrderInv'
  <1> SUFFICES ASSUME GraphInv, OrderInv, [Next]_vars PROVE OrderInv'
    OBVIOUS
  <1>1. CASE LoadFails \/ Fail
    BY <1>1 DEF LoadFails, Fail, OrderInv, Walking
  <1>2. CASE Load
    <2>1. CanInherit(world.manifest[RootTree])'
      BY <1>2 DEF Load, CanInherit
    <2>2. DOMAIN packages' = {}
      BY <1>2 DEF Load, GraphInv, NamesAgree
    <2>. QED
      BY <1>2, <2>1, <2>2, LoadInOrder DEF OrderInv
  <1>3. CASE Skip
    <2>1. /\ CanInherit(world.manifest[RootTree])
          /\ \A i \in DOMAIN packages : ManifestTree(packages[i]) \in Trees
      BY <1>3 DEF OrderInv, Skip, Walking
    <2>2. PICK f \in [1..Len(packages) -> Nat], a \in [1..Len(queue) -> Nat] : InOrder(f, a)
      BY <1>3 DEF OrderInv, Skip, Walking
    <2>3. CanInherit(world.manifest[RootTree])' /\ \A i \in DOMAIN packages' : ManifestTree(packages[i])' \in Trees
      BY <1>3, <2>1 DEF Skip, CanInherit, ManifestTree
    <2>. QED
      BY <1>3, <2>2, <2>3, SkipInOrder DEF OrderInv
  <1>4. CASE Visit
    <2>1. /\ CanInherit(world.manifest[RootTree])
          /\ \A i \in DOMAIN packages : ManifestTree(packages[i]) \in Trees
      BY <1>4 DEF OrderInv, Visit, Walking
    <2>2. PICK f \in [1..Len(packages) -> Nat], a \in [1..Len(queue) -> Nat] : InOrder(f, a)
      BY <1>4 DEF OrderInv, Visit, Walking
    <2>3. PICK r \in Package, u \in Seq(Dependency) : Visits(r, u)
      BY <1>4, VisitParts DEF GraphInv
    <2>4. \E g \in [1..Len(packages') -> Nat], b \in [1..Len(queue') -> Nat] : InOrder(g, b)'
      BY <2>1, <2>2, <2>3, VisitInOrder
    <2>5. CanInherit(world.manifest[RootTree])'
      BY <1>4, <2>1 DEF Visit, CanInherit
    <2>6. ASSUME NEW i \in DOMAIN packages' PROVE ManifestTree(packages[i])' \in Trees
      <3>1. (i \in DOMAIN packages /\ packages'[i] = packages[i]) \/ packages'[i] = r
        BY <2>3, VisitPositions
      <3>. QED
        BY <2>1, <2>3, <3>1 DEF Visits, ManifestTree
    <2>. QED
      BY <2>4, <2>5, <2>6 DEF OrderInv
  <1>5. CASE Finish \/ UNCHANGED vars
    <2>1. UNCHANGED <<world, queue, tokens, packages>> /\ (Walking' => Walking)
      BY <1>5 DEF Finish, vars, Walking
    <2>2. CanInherit(world.manifest[RootTree])' <=> CanInherit(world.manifest[RootTree])
      BY <2>1 DEF CanInherit
    <2>3. \A i : ManifestTree(packages[i])' = ManifestTree(packages[i])
      BY <2>1 DEF ManifestTree
    <2>4. \A f, a : InOrder(f, a) => InOrder(f, a)'
      BY <2>1, OrderStays
    <2>. QED
      BY <2>1, <2>2, <2>3, <2>4 DEF OrderInv
  <1>. QED
    BY <1>1, <1>2, <1>3, <1>4, <1>5 DEF Next

\* The order is inductive.
LEMMA OrderInvariant == Spec => [](GraphInv /\ OrderInv)
  <1>1. Init => OrderInv
    BY DEF Init, OrderInv, Walking
  <1>2. GraphInv /\ [Next]_vars => GraphInv'
    BY StepTypes, StepNamesAgree, StepEachOnce, StepTargetsKept DEF GraphInv
  <1>. QED
    BY <1>1, <1>2, InitGraph, StepInOrder, PTL DEF Spec

-----------------------------------------------------------------------------
(* The edges of the graph                                                    *)

\* No other package bears the name of the one that is built.  One that does and
\* is reached overwrites the entry of the root in dep_edges.
OnlyRoot == Root # "std" /\ \A t \in Trees : Owner[t] = Root => t = RootTree

\* dep_edges holds what each package asks for.
EdgesInv ==
    Walking => \A i \in Positions :
        /\ NameAt(i) \in DOMAIN edges
        /\ \A x : x \in ToSet(edges[NameAt(i)]) <=> Calls(i, x)

\* Whoever finds the root's name finds the root.
LEMMA SourceAtRoot ==
    ASSUME OnlyRoot, TypeOK, NEW spec \in Dependency, NEW r \in ResolveSource(spec), r.name = Root
    PROVE  ManifestTree(r) = RootTree
  <1>1. spec.name = Root /\ Root # "std"
    BY SourceTypes DEF OnlyRoot
  <1>2. ASSUME NEW tree, NEW token, NEW x \in At(spec, tree, token) PROVE x.tree = RootTree
    BY <1>1, <1>2 DEF At, OnlyRoot
  <1>3. ASSUME r \in ResolveRegistry(spec) PROVE r.tree = RootTree
    <2>1. PICK v, tree, token : r \in {[x EXCEPT !.version = v] : x \in At(spec, tree, token)}
      BY <1>3, Zenon DEF ResolveRegistry
    <2>2. PICK x \in At(spec, tree, token) : r = [x EXCEPT !.version = v]
      BY <2>1
    <2>3. r.tree = x.tree
      BY <2>2 DEF At
    <2>. QED
      BY <1>2, <2>2, <2>3
  <1>4. r.tree = RootTree
    BY <1>1, <1>2, <1>3 DEF ResolveSource, ResolvePath, ResolveGit
  <1>. QED
    BY <1>4, TreeAssumption DEF ManifestTree

\* What the package that is built asks for, by name.
LEMMA RootCalls ==
    ASSUME TypeOK, CanInherit(world.manifest[RootTree])
    PROVE  \A x : x \in ToSet(NamesOf(world.manifest[RootTree])) <=> Calls(0, x)
  <1> DEFINE deps == world.manifest[RootTree]
             q    == [i \in DOMAIN deps |-> Inherited(deps[i])]
  <1>1. Asked(q) = Asked(deps) /\ ToSet(q) = {Inherited(d) : d \in ToSet(deps)} /\ deps \in Seq(Dependency)
    BY InheritedIs, Zenon
  <1> HIDE DEF q, deps
  <1>2. ToSet(NamesOf(deps)) = Asked(deps)
    BY <1>1, NamesOfIs
  <1>3. AsksAt(0) = ToSet(q)
    BY <1>1 DEF AsksAt, deps
  <1>4. \A x : x \in Asked(q) <=> Calls(0, x)
    BY <1>3 DEF Asked, Calls
  <1>. QED
    BY <1>1, <1>2, <1>4 DEF deps

\* Every step keeps the edges: an entry is written again only for the root, as it
\* was.
LEMMA StepEdges ==
    ASSUME OnlyRoot
    PROVE  GraphInv /\ OrderInv /\ EdgesInv /\ [Next]_vars => EdgesInv'
  <1> SUFFICES ASSUME GraphInv, OrderInv, EdgesInv, [Next]_vars PROVE EdgesInv'
    OBVIOUS
  <1>1. CASE LoadFails \/ Fail
    BY <1>1 DEF LoadFails, Fail, EdgesInv, Walking
  <1>2. CASE Load
    <2>1. Positions' = {0} /\ NameAt(0)' = Root
      BY <1>2 DEF Load, GraphInv, NamesAgree, Positions, NameAt
    <2>2. Root \in DOMAIN edges' /\ edges'[Root] = NamesOf(world.manifest[RootTree])
      BY <1>2 DEF Load, With
    <2>3. \A x : x \in ToSet(NamesOf(world.manifest[RootTree])) <=> Calls(0, x)
      BY <1>2, RootCalls DEF Load, GraphInv
    <2>4. \A x : Calls(0, x)' <=> Calls(0, x)
      BY <1>2 DEF Load, Calls, AsksAt, Inherited
    <2>5. ASSUME NEW i \in Positions'
          PROVE  /\ NameAt(i)' = Root /\ \A x : Calls(i, x)' <=> Calls(0, x)
      BY <2>1, <2>4
    <2>. QED
      BY <2>2, <2>3, <2>5 DEF EdgesInv
  <1>3. CASE Visit
    <2>1. PICK r \in Package, u \in Seq(Dependency) : Visits(r, u)
      BY <1>3, VisitParts DEF GraphInv
    <2>2. PICK n : n = Len(packages)
      OBVIOUS
    <2>3. /\ n \in Nat /\ Positions = 0..n /\ Positions' = 0..(n + 1) /\ packages'[n + 1] = r
          /\ \A i \in 0..n : AsksAt(i)' = AsksAt(i) /\ NameAt(i)' = NameAt(i)
          /\ \A k : k = n + 1 => AsksAt(k)' = ToSet(world.manifest[ManifestTree(r)])
      BY <2>1, <2>2, VisitPositions DEF Positions
    <2>4. /\ DOMAIN edges' = DOMAIN edges \cup {r.name}
          /\ edges'[r.name] = NamesOf(world.manifest[ManifestTree(r)])
          /\ \A x \in DOMAIN edges \ {r.name} : edges'[x] = edges[x]
      BY <2>1 DEF Visits, With
    <2>5. ToSet(edges'[r.name]) = Asked(world.manifest[ManifestTree(r)])
      BY <2>1, <2>4, WorldTypes, NamesOfIs DEF Visits, GraphInv
    <2>6. Walking
      BY <2>1 DEF Visits, Walking
    <2>7. ASSUME NEW i \in 0..n
          PROVE  /\ NameAt(i)' \in DOMAIN edges'
                 /\ \A x : x \in ToSet(edges'[NameAt(i)']) <=> Calls(i, x)'
      <3>1. /\ NameAt(i) \in DOMAIN edges /\ NameAt(i)' = NameAt(i)
            /\ \A x : x \in ToSet(edges[NameAt(i)]) <=> Calls(i, x)
        BY <2>3, <2>6 DEF EdgesInv
      <3>2. \A x : Calls(i, x)' <=> Calls(i, x)
        BY <2>3 DEF Calls
      <3>3. CASE NameAt(i) # r.name
        BY <2>4, <3>1, <3>2, <3>3
      <3>4. CASE NameAt(i) = r.name
        <4>1. i = 0
          <5>1. ASSUME i # 0 PROVE FALSE
            <6>1. i \in DOMAIN packages /\ NameAt(i) = packages[i].name
              BY <2>2, <2>3, <5>1 DEF NameAt, GraphInv, TypeOK
            <6>2. NameAt(i) \in Asked(packages)
              BY <6>1 DEF Asked, ToSet
            <6>. QED
              BY <2>1, <3>4, <6>2 DEF Visits, GraphInv, NamesAgree
          <5>. QED
            BY <5>1
        <4>2. r.name = Root
          BY <3>4, <4>1 DEF NameAt
        <4>3. ManifestTree(r) = RootTree
          <5>1. Head(queue) \in Dependency
            BY <2>1, PoppedSet DEF Visits, GraphInv, TypeOK
          <5>. QED
            BY <2>1, <4>2, <5>1, SourceAtRoot DEF Visits, GraphInv
        <4>4. edges'[r.name] = NamesOf(world.manifest[RootTree])
          BY <2>4, <4>3
        <4>5. \A x : x \in ToSet(NamesOf(world.manifest[RootTree])) <=> Calls(0, x)
          BY <2>6, RootCalls DEF GraphInv, OrderInv
        <4>. QED
          BY <2>4, <3>1, <3>2, <3>4, <4>1, <4>4, <4>5
      <3>. QED
        BY <3>3, <3>4
    <2>8. ASSUME NEW i, i = n + 1
          PROVE  /\ NameAt(i)' \in DOMAIN edges'
                 /\ \A x : x \in ToSet(edges'[NameAt(i)']) <=> Calls(i, x)'
      <3>1. NameAt(i)' = r.name
        BY <2>3, <2>8 DEF NameAt
      <3>2. \A x : Calls(i, x)' <=> x \in Asked(world.manifest[ManifestTree(r)])
        BY <2>3, <2>8 DEF Calls, Asked
      <3>. QED
        BY <2>4, <2>5, <3>1, <3>2
    <2>9. \A i \in 0..(n + 1) : i \in 0..n \/ i = n + 1
      BY <2>3
    <2>. QED
      BY <2>3, <2>7, <2>8, <2>9 DEF EdgesInv
  <1>4. CASE Skip \/ Finish \/ UNCHANGED vars
    <2>1. UNCHANGED <<world, packages, edges>> /\ (Walking' => Walking)
      BY <1>4 DEF Skip, Finish, vars, Walking
    <2>2. /\ \A k, x : Calls(k, x)' <=> Calls(k, x)
          /\ \A k : NameAt(k)' = NameAt(k)
          /\ Positions' = Positions
      BY <2>1 DEF Calls, AsksAt, NameAt, Positions, Inherited, ManifestTree
    <2>. QED
      BY <2>1, <2>2 DEF EdgesInv
  <1>. QED
    BY <1>1, <1>2, <1>3, <1>4 DEF Next

\* What holds of a walk at every step, if no other package bears the root's name.
WalkInv == GraphInv /\ OrderInv /\ EdgesInv

\* The conjunction is inductive.
LEMMA WalkInvariant == ASSUME OnlyRoot PROVE Spec => []WalkInv
  <1>1. Init => EdgesInv
    BY DEF Init, EdgesInv, Walking
  <1>2. EdgesInv /\ GraphInv /\ OrderInv /\ [Next]_vars => EdgesInv'
    BY StepEdges
  <1>3. Init => GraphInv /\ OrderInv
    BY InitGraph DEF Init, OrderInv, Walking
  <1>4. GraphInv /\ [Next]_vars => GraphInv'
    BY StepTypes, StepNamesAgree, StepEachOnce, StepTargetsKept DEF GraphInv
  <1>. QED
    BY <1>1, <1>2, <1>3, <1>4, StepInOrder, PTL DEF Spec, WalkInv

-----------------------------------------------------------------------------
(* Distances                                                                 *)

\* The recursive definition of Within has the values it is written to have.
LEMMA WithinIs ==
    ASSUME TypeOK
    PROVE  /\ Within[0] = {Root}
           /\ \A k \in 1..Len(packages) :
                Within[k] = Within[k - 1] \cup UNION {ToSet(edges[n]) : n \in Within[k - 1] \cap DOMAIN edges}
  <1> DEFINE N == Len(packages)
             Further(near) == near \cup UNION {ToSet(edges[n]) : n \in near \cap DOMAIN edges}
             Turn(g, k) == IF k = 0 THEN {Root} ELSE Further(g[k - 1])
             Is(g) == g = [k \in 0..N |-> Turn(g, k)]
             g0 == CHOOSE g : Is(g)
  <1>1. Within = g0
    BY DEF Within
  <1>2. N \in Nat
    BY DEF TypeOK
  <1>3. Root \in Names /\ \A n \in DOMAIN edges : ToSet(edges[n]) \subseteq Names
    <2>1. \A n \in DOMAIN edges : edges[n] \in Seq(Names)
      BY DEF TypeOK
    <2>2. ASSUME NEW s \in Seq(Names) PROVE ToSet(s) \subseteq Names
      BY DEF ToSet
    <2>. QED
      BY <2>1, <2>2, OwnerAssumption, TreeAssumption DEF Root
  <1> HIDE DEF N
  <1>4. \E g : Is(g)
    <2> DEFINE Q == SUBSET Names
               F == [k \in 1..N |-> [near \in Q |-> Further(near)]]
    <2>1. \A near \in Q : Further(near) \in Q
      BY <1>3
    <2>2. F \in [1..N -> [Q -> Q]] /\ {Root} \in Q
      <3> HIDE DEF Q, Further
      <3>1. F \in [1..N -> [Q -> Q]]
        BY <2>1
      <3>. QED
        BY <1>3, <3>1 DEF Q
    <2>3. PICK g : IsLoop(g, N, Q, {Root}, F)
      <3> HIDE DEF F, Q
      <3>. QED
        BY <1>2, <2>2, LoopExists, Zenon
    <2> HIDE DEF Q, Further
    <2>4. ASSUME NEW k \in 0..N PROVE g[k] = Turn(g, k)
      <3>1. CASE k = 0
        BY <2>3, <3>1 DEF IsLoop
      <3>2. CASE k \in 1..N
        <4>1. g[k - 1] \in Q /\ g[k] = F[k][g[k - 1]] /\ k # 0
          <5>1. k - 1 \in 0..N /\ k # 0
            BY <1>2, <3>2
          <5> HIDE DEF F
          <5>. QED
            BY <2>3, <3>2, <5>1 DEF IsLoop
        <4>. QED
          BY <3>2, <4>1
      <3>. QED
        BY <1>2, <3>1, <3>2
    <2>5. Is(g)
      <3> HIDE DEF Turn
      <3>. QED
        BY <2>3, <2>4 DEF IsLoop
    <2>. QED
      BY <2>5
  <1>5. Is(g0)
    BY <1>4
  <1> HIDE DEF g0
  <1>6. \A k \in 0..N : g0[k] = Turn(g0, k)
    <2> HIDE DEF Turn
    <2>. QED
      BY <1>5
  <1>7. 0 \in 0..N /\ \A k \in 1..N : k \in 0..N /\ k # 0
    BY <1>2
  <1> HIDE DEF Further
  <1>8. g0[0] = {Root} /\ \A k \in 1..N : g0[k] = Further(g0[k - 1])
    BY <1>6, <1>7
  <1>. QED
    BY <1>1, <1>8 DEF Further, N

\* What is within some steps is within more.
LEMMA WithinGrows ==
    ASSUME TypeOK
    PROVE  \A k \in 0..Len(packages) : Root \in Within[k] /\ \A j \in 0..k : Within[j] \subseteq Within[k]
  <1> DEFINE N == Len(packages)
             Grows(k) == Root \in Within[k] /\ \A j \in 0..k : Within[j] \subseteq Within[k]
             T == {k \in 0..N : Grows(k)}
  <1>1. N \in Nat
    BY DEF TypeOK
  <1>2. \A k \in 1..N : Within[k - 1] \subseteq Within[k]
    BY WithinIs
  <1>3. Within[0] = {Root}
    BY WithinIs
  <1> HIDE DEF N
  <1>4. 0 \in T
    BY <1>1, <1>3
  <1>5. ASSUME NEW k \in 1..N, k - 1 \in T PROVE k \in T
    <2>1. Grows(k - 1) /\ Within[k - 1] \subseteq Within[k]
      BY <1>2, <1>5
    <2>2. \A j \in 0..k : j \in 0..(k - 1) \/ j = k
      BY <1>1
    <2>3. Grows(k)
      BY <2>1, <2>2
    <2>. QED
      BY <1>1, <2>3
  <1>6. 0..N \subseteq T
    <2> HIDE DEF T
    <2>. QED
      BY <1>1, <1>4, <1>5, UpTo
  <1>. QED
    BY <1>6 DEF N

\* The distance of a name that can be reached is the least number of steps.
LEMMA DistanceIs ==
    ASSUME TypeOK, NEW x \in Within[Len(packages)]
    PROVE  /\ Distance(x) \in 0..Len(packages) /\ x \in Within[Distance(x)]
           /\ \A k \in 0..Len(packages) : x \in Within[k] => Distance(x) <= k
  <1> DEFINE N == Len(packages)
             Least(k) == x \in Within[k] /\ (k = 0 \/ x \notin Within[k - 1])
             T == {k \in 0..N : x \notin Within[k]}
  <1>1. N \in Nat
    BY DEF TypeOK
  <1>2. \E k \in 0..N : Least(k)
    <2> SUFFICES ASSUME \A k \in 0..N : ~Least(k) PROVE FALSE
      OBVIOUS
    <2> HIDE DEF N
    <2>1. 0 \in T
      BY <1>1
    <2>2. ASSUME NEW k \in 1..N, k - 1 \in T PROVE k \in T
      BY <1>1, <2>2
    <2>3. 0..N \subseteq T
      <3> HIDE DEF T
      <3>. QED
        BY <1>1, <2>1, <2>2, UpTo
    <2>. QED
      BY <1>1, <2>3 DEF N
  <1>3. Distance(x) \in 0..N /\ Least(Distance(x))
    BY <1>2 DEF Distance
  <1>4. ASSUME NEW k \in 0..N, x \in Within[k], k < Distance(x) PROVE FALSE
    <2>1. Distance(x) # 0 /\ Distance(x) - 1 \in 0..N /\ k \in 0..(Distance(x) - 1)
      BY <1>1, <1>3, <1>4
    <2>2. Within[k] \subseteq Within[Distance(x) - 1]
      BY <2>1, WithinGrows
    <2>. QED
      BY <1>3, <1>4, <2>1, <2>2
  <1>5. \A k \in 0..N : x \in Within[k] => Distance(x) <= k
    BY <1>1, <1>3, <1>4
  <1>. QED
    BY <1>3, <1>5

\* Position f[i] has an edge to package i, and no earlier one has.
FirstAsker(f) ==
    \A i \in DOMAIN packages :
        /\ f[i] \in 0..(i - 1)
        /\ NameAt(f[i]) \in DOMAIN edges /\ packages[i].name \in ToSet(edges[NameAt(f[i])])
        /\ \A k \in Positions : packages[i].name \in ToSet(edges[NameAt(k)]) => f[i] <= k

\* How a walk that has ended came to its packages.
LEMMA Ended ==
    ASSUME WalkInv, pc = "done"
    PROVE  \E f : /\ Came(f) /\ FirstAsker(f)
                  /\ \A i, j \in DOMAIN packages : i <= j => f[i] <= f[j]
  <1>1. Walking /\ TypeOK
    BY DEF Walking, WalkInv, GraphInv
  <1>2. PICK f \in [1..Len(packages) -> Nat], a \in [1..Len(queue) -> Nat] : InOrder(f, a)
    BY <1>1 DEF WalkInv, OrderInv
  <1>3. DOMAIN packages = 1..Len(packages) /\ Len(packages) \in Nat
    BY <1>1 DEF TypeOK
  <1>4. ASSUME NEW i \in DOMAIN packages
        PROVE  /\ f[i] \in 0..(i - 1)
               /\ NameAt(f[i]) \in DOMAIN edges /\ packages[i].name \in ToSet(edges[NameAt(f[i])])
               /\ \A k \in Positions : packages[i].name \in ToSet(edges[NameAt(k)]) => f[i] <= k
    <2>1. f[i] \in 0..(i - 1) /\ f[i] \in Positions /\ Calls(f[i], packages[i].name)
      BY <1>2, <1>3 DEF InOrder, Came, Calls, Positions
    <2>. QED
      BY <1>1, <1>2, <2>1 DEF WalkInv, EdgesInv, InOrder, First
  <1>. QED
    BY <1>2, <1>4 DEF InOrder, InTurn, FirstAsker

\* Every package can be reached from the root in as many steps as there are
\* packages.
LEMMA AllNear ==
    ASSUME WalkInv, NEW f, FirstAsker(f)
    PROVE  \A i \in DOMAIN packages : packages[i].name \in Within[Len(packages)]
  <1> DEFINE N == Len(packages)
             Near(k) == \A i \in 1..N : i <= k => packages[i].name \in Within[k]
             T == {k \in 0..N : Near(k)}
  <1>1. N \in Nat /\ DOMAIN packages = 1..N /\ TypeOK
    BY DEF WalkInv, GraphInv, TypeOK
  <1>2. /\ \A k \in 0..N : Root \in Within[k]
        /\ \A k \in 1..N : Within[k - 1] \subseteq Within[k]
        /\ \A k \in 1..N : \A n \in Within[k - 1] \cap DOMAIN edges : ToSet(edges[n]) \subseteq Within[k]
    BY <1>1, WithinIs, WithinGrows
  <1> HIDE DEF N
  <1>3. 0 \in T
    BY <1>1
  <1>4. ASSUME NEW k \in 1..N, k - 1 \in T PROVE k \in T
    <2>1. ASSUME NEW i \in 1..N, i <= k PROVE packages[i].name \in Within[k]
      <3>1. CASE i < k
        BY <1>1, <1>2, <1>4, <3>1
      <3>2. CASE i = k
        <4>1. /\ f[i] \in 0..(k - 1) /\ NameAt(f[i]) \in DOMAIN edges
              /\ packages[i].name \in ToSet(edges[NameAt(f[i])])
          BY <1>1, <3>2 DEF FirstAsker
        <4>2. NameAt(f[i]) \in Within[k - 1]
          <5>1. CASE f[i] = 0
            BY <1>1, <1>2, <5>1 DEF NameAt
          <5>2. CASE f[i] \in 1..(k - 1)
            BY <1>1, <1>4, <5>2 DEF NameAt
          <5>. QED
            BY <1>1, <4>1, <5>1, <5>2
        <4>. QED
          BY <1>2, <4>1, <4>2
      <3>. QED
        BY <1>1, <2>1, <3>1, <3>2
    <2>. QED
      BY <1>1, <2>1
  <1>5. N \in T
    <2> HIDE DEF T
    <2>1. 0..N \subseteq T
      BY <1>1, <1>3, <1>4, UpTo
    <2>. QED
      BY <1>1, <2>1
  <1>. QED
    BY <1>1, <1>5 DEF N

\* If no other package bears the root's name, the edges of a finished resolution
\* lead to its packages and to nothing else, and each can be reached.
THEOREM GraphAlwaysWhole == ASSUME OnlyRoot PROVE Spec => []GraphIsWhole
  <1>1. WalkInv => GraphIsWhole
    <2> SUFFICES ASSUME WalkInv, pc = "done"
                 PROVE  /\ EachOnce
                        /\ Asked(packages) = UNION {ToSet(edges[n]) : n \in DOMAIN edges}
                        /\ Asked(packages) \subseteq Within[Len(packages)]
      BY DEF GraphIsWhole, EachOnce, Asked
    <2>1. EachOnce
      BY DEF WalkInv, GraphInv
    <2>2. \A n \in DOMAIN edges : ToSet(edges[n]) \subseteq Asked(packages)
      BY ClosedAtEnd DEF WalkInv
    <2>3. PICK f : FirstAsker(f)
      BY Ended
    <2>4. Asked(packages) \subseteq UNION {ToSet(edges[n]) : n \in DOMAIN edges}
      BY <2>3 DEF Asked, ToSet, FirstAsker
    <2>5. Asked(packages) \subseteq Within[Len(packages)]
      BY <2>3, AllNear DEF Asked, ToSet
    <2>. QED
      BY <2>1, <2>2, <2>4, <2>5
  <1>. QED
    BY <1>1, WalkInvariant, PTL

-----------------------------------------------------------------------------
(* Who is nearest                                                            *)

\* Position 0, and those that do not bring the root back.
Proper(i) == i = 0 \/ NameAt(i) # Root

\* What was resolved earlier is no further from the root.
LEMMA EarlierIsNearer ==
    ASSUME WalkInv, pc = "done", NEW f, FirstAsker(f),
           \A i, j \in DOMAIN packages : i <= j => f[i] <= f[j]
    PROVE  \A k \in 0..Len(packages), i, j \in Positions :
               i < j /\ Proper(i) /\ Proper(j) /\ NameAt(j) \in Within[k] => NameAt(i) \in Within[k]
  <1> DEFINE N == Len(packages)
             Nearer(k) == \A i, j \in 0..N :
                 i < j /\ Proper(i) /\ Proper(j) /\ NameAt(j) \in Within[k] => NameAt(i) \in Within[k]
             T == {k \in 0..N : Nearer(k)}
  <1>1. N \in Nat /\ DOMAIN packages = 1..N /\ TypeOK /\ Positions = 0..N
    BY DEF WalkInv, GraphInv, TypeOK, Positions
  <1>2. /\ \A k \in 0..N : Root \in Within[k]
        /\ \A k \in 1..N : Within[k - 1] \subseteq Within[k]
        /\ \A k \in 1..N : Within[k] = Within[k - 1] \cup UNION {ToSet(edges[n]) : n \in Within[k - 1] \cap DOMAIN edges}
        /\ Within[0] = {Root}
    BY <1>1, WithinIs, WithinGrows
  <1>3. \A n \in DOMAIN edges : n = Root \/ \E l \in 1..N : NameAt(l) = n
    <2>1. DOMAIN edges = {Root} \cup Asked(packages)
      BY DEF WalkInv, GraphInv, NamesAgree, Walking
    <2>2. \A n \in Asked(packages) : \E l \in 1..N : packages[l].name = n
      BY <1>1 DEF Asked, ToSet
    <2>3. \A l \in 1..N : NameAt(l) = packages[l].name
      BY <1>1 DEF NameAt
    <2>. QED
      BY <2>1, <2>2, <2>3
  <1>4. \A i \in 1..N :
            /\ f[i] \in 0..(i - 1)
            /\ NameAt(f[i]) \in DOMAIN edges /\ NameAt(i) \in ToSet(edges[NameAt(f[i])])
            /\ \A k \in 0..N : NameAt(i) \in ToSet(edges[NameAt(k)]) => f[i] <= k
            /\ \A j \in 1..N : i <= j => f[i] <= f[j]
    BY <1>1 DEF FirstAsker, NameAt
  <1>5. NameAt(0) = Root
    BY DEF NameAt
  <1> HIDE DEF N
  <1>6. 0 \in T
    BY <1>1, <1>2, <1>5 DEF Proper
  <1>7. ASSUME NEW k \in 1..N, k - 1 \in T PROVE k \in T
    <2>1. ASSUME NEW i \in 0..N, NEW j \in 0..N, i < j, Proper(i), Proper(j), NameAt(j) \in Within[k]
          PROVE  NameAt(i) \in Within[k]
      <3>0. k \in 0..N /\ k - 1 \in 0..N /\ j \in 1..N /\ Nearer(k - 1)
        BY <1>1, <1>7, <2>1
      <3>1. CASE i = 0
        BY <1>2, <1>5, <3>0, <3>1
      <3>2. CASE NameAt(j) \in Within[k - 1]
        BY <1>2, <2>1, <3>0, <3>2
      <3>3. CASE i # 0 /\ NameAt(j) \notin Within[k - 1]
        <4>0. i \in 1..N /\ f[i] \in 0..N /\ f[i] \in Nat /\ f[j] \in Nat /\ f[i] <= f[j]
          BY <1>1, <1>4, <2>1, <3>0, <3>3
        <4>1. PICK n \in Within[k - 1] \cap DOMAIN edges : NameAt(j) \in ToSet(edges[n])
          BY <1>2, <2>1, <3>3
        <4>2. PICK l \in 0..N : NameAt(l) = n /\ Proper(l)
          BY <1>1, <1>3, <1>5 DEF Proper
        <4>3. f[i] <= l
          BY <1>1, <1>4, <3>0, <4>0, <4>1, <4>2
        <4>4. Proper(f[i])
          <5> SUFFICES ASSUME NameAt(f[i]) = NameAt(0) PROVE f[i] = 0
            BY <1>5 DEF Proper
          <5>1. 0 \in 0..N /\ NameAt(i) \in ToSet(edges[NameAt(0)])
            BY <1>1, <1>4, <4>0
          <5>. QED
            BY <1>4, <4>0, <5>1
        <4>5. NameAt(f[i]) \in Within[k - 1]
          <5>1. CASE f[i] = l
            BY <4>1, <4>2, <5>1
          <5>2. CASE f[i] < l
            BY <3>0, <4>0, <4>1, <4>2, <4>4, <5>2
          <5>. QED
            BY <1>1, <4>0, <4>3, <5>1, <5>2
        <4>. QED
          BY <1>2, <1>4, <4>0, <4>5
      <3>. QED
        BY <3>1, <3>2, <3>3
    <2>. QED
      BY <1>1, <2>1
  <1>8. 0..N \subseteq T
    <2> HIDE DEF T
    <2>. QED
      BY <1>1, <1>6, <1>7, UpTo
  <1>. QED
    BY <1>1, <1>8 DEF N

\* If no other package bears the root's name, each package comes from a request
\* of one that is nearest to the root.
LEMMA NearestServes ==
    ASSUME WalkInv, pc = "done", NEW i \in DOMAIN packages
    PROVE  \E spec \in NearestRequests(packages[i].name) :
              spec \in Dependency /\ packages[i] \in ResolveSource(spec)
  <1>1. PICK f : /\ Came(f) /\ FirstAsker(f)
                 /\ \A k, j \in DOMAIN packages : k <= j => f[k] <= f[j]
    BY Ended
  <1> DEFINE x == packages[i].name
             m == NameAt(f[i])
             asking == {n \in DOMAIN edges : x \in ToSet(edges[n])}
  <1>2. /\ TypeOK /\ Walking /\ Len(packages) \in Nat /\ DOMAIN packages = 1..Len(packages)
        /\ Positions = 0..Len(packages)
    BY DEF WalkInv, GraphInv, TypeOK, Walking, Positions
  <1>3. /\ f[i] \in 0..(i - 1) /\ f[i] \in Positions /\ i \in 1..Len(packages)
        /\ m \in DOMAIN edges /\ x \in ToSet(edges[m])
        /\ \A k \in Positions : x \in ToSet(edges[NameAt(k)]) => f[i] <= k
    BY <1>1, <1>2 DEF FirstAsker
  <1>4. PICK spec \in AsksAt(f[i]) : spec.name = x /\ packages[i] \in ResolveSource(spec)
    BY <1>1 DEF Came
  <1> HIDE DEF x
  <1>5. NameAt(0) = Root /\ 0 \in Positions
    BY <1>2 DEF NameAt
  <1>6. Proper(f[i])
    <2> SUFFICES ASSUME m = Root PROVE f[i] = 0
      BY DEF Proper
    <2>. QED
      BY <1>2, <1>3, <1>5
  <1>7. \A n \in DOMAIN edges : \E l \in Positions : NameAt(l) = n /\ Proper(l)
    <2>1. DOMAIN edges = {Root} \cup Asked(packages)
      BY <1>2 DEF WalkInv, GraphInv, NamesAgree
    <2>2. \A n \in Asked(packages) : \E l \in 1..Len(packages) : NameAt(l) = n
      BY <1>2 DEF Asked, ToSet, NameAt
    <2>. QED
      BY <1>2, <1>5, <2>1, <2>2 DEF Proper
  <1>8. \A n \in DOMAIN edges : n \in Within[Len(packages)]
    <2>1. Root \in Within[Len(packages)]
      BY <1>2, WithinGrows
    <2>2. Asked(packages) \subseteq Within[Len(packages)]
      BY <1>1, AllNear DEF Asked, ToSet
    <2>. QED
      BY <1>2, <2>1, <2>2 DEF WalkInv, GraphInv, NamesAgree
  <1>9. ASSUME NEW other \in asking PROVE Distance(m) <= Distance(other)
    <2>1. PICK l \in Positions : NameAt(l) = other /\ Proper(l)
      BY <1>7
    <2>2. f[i] <= l
      BY <1>3, <2>1
    <2>3. Distance(other) \in 0..Len(packages) /\ other \in Within[Distance(other)]
      BY <1>2, <1>8, DistanceIs
    <2>4. CASE f[i] < l
      <3>1. m \in Within[Distance(other)]
        BY <1>1, <1>3, <1>6, <2>1, <2>3, <2>4, EarlierIsNearer
      <3>. QED
        BY <1>2, <1>3, <1>8, <2>3, <3>1, DistanceIs
    <2>5. CASE f[i] = l
      <3>1. m = other
        BY <2>1, <2>5
      <3>. QED
        BY <1>2, <2>3, <3>1
    <2>. QED
      BY <1>2, <1>3, <2>2, <2>4, <2>5
  <1>10. spec \in Requests(m)
    <2>1. CASE f[i] = 0
      BY <1>4, <1>5, <2>1 DEF Requests, AsksAt, ToSet
    <2>2. CASE f[i] # 0
      <3>1. f[i] \in DOMAIN packages /\ packages[f[i]] \in ToSet(packages) /\ packages[f[i]].name = m
        BY <1>2, <1>3, <2>2 DEF NameAt, ToSet
      <3>2. m # Root /\ spec \in ToSet(world.manifest[ManifestTree(packages[f[i]])])
        BY <1>4, <1>6, <2>2 DEF Proper, AsksAt
      <3>. QED
        BY <3>1, <3>2 DEF Requests
    <2>. QED
      BY <2>1, <2>2
  <1>11. spec \in Dependency
    <2>1. ASSUME NEW deps \in Seq(Dependency) PROVE ToSet(deps) \subseteq Dependency
      BY DEF ToSet
    <2>2. CASE f[i] = 0
      <3>1. CanInherit(world.manifest[RootTree])
        BY <1>2 DEF WalkInv, OrderInv
      <3> DEFINE q == [k \in DOMAIN world.manifest[RootTree] |-> Inherited(world.manifest[RootTree][k])]
      <3>2. q \in Seq(Dependency) /\ ToSet(q) = AsksAt(0)
        BY <1>2, <3>1, InheritedIs, Zenon DEF AsksAt
      <3> HIDE DEF q
      <3>. QED
        BY <1>4, <2>1, <2>2, <3>2
    <2>3. CASE f[i] # 0
      <3>1. f[i] \in DOMAIN packages
        BY <1>2, <1>3, <2>3
      <3>2. ManifestTree(packages[f[i]]) \in Trees
        BY <1>2, <3>1 DEF WalkInv, OrderInv
      <3>3. world.manifest[ManifestTree(packages[f[i]])] \in Seq(Dependency)
        BY <1>2, <3>2, WorldTypes
      <3>. QED
        BY <1>4, <2>1, <2>3, <3>3 DEF AsksAt
    <2>. QED
      BY <2>2, <2>3
  <1>12. spec \in NearestRequests(x)
    BY <1>3, <1>4, <1>9, <1>10 DEF NearestRequests
  <1>. QED
    BY <1>4, <1>11, <1>12 DEF x

\* Where requests differ, one of those nearest to the root counts.
THEOREM NearestAlwaysWins == ASSUME OnlyRoot PROVE Spec => []NearestWins
  <1>1. WalkInv => NearestWins
    <2> SUFFICES ASSUME WalkInv, pc = "done", NEW p \in ToSet(packages)
                 PROVE  \E spec \in NearestRequests(p.name) : p \in ResolveSource(spec)
      BY DEF NearestWins
    <2>. QED
      BY NearestServes DEF ToSet
  <1>. QED
    BY <1>1, WalkInvariant, PTL

-----------------------------------------------------------------------------
(* What a requirement means                                                  *)

\* Less, number by number.
LEMMA LessIs ==
    ASSUME NEW v \in Version, NEW w \in Version
    PROVE  Less(v, w) <=> \/ v.major < w.major
                          \/ v.major = w.major /\ v.minor < w.minor
                          \/ v.major = w.major /\ v.minor = w.minor /\ v.patch < w.patch
                          \/ /\ v.major = w.major /\ v.minor = w.minor /\ v.patch = w.patch
                             /\ v.pre # 0 /\ (w.pre = 0 \/ v.pre < w.pre)
  BY DEF Less, Version

\* The order of the code is the order of the places.
LEMMA BelowIsLess ==
    ASSUME NEW v \in Version, NEW w \in Version
    PROVE  Below(v, w) <=> Less(v, w)
  <1>1. /\ Places(v)[1] = v.major /\ Places(v)[2] = v.minor /\ Places(v)[3] = v.patch
        /\ Places(v)[4] = (IF v.pre = 0 THEN 1 ELSE 0) /\ Places(v)[5] = v.pre
        /\ Places(w)[1] = w.major /\ Places(w)[2] = w.minor /\ Places(w)[3] = w.patch
        /\ Places(w)[4] = (IF w.pre = 0 THEN 1 ELSE 0) /\ Places(w)[5] = w.pre
    BY DEF Places
  <1> DEFINE Same(i) == Places(v)[i] = Places(w)[i]
             Lower(i) == Places(v)[i] < Places(w)[i]
  <1>2. Below(v, w) <=> \/ Lower(1)
                        \/ Lower(2) /\ Same(1)
                        \/ Lower(3) /\ Same(1) /\ Same(2)
                        \/ Lower(4) /\ Same(1) /\ Same(2) /\ Same(3)
                        \/ Lower(5) /\ Same(1) /\ Same(2) /\ Same(3) /\ Same(4)
    BY DEF Below
  <1>. QED
    BY <1>1, <1>2, LessIs DEF Version

\* Two versions that agree in every place are one.
LEMMA SamePlaces ==
    ASSUME NEW v \in Version, NEW w \in Version
    PROVE  Places(v) = Places(w) <=> v = w
  <1>1. Places(v) = Places(w) =>
            v.major = w.major /\ v.minor = w.minor /\ v.patch = w.patch /\ v.pre = w.pre
    BY DEF Places
  <1>. QED
    BY <1>1 DEF Version

\* No pre-release stands right below a version at which ^ or ~ may end.
Inside(v) == v.pre = 0 \/ (v.major # 0 /\ v.patch # 0)

\* The numbers that ^ and ~ keep, spelled out.
LEMMA KeptIs ==
    ASSUME NEW t \in Version
    PROVE  /\ Kept("~", t) = 2
           /\ \A op : op # "~" =>
                Kept(op, t) = IF t.major # 0 THEN 1 ELSE IF t.minor # 0 THEN 2 ELSE 3
  <1>1. /\ Digits(t)[1] = t.major /\ Digits(t)[2] = t.minor /\ Digits(t)[3] = t.patch
    BY DEF Digits
  <1> DEFINE Is(k) == /\ \A i \in 1..(k - 1) : Digits(t)[i] = 0
                      /\ k = 3 \/ Digits(t)[k] # 0
             n == IF t.major # 0 THEN 1 ELSE IF t.minor # 0 THEN 2 ELSE 3
  <1>2. \A op : op # "~" => Kept(op, t) = CHOOSE k \in 1..3 : Is(k)
    BY DEF Kept
  <1>3. Is(1) <=> t.major # 0
    BY <1>1
  <1>4. Is(2) <=> t.major = 0 /\ t.minor # 0
    BY <1>1
  <1>5. Is(3) <=> t.major = 0 /\ t.minor = 0
    BY <1>1
  <1> HIDE DEF Is
  <1>6. \A k \in 1..3 : Is(k) <=> k = n
    BY <1>3, <1>4, <1>5
  <1>7. (CHOOSE k \in 1..3 : Is(k)) = n
    BY <1>6
  <1>. QED
    BY <1>2, <1>7 DEF Kept

\* v keeps the first numbers of t.
Keeps(k, v, t) == \A i \in 1..k : Digits(v)[i] = Digits(t)[i]

\* To keep one, two or three numbers, spelled out.
LEMMA KeepsIs ==
    ASSUME NEW v, NEW t
    PROVE  /\ Keeps(1, v, t) <=> v.major = t.major
           /\ Keeps(2, v, t) <=> v.major = t.major /\ v.minor = t.minor
           /\ Keeps(3, v, t) <=> v.major = t.major /\ v.minor = t.minor /\ v.patch = t.patch
  <1>1. /\ Digits(t)[1] = t.major /\ Digits(t)[2] = t.minor /\ Digits(t)[3] = t.patch
        /\ Digits(v)[1] = v.major /\ Digits(v)[2] = v.minor /\ Digits(v)[3] = v.patch
    BY DEF Digits
  <1>2. /\ Keeps(1, v, t) <=> Digits(v)[1] = Digits(t)[1]
        /\ Keeps(2, v, t) <=> Digits(v)[1] = Digits(t)[1] /\ Digits(v)[2] = Digits(t)[2]
        /\ Keeps(3, v, t) <=> /\ Digits(v)[1] = Digits(t)[1] /\ Digits(v)[2] = Digits(t)[2]
                              /\ Digits(v)[3] = Digits(t)[3]
    BY DEF Keeps
  <1>. QED
    BY <1>1, <1>2

\* The upper bounds of the code are where the numbers to keep change.
LEMMA BoundsKeep ==
    ASSUME NEW v \in Version, NEW t \in Version, ~Less(v, t), Inside(v)
    PROVE  /\ Less(v, TildeUpper(t)) <=> Keeps(2, v, t)
           /\ Less(v, CaretUpper(t)) <=>
                Keeps(IF t.major # 0 THEN 1 ELSE IF t.minor # 0 THEN 2 ELSE 3, v, t)
  <1>0. /\ v.major \in Nat /\ v.minor \in Nat /\ v.patch \in Nat /\ v.pre \in Nat
        /\ t.major \in Nat /\ t.minor \in Nat /\ t.patch \in Nat /\ t.pre \in Nat
    BY DEF Version
  <1>1. \A a, b, c \in Nat :
            /\ Release(a, b, c) \in Version
            /\ Less(v, Release(a, b, c)) <=>
                  \/ v.major < a
                  \/ v.major = a /\ v.minor < b
                  \/ v.major = a /\ v.minor = b /\ v.patch < c
                  \/ v.major = a /\ v.minor = b /\ v.patch = c /\ v.pre # 0
    <2>1. \A a, b, c \in Nat :
              /\ Release(a, b, c) \in Version
              /\ Release(a, b, c).major = a /\ Release(a, b, c).minor = b
              /\ Release(a, b, c).patch = c /\ Release(a, b, c).pre = 0
      BY DEF Release, Version
    <2> SUFFICES ASSUME NEW a \in Nat, NEW b \in Nat, NEW c \in Nat
                 PROVE  /\ Release(a, b, c) \in Version
                        /\ Less(v, Release(a, b, c)) <=>
                              \/ v.major < a
                              \/ v.major = a /\ v.minor < b
                              \/ v.major = a /\ v.minor = b /\ v.patch < c
                              \/ v.major = a /\ v.minor = b /\ v.patch = c /\ v.pre # 0
      OBVIOUS
    <2>2. PICK w \in Version : w = Release(a, b, c)
      BY <2>1
    <2>3. w.major = a /\ w.minor = b /\ w.patch = c /\ w.pre = 0
      BY <2>1, <2>2
    <2>. QED
      BY <1>0, <2>2, <2>3, LessIs
  <1>2. ~ \/ v.major < t.major
          \/ v.major = t.major /\ v.minor < t.minor
          \/ v.major = t.major /\ v.minor = t.minor /\ v.patch < t.patch
    BY LessIs
  <1>3. v.pre = 0 \/ (v.major # 0 /\ v.patch # 0)
    BY DEF Inside
  <1>4. Less(v, TildeUpper(t)) <=> Keeps(2, v, t)
    <2>1. Less(v, TildeUpper(t)) <=> \/ v.major < t.major
                                     \/ v.major = t.major /\ v.minor < t.minor + 1
                                     \/ v.major = t.major /\ v.minor = t.minor + 1 /\ v.patch < 0
                                     \/ v.major = t.major /\ v.minor = t.minor + 1 /\ v.patch = 0 /\ v.pre # 0
      BY <1>0, <1>1 DEF TildeUpper
    <2>. QED
      BY <1>0, <1>2, <1>3, <2>1, KeepsIs
  <1>5. CASE t.major # 0
    <2>1. Less(v, CaretUpper(t)) <=> \/ v.major < t.major + 1
                                     \/ v.major = t.major + 1 /\ v.minor < 0
                                     \/ v.major = t.major + 1 /\ v.minor = 0 /\ v.patch < 0
                                     \/ v.major = t.major + 1 /\ v.minor = 0 /\ v.patch = 0 /\ v.pre # 0
      BY <1>0, <1>1, <1>5 DEF CaretUpper
    <2>. QED
      BY <1>0, <1>2, <1>3, <1>4, <1>5, <2>1, KeepsIs
  <1>6. CASE t.major = 0 /\ t.minor # 0
    <2>1. Less(v, CaretUpper(t)) <=> \/ v.major < 0
                                     \/ v.major = 0 /\ v.minor < t.minor + 1
                                     \/ v.major = 0 /\ v.minor = t.minor + 1 /\ v.patch < 0
                                     \/ v.major = 0 /\ v.minor = t.minor + 1 /\ v.patch = 0 /\ v.pre # 0
      BY <1>0, <1>1, <1>6 DEF CaretUpper
    <2>. QED
      BY <1>0, <1>2, <1>3, <1>4, <1>6, <2>1, KeepsIs
  <1>7. CASE t.major = 0 /\ t.minor = 0
    <2>1. Less(v, CaretUpper(t)) <=> \/ v.major < 0
                                     \/ v.major = 0 /\ v.minor < 0
                                     \/ v.major = 0 /\ v.minor = 0 /\ v.patch < t.patch + 1
                                     \/ v.major = 0 /\ v.minor = 0 /\ v.patch = t.patch + 1 /\ v.pre # 0
      BY <1>0, <1>1, <1>7 DEF CaretUpper
    <2>. QED
      BY <1>0, <1>2, <1>3, <1>4, <1>7, <2>1, KeepsIs
  <1>. QED
    BY <1>4, <1>5, <1>6, <1>7

\* The version of a term, with what is not given as 0.
LEMMA ParsedTerm ==
    ASSUME NEW term \in Term, ParseVersion(term.parts, term.pre) # NoVersion
    PROVE  LET t == [k \in 1..3 |-> IF k <= Len(term.parts) THEN term.parts[k] ELSE 0]
           IN  /\ ParseVersion(term.parts, term.pre) =
                    [major |-> t[1], minor |-> t[2], patch |-> t[3], pre |-> term.pre]
               /\ ParseVersion(term.parts, term.pre) \in Version
  <1>0. term.parts \in Seq(Nat) /\ term.pre \in Nat
    BY DEF Term
  <1>1. /\ term.parts \in Seq(Nat) /\ term.pre \in Nat /\ Len(term.parts) \in Nat
        /\ \A k \in 1..Len(term.parts) : term.parts[k] \in Nat
    BY <1>0
  <1> DEFINE part(k) == IF k <= Len(term.parts) THEN term.parts[k] ELSE 0
  <1>2. ParseVersion(term.parts, term.pre) = [Release(part(1), part(2), part(3)) EXCEPT !.pre = term.pre]
    BY DEF ParseVersion
  <1>3. part(1) \in Nat /\ part(2) \in Nat /\ part(3) \in Nat
    BY <1>1
  <1>4. [Release(part(1), part(2), part(3)) EXCEPT !.pre = term.pre] =
           [major |-> part(1), minor |-> part(2), patch |-> part(3), pre |-> term.pre]
    BY DEF Release
  <1>5. [major |-> part(1), minor |-> part(2), patch |-> part(3), pre |-> term.pre] \in Version
    BY <1>1, <1>3 DEF Version
  <1>. QED
    BY <1>2, <1>4, <1>5

\* A term means what its operator is documented to mean.
LEMMA TermMeans ==
    ASSUME NEW term \in Term, NEW v \in Version, Inside(v), ParseVersion(term.parts, term.pre) # NoVersion
    PROVE  TermAccepts(term, v) <=>
              MatchOp(IF term.op = "" THEN "^" ELSE term.op, v, ParseVersion(term.parts, term.pre))
  <1> DEFINE tv == ParseVersion(term.parts, term.pre)
             keep == \A i \in 1..Kept(term.op, tv) : Digits(v)[i] = Digits(tv)[i]
  <1>1. tv \in Version
    BY ParsedTerm
  <1>2. TermAccepts(term, v) <=>
            CASE term.op = "="  -> Places(v) = Places(tv)
              [] term.op = ">"  -> Below(tv, v)
              [] term.op = ">=" -> ~Below(v, tv)
              [] term.op = "<"  -> Below(v, tv)
              [] term.op = "<=" -> ~Below(tv, v)
              [] OTHER -> ~Below(v, tv) /\ keep
    BY ParsedTerm, Zenon DEF TermAccepts
  <1> HIDE DEF tv
  <1>3. /\ Below(v, tv) <=> Less(v, tv)
        /\ Below(tv, v) <=> Less(tv, v)
        /\ Places(v) = Places(tv) <=> v = tv
    BY <1>1, BelowIsLess, SamePlaces
  <1>4. term.op \in {"", "=", ">", ">=", "<", "<=", "^", "~"}
    BY DEF Term
  <1>5. CASE term.op \in {"", "^"}
    <2> DEFINE n == IF tv.major # 0 THEN 1 ELSE IF tv.minor # 0 THEN 2 ELSE 3
    <2>0. Kept(term.op, tv) = n
      BY <1>1, <1>5, KeptIs
    <2>1. ~Less(v, tv) => (keep <=> Less(v, CaretUpper(tv)))
      <3>1. keep <=> Keeps(n, v, tv)
        BY <2>0 DEF Keeps
      <3>2. ~Less(v, tv) => (Less(v, CaretUpper(tv)) <=> Keeps(n, v, tv))
        BY <1>1, BoundsKeep
      <3>. QED
        BY <3>1, <3>2
    <2> HIDE DEF keep
    <2>. QED
      BY <1>2, <1>3, <1>5, <2>1 DEF MatchOp, tv
  <1>6. CASE term.op = "~"
    <2>1. ~Less(v, tv) => (keep <=> Less(v, TildeUpper(tv)))
      BY <1>1, <1>6, KeptIs, BoundsKeep DEF Keeps
    <2> HIDE DEF keep
    <2>. QED
      BY <1>2, <1>3, <1>6, <2>1 DEF MatchOp, tv
  <1>7. CASE term.op \in {"=", ">", ">=", "<", "<="}
    <2> HIDE DEF keep
    <2>. QED
      BY <1>2, <1>3, <1>7 DEF MatchOp, tv
  <1>. QED
    BY <1>4, <1>5, <1>6, <1>7

\* matches() accepts what a requirement is documented to accept, for every
\* requirement and every version that is no pre-release at an upper bound.
THEOREM RequirementsMean ==
    ASSUME NEW text \in Seq(Term), IsConstraint(text), NEW v \in Version, Inside(v)
    PROVE  Accepts(text, v) <=> Matches(ParseConstraint(text), v)
  <1>1. \A i \in DOMAIN text : text[i] \in Term /\ ParseVersion(text[i].parts, text[i].pre) # NoVersion
    BY DEF IsConstraint
  <1>2. \A i \in DOMAIN text : TermAccepts(text[i], v) <=>
            MatchOp(IF text[i].op = "" THEN "^" ELSE text[i].op, v, ParseVersion(text[i].parts, text[i].pre))
    BY <1>1, TermMeans
  <1>3. /\ DOMAIN ParseConstraint(text) = DOMAIN text
        /\ \A i \in DOMAIN text :
              /\ ParseConstraint(text)[i].op = (IF text[i].op = "" THEN "^" ELSE text[i].op)
              /\ ParseConstraint(text)[i].v = ParseVersion(text[i].parts, text[i].pre)
    BY DEF ParseConstraint
  <1>. QED
    BY <1>2, <1>3 DEF Accepts, Matches

\* What the indexes list are releases, or pre-releases inside every bound.
PlainListings ==
    \A i \in DOMAIN Worlds : \A w \in Worlds[i] : \A n \in DOMAIN w.index :
        \A e \in ToSet(w.index[n]) : Inside(e.version)

\* A package of the registry is the highest version that is not yanked and that
\* the nearest request accepts.
THEOREM HighestAlwaysAccepted == ASSUME OnlyRoot, PlainListings PROVE Spec => []HighestAccepted
  <1>1. WalkInv => HighestAccepted
    <2> SUFFICES ASSUME WalkInv, pc = "done", NEW p \in ToSet(packages), p.token = <<"registry", NoTree>>
                 PROVE  \E spec \in NearestRequests(p.name) :
                            LET accepted == {e.version : e \in {e \in ToSet(world.index[p.name]) :
                                                                  ~e.yanked /\ Accepts(spec.req, e.version)}}
                            IN  p.version \in accepted /\ \A v \in accepted : ~Below(p.version, v)
      BY DEF HighestAccepted
    <2>1. TypeOK
      BY DEF WalkInv, GraphInv
    <2>2. PICK spec \in NearestRequests(p.name) : spec \in Dependency /\ p \in ResolveSource(spec)
      BY NearestServes DEF ToSet
    <2>3. p \in ResolveRegistry(spec)
      BY <2>2 DEF ResolveSource, ResolvePath, ResolveGit, ResolveBundled, At
    <2>4. /\ p.name = spec.name /\ spec.name \in DOMAIN world.index /\ IsConstraint(spec.req)
          /\ p.version # NoVersion
          /\ IsHighest(p.version, ParseConstraint(spec.req), Offered(spec.name))
      BY <2>1, <2>2, <2>3, RegistrySource
    <2>5. world.index[p.name] \in Seq(Listing) /\ \A e \in ToSet(world.index[p.name]) : Inside(e.version)
      <3>1. PICK i \in DOMAIN Worlds : world \in Worlds[i]
        BY <2>1 DEF TypeOK
      <3>. QED
        BY <2>1, <2>4, <3>1, WorldTypes DEF PlainListings
    <2>6. \A e \in ToSet(world.index[p.name]) : e.version \in Version
      <3>1. ASSUME NEW s \in Seq(Listing), NEW e \in ToSet(s) PROVE e.version \in Version
        <4>1. e \in Listing
          BY <3>1 DEF ToSet
        <4>. QED
          BY <4>1 DEF Listing
      <3>. QED
        BY <2>5, <3>1
    <2>7. spec.req \in Seq(Term)
      BY <2>2 DEF Dependency
    <2>8. \A e \in ToSet(world.index[p.name]) :
             Accepts(spec.req, e.version) <=> Matches(ParseConstraint(spec.req), e.version)
      BY <2>4, <2>5, <2>6, <2>7, RequirementsMean
    <2> DEFINE accepted == {e.version : e \in {e \in ToSet(world.index[p.name]) :
                                                  ~e.yanked /\ Accepts(spec.req, e.version)}}
    <2>9. accepted = {v \in Offered(spec.name) : Matches(ParseConstraint(spec.req), v)}
      BY <2>4, <2>8 DEF Offered
    <2>10. Offered(spec.name) \subseteq Version
      BY <2>4, <2>6 DEF Offered
    <2> HIDE DEF accepted
    <2>11. p.version \in accepted /\ \A v \in accepted : ~Below(p.version, v)
      BY <2>4, <2>9, <2>10, BelowIsLess DEF IsHighest
    <2>. QED
      BY <2>2, <2>11 DEF accepted
  <1>. QED
    BY <1>1, WalkInvariant, PTL
=============================================================================
