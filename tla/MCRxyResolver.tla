---------------------------- MODULE MCRxyResolver ----------------------------
(***************************************************************************)
(* Worlds for RxyResolver.  In the first family four packages point at each  *)
(* other in every way, by path, by git, through the registry and through the *)
(* workspace; in the second one dependency meets every requirement with up   *)
(* to three numbers.                                                         *)
(***************************************************************************)
EXTENDS RxyResolver, TLC

MCNames == {"app", "a", "b", "c", "std"}
MCTrees == {"app", "a1", "a2", "b", "c"}
MCOwner == [t \in MCTrees |-> IF t \in {"a1", "a2"} THEN "a" ELSE t]
MCDeclared == [t \in MCTrees |-> Release(IF t = "a2" THEN 0 ELSE 1, 1, 0)]
MCBundled == Release(0, 1, 0)

Req(op, parts) == <<[op |-> op, parts |-> parts, pre |-> 0]>>

\* None or one of these requests, and one request after another.
Maybe(deps) == {<<>>} \cup {<<d>> : d \in deps}
Then(first, second) == {f \o s : f \in first, s \in second}

ManyA == {PathDep("a", "a1"), GitDep("a", "a2"), RegistryDep("a", Req("", <<0, 1>>)), WorkspaceDep("a")}
Manifests ==
    LET app == Then(Maybe(ManyA), Then(Maybe({PathDep("b", "b"), RegistryDep("b", Req("", <<>>))}),
                    Then(Maybe({PathDep("c", "c")}), Maybe({RegistryDep("std", Req("", <<0, 1>>))}))))
        a1 == {<<>>, <<PathDep("app", "app")>>, <<PathDep("c", "c")>>, <<WorkspaceDep("c")>>}
        b  == Then(Maybe({GitDep("a", "a2"), PathDep("a", "c"), RegistryDep("a", Req(">=", <<0>>))}),
                   Maybe({GitDep("c", "c")}))
        c  == Maybe({PathDep("a", "a1"), GitDep("a", "gone"), PathDep("app", "app")})
    IN  {[app |-> m, a1 |-> x, a2 |-> <<PathDep("b", "b")>>, b |-> y, c |-> z] :
            m \in app, x \in a1, y \in b, z \in c}

Graphs ==
    {[manifest |-> m, shared |-> s, cwd |-> d,
      index |-> [n \in {"a"} |-> <<[version |-> Release(0, 1, 1), yanked |-> FALSE, tree |-> "a2"],
                                   [version |-> Release(1, 1, 0), yanked |-> FALSE, tree |-> "a1"]>>]] :
        m \in Manifests, s \in {<<>>, [n \in {"a"} |-> GitDep("a", "a1")]}, d \in {"app", "gone"}}

\* The versions of one package in no order, those above `top` yanked.
Grid == [i \in 0..15 |-> Release(i \div 6, (i \div 2) % 3, i % 2)]
PreReleases == <<[Release(1, 1, 1) EXCEPT !.pre = 2], [Release(1, 1, 1) EXCEPT !.pre = 1]>>
Versions == [i \in 1..16 |-> Grid[(5 * i) % 16]] \o PreReleases
Index(top) == [i \in DOMAIN Versions |->
                  [version |-> Versions[i], yanked |-> Less(top, Versions[i]), tree |-> "a1"]]

Ops == {"", "=", ">", ">=", "<", "<=", "^", "~"}
Parts == {<<x>> : x \in 0..2} \cup {<<x, y>> : x \in 0..2, y \in 0..2}
             \cup {<<x, y, z>> : x \in 0..1, y \in 0..2, z \in 0..1}
Texts == {Req(op, parts) : op \in Ops, parts \in Parts}
             \cup {<<[op |-> op, parts |-> <<1, 1, 1>>, pre |-> 1]>> : op \in Ops \ {"~"}}
             \cup {Req(">=", x) \o Req("<", y) : x, y \in {<<0, 1>>, <<1>>, <<1, 1, 1>>}}

Requirements ==
    {[manifest |-> [t \in MCTrees |-> IF t = "app" THEN <<RegistryDep("a", text)>> ELSE <<>>],
      shared |-> <<>>, cwd |-> "app", index |-> [n \in {"a"} |-> Index(top)]] :
        text \in Texts, top \in ToSet(Versions)}

MCWorlds == <<Graphs, Requirements>>

=============================================================================
