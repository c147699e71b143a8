----------------------------- MODULE RxyResolver -----------------------------
(***************************************************************************)
(* One resolution of a package's dependencies: load_with_workspace (cli.cpp) *)
(* applies what the workspace says to the package's own manifest, then       *)
(* resolve_graph (rxy/resolver/resolver.cpp) walks the graph breadth first,  *)
(* with source::resolve for each first request of a name.                   *)
(*                                                                         *)
(* A tree is a directory with a Rexy.toml: that of a path, or that of a      *)
(* commit in the source cache (RxyCache).  A manifest is the sequence of     *)
(* its dependencies in the order of their names, as the TOML table has them. *)
(***************************************************************************)
EXTENDS Integers, Sequences, SequencesExt, RxySemver

CONSTANTS
    Names,                \* of packages
    Trees, NoTree,        \* directories with a Rexy.toml; one that has none
    Owner, Declared,      \* [Trees -> Names] and [Trees -> Version] of [package]
    RootTree,             \* the package that is built
    Bundled,              \* RXY_BUNDLED_STDLIB_VERSION
    Worlds                \* what rxy may find on the disk, in families

ASSUME TreeAssumption == NoTree \notin Trees /\ RootTree \in Trees
ASSUME OwnerAssumption == Owner \in [Trees -> Names] /\ Declared \in [Trees -> Version]
ASSUME BundledAssumption == "std" \in Names /\ Bundled \in Version

\* DependencySpec: `tree` is where a path or git source leads, `req` the version.
Dependency == [name : Names, kind : {"path", "git", "registry", "workspace"},
               tree : Trees \cup {NoTree}, req : Seq(Term)]
Listing    == [version : Version, yanked : BOOLEAN, tree : Trees \cup {NoTree}]
Token      == {"path", "git", "registry", "bundled"} \X (Trees \cup {NoTree})
Package    == [name : Names, version : Version, tree : Trees \cup {NoTree}, token : Token]

\* What a directory of packages, a workspace and an index can hold.
ASSUME WorldAssumption ==
    \A i \in DOMAIN Worlds : \A w \in Worlds[i] :
        /\ w.manifest \in [Trees -> Seq(Dependency)]
        /\ w.shared \in [DOMAIN w.shared -> Dependency]
        /\ \A n \in DOMAIN w.shared : w.shared[n].name = n
        /\ w.index \in [DOMAIN w.index -> Seq(Listing)]
        /\ w.cwd \in Trees \cup {NoTree}

VARIABLES
    world,      \* what is read: manifest, a Seq(Dependency) by tree; shared, a
                \*   Dependency by name; index, a Seq(Listing) by name; cwd, the tree rxy was
                \*   started in, or NoTree
    pc,         \* "load", "walk", "done" or "failed"
    queue,      \* requests not yet looked at
    tokens,     \* name_to_source_token
    packages,   \* out.packages
    edges       \* out.dep_edges

vars == <<world, pc, queue, tokens, packages, edges>>

TypeOK ==
    /\ \E i \in DOMAIN Worlds : world \in Worlds[i]
    /\ pc \in {"load", "walk", "done", "failed"}
    /\ queue \in Seq(Dependency)
    /\ tokens \in [DOMAIN tokens -> Token] /\ DOMAIN tokens \subseteq Names
    /\ packages \in Seq(Package)
    /\ edges \in [DOMAIN edges -> Seq(Names)] /\ DOMAIN edges \subseteq Names

Root == Owner[RootTree]

PathDep(name, tree)      == [name |-> name, kind |-> "path", tree |-> tree, req |-> <<>>]
GitDep(name, tree)       == [name |-> name, kind |-> "git", tree |-> tree, req |-> <<>>]
RegistryDep(name, req)   == [name |-> name, kind |-> "registry", tree |-> NoTree, req |-> req]
WorkspaceDep(name)       == [name |-> name, kind |-> "workspace", tree |-> NoTree, req |-> <<>>]

NamesOf(deps) == [i \in DOMAIN deps |-> deps[i].name]

\* The elements of s that are in S, in their order; kept[i] is those of the first i.
Filtered(s, S) ==
    LET kept[i \in 0..Len(s)] ==
            IF i = 0 THEN <<>> ELSE IF s[i] \in S THEN Append(kept[i - 1], s[i]) ELSE kept[i - 1]
    IN  kept[Len(s)]

\* m[x] = v for a std::map
With(m, x, v) == [y \in DOMAIN m \cup {x} |-> IF y = x THEN v ELSE m[y]]

-----------------------------------------------------------------------------
(* source::resolve: the one package a request leads to, or none              *)

\* Mutant: the name in the manifest that is found goes unchecked.
AtAnyName(spec, tree, token) ==
    {[name |-> Owner[t], version |-> Declared[t], tree |-> t, token |-> token] : t \in Trees \cap {tree}}

\* load_dep_manifest_into: the tree must be there and bear the name asked for.
At(spec, tree, token) ==
    {[name |-> spec.name, version |-> Declared[t], tree |-> t, token |-> token] :
        t \in {u \in Trees \cap {tree} : Owner[u] = spec.name}}

ResolvePath(spec) == At(spec, spec.tree, <<"path", spec.tree>>)
ResolveGit(spec)  == At(spec, spec.tree, <<"git", spec.tree>>)

ResolveRegistry(spec) ==
    LET entries    == world.index[spec.name]
        candidates == Filtered(entries, {e \in ToSet(entries) : ~e.yanked})
        best == ResolveHighest(ParseConstraint(spec.req), [i \in DOMAIN candidates |-> candidates[i].version])
        entry == Filtered(candidates, {e \in ToSet(candidates) : e.version = best})[1]
    IN  IF spec.name \notin DOMAIN world.index \/ ~IsConstraint(spec.req) THEN {}
        ELSE IF best = NoVersion THEN {}
        ELSE {[r EXCEPT !.version = best] : r \in At(spec, entry.tree, <<"registry", NoTree>>)}

ResolveBundled(spec) ==
    {[name |-> "std", version |-> v, tree |-> NoTree, token |-> <<"bundled", NoTree>>] :
        v \in {w \in {Bundled} : IsConstraint(spec.req) /\ Matches(ParseConstraint(spec.req), w)}}

ResolveSource(spec) ==
    CASE spec.name = "std" /\ spec.kind \in {"registry", "workspace"} -> ResolveBundled(spec)
      [] spec.kind = "path"     -> ResolvePath(spec)
      [] spec.kind = "git"      -> ResolveGit(spec)
      [] spec.kind = "registry" /\ spec.name # "std" -> ResolveRegistry(spec)
      [] OTHER -> {}                                  \* "has no source"

-----------------------------------------------------------------------------
(* The walk                                                                  *)

Init ==
    /\ \E i \in DOMAIN Worlds : world \in Worlds[i]
    /\ pc = "load" /\ queue = <<>> /\ tokens = <<>> /\ packages = <<>> /\ edges = <<>>

\* `foo.workspace = true`
Inherited(spec) == IF spec.kind = "workspace" THEN world.shared[spec.name] ELSE spec

CanInherit(deps) ==
    \A i \in DOMAIN deps : deps[i].kind = "workspace" => deps[i].name \in DOMAIN world.shared

LoadFails ==
    /\ pc = "load" /\ ~CanInherit(world.manifest[RootTree])
    /\ pc' = "failed"
    /\ UNCHANGED <<world, queue, tokens, packages, edges>>

Load ==
    /\ pc = "load" /\ CanInherit(world.manifest[RootTree])
    /\ pc' = "walk"
    /\ queue' = [i \in DOMAIN world.manifest[RootTree] |-> Inherited(world.manifest[RootTree][i])]
    /\ edges' = With(edges, Root, NamesOf(world.manifest[RootTree]))
    /\ UNCHANGED <<world, tokens, packages>>

\* The first request of a name is the one that counts.
Skip ==
    /\ pc = "walk" /\ queue # <<>> /\ Head(queue).name \in DOMAIN tokens
    /\ queue' = Tail(queue)
    /\ UNCHANGED <<world, pc, tokens, packages, edges>>

\* Where Rexy.toml of a resolved package is read; the bundled std has no root,
\* so that its path is that of a file in the current directory.
ManifestTree(r) == IF r.tree = NoTree THEN world.cwd ELSE r.tree

\* The dependencies whose names have no source yet.
Unseen(deps) == Filtered(deps, {d \in ToSet(deps) : d.name \notin DOMAIN tokens'})

\* Mutant: the newest requests first, so that the walk goes deep before wide.
EnqueueInFront(q, deps) == Unseen(deps) \o q

\* The requests of a package that join the queue behind those of its elders.
Enqueue(q, deps) == q \o Unseen(deps)

Visit ==
    /\ pc = "walk" /\ queue # <<>> /\ Head(queue).name \notin DOMAIN tokens
    /\ \E r \in ResolveSource(Head(queue)) :
          /\ ManifestTree(r) \in Trees
          /\ LET deps == world.manifest[ManifestTree(r)]
             IN  /\ tokens' = With(tokens, r.name, r.token)
                 /\ packages' = Append(packages, r)
                 /\ edges' = With(edges, r.name, NamesOf(deps))
                 /\ queue' = Enqueue(Tail(queue), deps)
    /\ UNCHANGED <<world, pc>>

Fail ==
    /\ pc = "walk" /\ queue # <<>> /\ Head(queue).name \notin DOMAIN tokens
    /\ ~\E r \in ResolveSource(Head(queue)) : ManifestTree(r) \in Trees
    /\ pc' = "failed"
    /\ UNCHANGED <<world, queue, tokens, packages, edges>>

Finish ==
    /\ pc = "walk" /\ queue = <<>>
    /\ pc' = "done"
    /\ UNCHANGED <<world, queue, tokens, packages, edges>>

Next == LoadFails \/ Load \/ Skip \/ Visit \/ Fail \/ Finish

Spec == Init /\ [][Next]_vars

-----------------------------------------------------------------------------
(* What a resolution is                                                      *)

\* The names within k steps of the package that is built.
Within[k \in 0..Len(packages)] ==
    IF k = 0 THEN {Root}
    ELSE LET near == Within[k - 1] IN near \cup UNION {ToSet(edges[n]) : n \in near \cap DOMAIN edges}

Distance(name) == CHOOSE k \in 0..Len(packages) :
                      name \in Within[k] /\ (k = 0 \/ name \notin Within[k - 1])

\* What a package of the graph asks for.
Requests(name) ==
    IF name = Root
    THEN {Inherited(world.manifest[RootTree][i]) : i \in DOMAIN world.manifest[RootTree]}
    ELSE UNION {ToSet(world.manifest[ManifestTree(r)]) : r \in {p \in ToSet(packages) : p.name = name}}

\* The requests for a package that come from nearest to the package that is built.
\* (One that depends on it in a cycle is no nearer to itself.)
NearestRequests(name) ==
    LET asking == {n \in DOMAIN edges : name \in ToSet(edges[n])}
    IN  {spec \in UNION {Requests(n) : n \in {m \in asking :
                            \A other \in asking : Distance(m) <= Distance(other)}} :
            spec.name = name}

(* However the manifests point at each other, cycles included, a finished     *)
(* resolution holds each name once, and exactly the names that can be reached *)
(* from the package that is built: from_resolution (lockfile.cpp) leaves out  *)
(* without a word the dependencies it does not find among the packages.       *)
GraphIsWhole ==
    pc = "done" =>
        /\ \A i, j \in DOMAIN packages : packages[i].name = packages[j].name => i = j
        /\ {p.name : p \in ToSet(packages)} = UNION {ToSet(edges[n]) : n \in DOMAIN edges}
        /\ {p.name : p \in ToSet(packages)} \subseteq Within[Len(packages)]

(* Where requests for one name differ, a package comes from one of those that *)
(* are nearest to the package that is built, as resolver.cpp:36 says          *)
(* (breadth first): what a manifest asks for itself is never overruled by     *)
(* what its dependencies ask for.                                             *)
NearestWins ==
    pc = "done" => \A p \in ToSet(packages) : \E spec \in NearestRequests(p.name) : p \in ResolveSource(spec)

(* A package of the registry is the highest version that is not yanked and    *)
(* that the nearest request accepts, the operators read as semver.hpp         *)
(* documents them.                                                           *)
HighestAccepted ==
    pc = "done" => \A p \in ToSet(packages) : p.token = <<"registry", NoTree>> =>
        \E spec \in NearestRequests(p.name) :
            LET accepted == {e.version : e \in {e \in ToSet(world.index[p.name]) :
                                                  ~e.yanked /\ Accepts(spec.req, e.version)}}
            IN  p.version \in accepted /\ \A v \in accepted : ~Below(p.version, v)
=============================================================================
