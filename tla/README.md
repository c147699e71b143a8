# rexc / rxy in TLA+

TLA+ models, TLC model checking and TLAPS proofs for this repository: `rexc`, a
compiler for the Rex language, and `rxy`, its build tool and package manager.
Source paths below are relative to `src/rxy/`
(for `rexc`: `src/`) of the repository; PRD is `docs/prd-package-manager.md`.

Two halves. `rxy` keeps shared state: several processes share one cache
directory, one registry directory and one package directory; they take locks,
replace files, run children, get killed and start again. Its modules are state
machines with interleavings, kills and failures. `rexc` is a batch program in
which each pass trusts the one before: its modules are the passes themselves, as
operators on trees, and state machines that write programs and run what the
passes make of them.

    AtomicRegister            ContentStore   PackageLedger    abstract specifications
         ^ implements              ^                ^ implements
    AtomicWrites              RxyCache       RxyRegistry      detailed specifications
         | EXTENDS
    AtomicFile
         ^ INSTANCE
    RxyBuild, RxyRegistry     RxyProcess   RxyIndex   RxyBuildScript   RxyResolver -> RxySemver

    RexcAst, RexcTypes ---> RexcSema ---> RexcLower ---> RexcX86, RexcArm64 ---> RexcMachine
             |                  |      (trees to RexcIr) (IR to RexcAsm)             |
             |                  +---- RexcFrontEnd ----+                             |
             +---> RexcMeaning -------^ (with RexcTyping)   RexcExec <---------------+
                        +---------------------------------------^

1. [The system](#1-the-system): components, state, interaction, hard behaviour
2. [The modules](#2-the-modules): correspondence with the code
3. [The runs](#3-the-runs): what TLC checks, with which bounds and fairness
4. [The proofs](#4-the-proofs): what TLAPS establishes, and how
5. [Where the code and its documents disagree](#5-where-the-code-and-its-documents-disagree)
6. [What is not modelled](#6-what-is-not-modelled)
7. [The plan](#7-the-plan)

To repeat a run: `tlc -config RxyCache_mirror.cfg MCRxyCache.tla`. To check the
proofs of a module: `tlapm RxyCacheProofs.tla`; every `*Proofs.tla` is checked so.


## 1. The system

### Components of rxy

| component | state it keeps | operations | what makes it correct |
|---|---|---|---|
| **source cache** `source/source.cpp`, `cache/cache.cpp` | `$REXY_HOME/git/db/<hash(url)>.git` (bare clones), `src/<name>/<commit>/` (work trees) with the marker `.rxy_extracted`, an `flock` file for each | `resolve_git`: clone or fetch, rev-parse, drift check, extract, mark, hash | one writer per bucket; the marker is never ahead of the tree; a tree that was handed to a build never changes; offline means offline; every resolve ends |
| **atomic files** `util/fs.cpp` | any small text file and its `.tmp` | `read_text_file`, `atomic_write_text_file` | a reader sees a whole text or no file, wherever writers die; a call alone does what it says, and one that fails does nothing |
| **build driver and lockfile** `build/build.cpp`, `lockfile/lockfile.cpp` | `Rexy.lock`, the artifacts under `target/` | `build::run`: read pins, resolve, compare, `--locked`, rewrite, compile | pins are not replaced silently; a build that succeeded agrees with the lockfile; the lockfile is always whole |
| **child processes** `process/process.cpp` | 32 slots of child pids shared with a signal handler; two pipes per run | `run`, `forward_signal` | slots are not shared, lost or leaked; a signal reaches every registered child; all output is read; children are reaped; runs return |
| **registry index** `registry/registry.cpp` | one TOML file per package in a git-backed directory; a refresh stamp | `lookup`, `append_entry`, `set_yanked`, `refresh_if_stale` | entries are immutable except for `yanked`; the last yank holds; a refresh heals a broken clone |
| **publish and yank** `cli/cli.cpp` | none of its own | `cmd_publish`, `cmd_yank_or_unyank` | the published checksum is that of the published commit |
| **build scripts** `build_script/build_script.cpp` | `target/build/<name>-<hash>/`: `output`, `invoked.toml`, `OUT_DIR` | `run_for`: decide, compile, snapshot, run, detect, persist | cached directives are what the script would print now |
| **resolver** `resolver/resolver.cpp` | the work list and the graph of one call | `resolve_graph` | each reachable name once, the nearest request wins, the walk ends |
| **semantic versions** `semver/semver.cpp` | none | parse, compare, match, `resolve_highest` | the highest version that the requirement accepts, as documented |
| **workspaces** `workspace/workspace.cpp` | none | discover, expand members, inherit | the right root and members; fail fast or keep going |
| **manifest** `manifest/manifest.cpp` | none | TOML to records, validation | accepts what the documents accept |
| **hashing** `hash/sha256.cpp` | none | SHA-256 of texts, files and trees | equal exactly for equal trees |
| **command line** `cli/cli.cpp`, `main.cpp` | `Rexy.toml` | new, init, add, remove, build, run, test, clean, search, tree, vendor, ... | each command's own effect |
| **diagnostics, terminal** `diag/`, `util/tty.cpp` | none | printing | - |

### Components of rexc

| component | operations | what makes it correct |
|---|---|---|
| **parser, module loader** `parse.cpp`, `ast.cpp` | text to tree, imported files | one tree per text, each file once |
| **types** `types.cpp` | names, sizes, chunks, layouts, mangled names, operand rules | one type, one layout and one symbol for one name in every pass |
| **semantic analysis** `sema.cpp` | tables of types, modules, statics, functions, imports; visibility; every expression and statement; definite assignment; unsafe depth; templates | what is accepted lowers, is well typed, reads only what was assigned, uses only what is visible and what is unsafe only inside `unsafe` |
| **lowering** `lower_ir.cpp` | tree to IR; monomorphs; `?`; deferred calls; patterns; layouts | the IR means what the source means |
| **code generation** `codegen_x86.cpp`, `codegen_arm64.cpp` | IR to i386, x86_64 and arm64 | the code does what the IR says, keeps stack and frames, stays inside its memory |
| **driver** `main.cpp` | arguments, temporary files, assembler, linker | its own output, no rival's |
| **standard library** `stdlib/` | runtimes, a bump allocator, growing vectors | in bounds at its limits |

None keeps state between runs. Within one run the passes share state in their own
members: the analyzer's depth counters and tables, the lowerer's pre-statements,
defer scopes and queue of monomorphs, the generator's slots, labels and the
machine's stack. An accepted program is a promise from one pass to the next; no
pass behind analysis checks again.

### How they interact

`rxy build` (`build::run`) calls, in this order: `lockfile::read` for the pins;
`resolver::resolve_graph`, which asks the source layer for every dependency (git:
the cache; registry: the index, then the cache with the entry's URL and commit;
path: the directory); `lockfile::detect_drift` against a second reading of
`Rexy.lock`; a third reading for `--locked`, or else `lockfile::write`; the build
scripts; one `rexc` per target. Every `git`, `tar`, `rexc`, script and test binary
is a child of `process::run`. Every text file is written with
`util::atomic_write_text_file`. `rxy publish` and `rxy yank` read, change and
rewrite an index file which other processes are resolving from.

Shared state is on disk. The only locks are the two `flock`s of the source cache:
nothing locks `Rexy.lock`, the registry or the build-script cache. A killed
process leaves its files; the kernel drops its locks, and its children live on.

### Hard behaviours

`PROJECT.json` lists them one by one at the line where they bite. In groups:

* two processes in one cache bucket, in one package, in one registry, in one
  build-script cache;
* a kill between any two steps, and what the next process makes of the remains;
* the world moving on meanwhile: tags force-pushed, versions published and
  yanked, HEAD moved, sources edited or deleted;
* values read, then used after they may have changed: the pins, the index, HEAD,
  the age of `output`;
* signals and pids: a handler that scans a table while threads change it;
* two pipes, each of which can fill up;
* files written through a shared temporary name, and a flush nobody checks;
* the order in which requests for one package are met, and cycles among them;
* two passes with rules of their own for the same names, types and layouts;
* ways out of a scope: the end, return, break, continue, `?`, each with the calls
  that were deferred on the way in;
* values of several chunks in registers, on the stack and in frames, on three
  targets with different conventions.


## 2. The modules

Each module models whole operations. Steps are split where another process, a
kill or a failure can come between: at each system call whose effect is shared.
What only one process sees is one step. Contents are abstract: a commit stands
for its tree, a lockfile is the function from names to pins, a text is a member
of a set. Operators whose comment begins with "Mutant:" are plausible bugs of the
definition that follows them. No specification uses them; they show that each
property notices such a bug.

### RxyCache (with ContentStore)

Any number of processes inside `resolve_git`, for one package name that several
URLs may serve (a repository and its mirror hold the same commits, so the lock of
the work tree does not follow from that of the clone).

| module | code |
|---|---|
| `bare[u]`: `st`, `tag`, `head`, `known` | the bare clone: absent, initialised, with origin, complete; what its refs name; the commits it holds |
| `files`, `staged`, `marked` | a work tree's contents, its `.tmp.tar`, its `.rxy_extracted` |
| `bareLock`, `srcLock` | the two `FileLock`s |
| `pc[p]` | the line of `resolve_git`; `idle` before and after an error, `done` with a result |
| `Probe`, `CloneStep`, `CloneFail`, `Fetch` | `is_directory(objects)`, remove_all + `git clone --bare`, `git fetch --all --tags --force` |
| `Parse` | `git rev-parse`, the tag-drift check, `src_path` |
| `Prepare` ... `Mark` | marker test, remove_all, `git archive`, `.tmp.tar`, `tar -xf`, remove, marker. The code looks at none of the results of remove_all, of the removal and of the marker's stream: in the trees of `Failing` each of them may fail |
| `Hash` | manifest load, name check, `sha256_dir_tree`, return |
| `Throw`, `ReleaseLocks`, `Crash` | unwinding, the destructors, a kill |
| `OrphanGitAsks`, `OrphanGitEnds`, `OrphanTarStep` | a child that outlives a killed `rxy`, at most `MaxGit` and `MaxTar` of them at once, the gits in the clones of `Lingering`: a git is told what upstream names, and ends with that at any later time; a tar goes on writing until remove_all takes its directory away |
| `Push` | upstream moves its tag and HEAD |

`git` and `tar` are external: a clone or an extraction may stop half way, a
failing clone removes what it made, and a fetch in a *bare* clone moves tags but
not branches or HEAD (it has no fetch refspec).

Two histories say of what the properties speak. `sealed` are the processes whose tree
carried its marker when it was handed out. `spoilt` are the trees that a removal let
down: a tar was still running in them when they were filled again, or `.tmp.tar`
stayed. `seen[p]` is what upstream named while p resolved, and what it had told a git
that was left over in p's clone.

`ContentStore` is what the cache promises: a set of commits that only grows, from
which only members are handed out. `RxyCache` implements it under the mapping
`store` = the marked trees with the right digest, `handed` = what finished
resolves hold that were `sealed`, both without the spoilt trees.

### AtomicFile (with AtomicWrites and AtomicRegister)

One path, written with `atomic_write_text_file` and read by anyone, by inode:
`name` and `tmp` are the inodes of `<path>` and `<path>.tmp`, `stream[p]` the one
p has open. All writers of a path share `<path>.tmp`, so a stream may still point
to an inode that another writer has renamed into place. Opening truncates, the
text reaches the inode with the flush in the stream's destructor, after
`if (!out)` was tested: when that flush fails nobody notices (`FlushFails`). An
inode without a name and a stream is recycled (`Kept`).

The history variable `calm` says that no two writes have overlapped and no flush
has failed. Without it the promise is false of the code (section 5). What holds
regardless is stated without it.

`AtomicWrites` looks at the same steps call by call: what each call was asked to
write (`asked`), how the last one ended (`answer`), whether it was alone (`alone`),
and whether the file is owed to the last good call (`firm`).

`AtomicRegister` is the promise: one value, and calls that are `asked` to set it. A
call that is alone sets it to its own text in the step in which it answers "ok"; a
call that fails or dies leaves it as it was; while calls overlap the value is
anything, and the next call alone makes it firm again. `AtomicWrites` implements it
with `value <- Read`.

### RxyBuild

`build::run` of one package, over and over, by one or more processes, with
`Rexy.lock` as an INSTANCE of `AtomicFile`. `Start`, `ReadPins`, `Resolve`,
`CheckDrift`, `CheckLocked`, `Save`, `Check` and `Compile` are its parts in
order; each of the three readings of the lockfile is a step of its own. The world
is `manifest` (`rxy add`, `rxy remove`), `remote` (pushes), `index` (publish,
yank); the machine's copies of it are `clone` and `copy`, refreshed or not as
`--offline` and the refresh TTL decide. `artifact[t]` is a history of what target
t was compiled against. Dependencies are one level deep: the graph below them
comes with the resolver. The lock file's fields other than the commit or version
(url, checksum) follow from it and are left out.

### RxyProcess

`process::run` with concurrent callers (threads), the table `g_active_children`
with its values -1 (free) and 0 (taken, pid not known), the handler
`forward_signal` that scans it one slot at a time on the thread it interrupted,
and both pipes with a capacity. Children write, block, exit, or die of a signal;
`inherits` says which children hold write ends of a run that is not theirs.
`cli.cpp` calls `run` from one thread only; the code is written for more ("one
per concurrent run() call"), and so is the model.

### RxyRegistry (with PackageLedger)

One index file, as an INSTANCE of `AtomicFile`. `Archive`, `RevParse`, `Lookup`
and `Save` are `cmd_publish` with `append_entry`, and `cmd_yank_or_unyank` with
`set_yanked`; `Lookup` and `Fetch` are `resolve_registry_dep`. `Commit` moves the
author's HEAD. The history variable `steady` says that HEAD never moved between
the two looks a publish takes at it, and that no two read-modify-writes of the
file overlapped; `wanted` is what the last successful yank or unyank asked.

`PackageLedger` is what FR-018 and FR-036 promise of one package: entries are added
one at a time, with the checksum of their commit, and only their yanked mark changes;
a resolution is handed the highest entry that is not yanked, at one moment. It
promises nothing once `steady` is gone. `RxyRegistry` implements it under `entries` =
what a lookup finds in the file (`Listed`), `handed` = what a resolution between its
lookup and its `resolve_git` holds.

### RxyIndex

The directory of a git-backed index as facts about it: whether git finds it empty
(`used`), `git`, the one package file, the stamp and its age. `Open` is
`load_config`; `Check` to `Stamp` are `refresh_if_stale`, with the two git commands
as a start, which asks upstream, and an end; `Lookup` is the end of it for
`resolve_registry_dep`. A kill takes git along and leaves what git leaves: half a
clone, a lock. The world pushes, publishes into the directory, merges by hand and
lets the ttl pass (`Age`), which is assumed longer than one refresh. Offline
resolutions open the directory, hence create it, too.

### RxyBuildScript

`run_for` and `needs_rerun` for one cache key. `newer` is the set of files
modified after `output`: the code compares modification times with nothing else.
`Examine` takes the time of `output`, `Compare` compares the environment and the
sources with it, and `UseCache` reads `output`: three steps without a lock, between
which other builds, edits and kills come. `WatchedIsNewer` has the watch list as the
code reads it, stray strings included. `MissingIsNewer` is what `file_time_type{}`
compares to: later than every file with libstdc++, earlier with libc++. The history
variable `orderly` says that no edit fell between the mutation check and the writing
of `output`, that nothing came between `output` and `invoked.toml` of one entry, and
that no output was written between another build's decision to use the old one and
its reading if the environments differ. `valid[p]` is what the script would have
printed at the moments since p's decision.


### RxySemver and RxyResolver

`RxySemver` has the order of versions, the parsed requirement and
`resolve_highest` as operators; a requirement is a sequence of terms [op, parts,
pre], a pre-release is its rank, and Nat stands for `int`: no number overflows. Beside
the translation stands what `semver.hpp` and the comments of `match_op` say of the
operators, in other words: which numbers of a version must stay (`Kept`, `Accepts`),
and which of two is below (`Below`: the first place that differs decides).

`RxyResolver` is one resolution. `world` is what lies on the disk: manifests,
`[workspace.dependencies]`, the index, the current directory. `Load` and
`LoadFails` are `load_with_workspace`, which applies inheritance to the package
that is built and to no other. `Visit`, `Skip`, `Fail` and `Finish` are the turns
of the loop in `resolve_graph`; `ResolveSource` is `source::resolve` with its four
kinds of source. A tree is a directory: how it comes to be there is `RxyCache`.

### The passes of rexc

The tree (`RexcAst`) and the types (`RexcTypes`) are records; a type name is what
its text parses to, and a mangled symbol is the sequence of the identifiers its
text is joined from, so that symbols are equal when their texts are. A pass is an
operator from tree to tree. What a C++ pass keeps in members and changes as it goes
is a record `st` that is passed on; what it sets and resets around a body is a
record `cx`.

| module | code |
|---|---|
| `RexcSema` | `Analyzer`: the tables in the order the code fills them; `AnalyzeExpr`, `AnalyzeStmt` and their parts by kind; `initialized` locals merged where branches meet; unsafe and loop depth; instances of templates; the error kinds it reports, `Accepts` when there are none |
| `RexcLower` | `Lowerer`: names and items looked up again without visibility, layouts, `?` into a `let` and an early return before the statement, deferred calls copied to every way out, match bindings, monomorphs from a queue |
| `RexcX86`, `RexcArm64` | frames and slots, values by chunks, arguments and results, branches and labels, data |
| `RexcAsm` | the instructions they emit, as records |
| `RexcMachine` | external: a processor, one action per kind of instruction, and a runtime for extern functions (`get`, `emit`, results, buffers, memory). It is strict where real ones are lenient: a byte nobody wrote, and a register an extern call may have changed, is `Undefined`, and an address, branch or output that is `Undefined`, or an access outside of the data and the stack in use, is a fault. What lies below the stack pointer is forgotten. Extern functions stand for those of `src/stdlib`, which `rexc` compiles: their results are extended to the register (assumed; section 5, 30) |
| `RexcMeaning` | external: what a program means, by the language reference (docs/ch03 to ch12), on the source tree alone |
| `RexcTyping` | external: when IR is well typed |
| `RexcFrontEnd` | programs written one statement at a time, blocks opened and closed, kept when analysis accepts them; both passes run on every one. The passes are constant operators, which `MCRexcFrontEnd` gives the definitions of the modules above |
| `RexcExec` | `RexcMachine` on the programs that come out of the pipeline, which `MCRexcExec` puts together; what a source means is a constant operator, given by `RexcMeaning` |

A byte has `ByteBits` = 3 bits, so that a 64-bit number fits TLC's integers and
wrapping, sign extension and truncation happen with small numbers.


## 3. The runs

| run | instance | asks | states |
|---|---|---|---|
| `RxyCache_mirror` | 2 processes, a repository asked by a tag pinned to one commit, online and offline, a mirror asked for that commit, 2 commits, kills anywhere, one git (of the repository) and one tar left over at a time, failing removals and marker writes | is the cache safe when two locks matter, do the locks exclude, do offline resolves stay offline, and does it implement `ContentStore`? | ~1 310 000 |
| `RxyCache_tag` | 2 processes, 1 URL whose tag and HEAD move, requests by the tag, one commit that fails the name check, kills and a git left over | is a tag fresh, and does every resolve end? | ~362 000 |
| `AtomicFile` | 3 writers, 4 inodes, 2 texts, a disk that fills up | are files whole, and is a call a write of a register? | ~3 200 |
| `RxyBuild` | 2 processes of which one also edits, plain and `--locked`; a git dependency that comes and goes, a registry dependency, 2 commits, kills and deletions | do pins hold, and does a successful build agree with the lockfile? | ~842 000 |
| `RxyProcess_table` | 3 callers, 2 slots, 2 pids, 1 signal | table, handler, reaping | ~388 000 |
| `RxyProcess_pipes` | 2 callers, pipes of 2 chunks, children that write at most 1 to stdout and 2 to stderr | is the output complete, and does every run return? | ~94 000 |
| `RxyRegistry` | 2 processes that publish, yank, unyank and resolve; 2 versions, 2 commits, 3 inodes | immutable entries, yanks, checksums, and does it implement `PackageLedger`? | ~89 000 |
| `RxyIndex` | 2 processes, 3 upstream commits, kills anywhere, publishes, pushes, merges by hand, a ttl that passes | does a resolution that was let through read an index that is there and recent? | ~1 000 000 |
| `RxyBuildScript` | 2 processes with 2 environments, a watched and an unwatched file, 2 texts, missing files in the past | are cached directives fresh whenever they are used? | ~141 000 |
| `RxyResolver` | 30 720 graphs of four packages and `std` over path, git, registry and workspace requests; 208 requirements against 18 versions, with each of them the highest that is not yanked | is a resolution whole, does the nearest request win, is the version the highest accepted? | ~164 000 |
| `RexcFrontEnd` | ten themes, each with the statements and heads that meet one part of analysis, up to a limit per theme; 128 visibilities of a nest of modules | do analysis and lowering agree on every accepted program? | ~23 000 |
| `RexcExec` | 31 programs, 3 targets, inputs -1, 0 and 2, bytes of 3 bits | does the code do what the source says, and end? | ~53 000 |

### What the properties say

* **RxyCache.** `LocksExclusive`: the lock protocol itself. `ExtractsAlone`: whoever
  fills a tree is alone in it, children of dead processes included, unless
  `remove_all` left one running there. `MarkedTreeComplete`: the marker is only on
  whole trees. `HandedTreeStays`: the sum of a finished resolve is right, and the tree
  stays whole for as long as `rexc` may read it, that is after the locks are gone, if
  the marker was written. `FreshTag`: an online resolve of a tag returns a commit that
  the tag named during that resolve, or when a git was told it that lives on in that
  clone. `BareChangesAreOnline`: only an online process with the lock, or a child one
  left, changes a clone. `ResolveEnds`: liveness. `StoreSpec`: refinement, in which a
  store that only grows is FR-020.
* **AtomicFile.** `FileWhole`, and `RegisterSpec` (refinement): the text of a call that
  was alone is there when it returns, a call that throws or dies has no effect, and a
  file that colliding calls left torn is mended by the next call that is alone.
* **RxyBuild.** `PinsHold`: a git pin is never replaced by another commit in one
  step, whatever sequence of edits, pushes, failures and kills comes before.
  `SuccessIsRecorded`: after a build that no other overlapped, `Rexy.lock` is what
  the targets it compiled were made from.
* **RxyProcess.** `SlotsTrackRuns`, `SignalReachesRegistered`, `ChildrenAreReaped`,
  `CaptureIsWhole`, and `RunsReturn` (liveness).
* **RxyRegistry.** `EntriesImmutable`, `YanksHold`, `ChecksumMatches`, and `LedgerSpec`,
  the refinement: a command takes effect wholly in one step or not at all. All four
  speak of steady histories: kills, retries and commands that follow each other in any
  order are in, overlapping rewrites of the index and a HEAD that moves inside a
  publish are not, as the code is wrong there (section 5, 11 and 12).
* **RxyIndex.** `LookupIsRecent`: an online lookup finds the package file, with at
  least what upstream had when a stamp last came of age before the process looked at
  it, whatever failed or was killed before and while other processes pull. It is
  checked as long as no process removes or clones the index while another uses it
  (`calm`).
* **RxyBuildScript.** `CacheIsFresh`: what is read from the cache is what the script
  would have printed at some moment between the decision to use it and the reading, in
  orderly histories and while no file that the script reads is missing.
* **RxyResolver.** `GraphIsWhole`: a finished resolution has each name once and
  exactly the names that can be reached; `from_resolution` leaves out silently what
  it does not find. `NearestWins`: a package comes from a request that is nearest to
  the package that is built. `HighestAccepted`: the version is the highest that the
  request accepts, with the operators as documented.
* **RexcFrontEnd.** `AcceptedLowers`: what analysis accepts, lowering finishes
  without a throw. `IrWellTyped`: and its result is well typed, in every instance of
  a template. `LayoutsAgree`: the two passes lay structs out alike.
  `ReadsAreAssigned`: no run of an accepted program, as `RexcMeaning` runs it, reads
  a local before it is assigned. `PrivateStaysPrivate`: docs/ch11, stated on
  the program, against what analysis accepts; for functions and static scalars, as the
  modules of the instance declare no structs and enums. `DereferencesAreMarked`: the
  same for what `sema.hpp:27` asks of `unsafe`, dereferences with `*` and calls of
  extern functions; docs/ch10 asks for more, which the code does not check (section 5,
  24).
* **RexcExec.** `RunsAsWritten`: every program emits and returns what its source
  means. `StackBalanced`: at every label the stack pointer is at the end of the
  frame. `CallsReturn`: a call comes back with its caller's stack and frame.
  `Halts`: every program ends, and not at a fault.

The type invariants of `RxyCache`, `RxyBuild`, `RxyProcess`, `RxyRegistry`, `RxyIndex`,
`RxyBuildScript` and `RxyResolver` are stated beside their variables. They are proved
(section 4), so no run spends time on them. So is `MarkedTreesImmutable` of `RxyCache`,
which says of the files what `StoreSpec` says of the store.

Every property of a passing run has a mutant in `PROJECT.json`: a bug planted in
one definition of the model which makes TLC report that property violated.

### The bounds, and why they are enough

* *Two processes* are enough to interfere, and what they share is pairwise (locks,
  a temporary name, a file). `AtomicFile` has a third writer, for the chain
  "renamed away from under a stream"; `RxyProcess_table` has three threads for two
  slots, so that a run finds the table full and slots are taken while others are
  freed.
* *One git and one tar left over at a time* (`MaxGit`, `MaxTar`), the git in the clone
  that is used online and offline (`Lingering`): each works in one directory, and what
  it does there beside a process is pairwise. The theorems have any number, anywhere. `Failing` is one of the two trees, so that a tree in which nothing fails
  is beside it; in `RxyCache_tag` no tree matters, so nothing fails and no tar is left.
* *Two URLs for one commit* is the smallest instance in which the work-tree lock
  does something that the clone's lock does not.
* *Inodes*: one per process, and one more so that a fresh one is always free
  (`InodeAssumption`); the run of `AtomicFile` has exactly that many.
* *Two commits, versions, texts* tell equal from different. Their order matters
  for versions only ("highest"), hence the numbers 1 and 2.
* *Pipes*: chunks instead of bytes. What matters is whether output fits. In
  `RxyProcess_pipes` stderr fits: that is the hypothesis under which the code is
  right (section 5, 3).
* `MaxSignals`, `Moving`, `Optional` bound the environment: how many signals come,
  which upstreams move, which dependencies come and go. `Requests`, `Options`,
  `Watched`, `DeclaresEnv` enumerate the inputs.
* `steady` and `orderly` also guard `Start`: once the history has left the
  behaviour the properties speak about, no new command begins. The commands that
  are running still finish, in every order.
* *Graphs*: four packages are enough for two roads to one name, for roads of
  different length, for a cycle that leaves the package that is built out and one
  that contains it. One package has two trees with different versions; one tree
  bears another name; one is missing.
* *Requirements*: numbers 0 to 2 with one, two or three of them given, so that
  every "first number that is not 0" and every number left out occurs; 18 versions
  around the bounds, in no order, with pre-releases of 1.1.1. Each version in turn is
  the highest that is not yanked, so that the answer tells of every version whether
  it is accepted.
* *Themes*: three or four statements are written into a body where their order and
  nesting is the question (assignment over branches, loops, matches and scopes; raw
  pointers and unsafe blocks; `?`), one or two where every pair of an operation and a
  type is (operators, casts, calls, fields, instances of templates). Declarations do
  not vary within a theme; in the 128 module themes they are what varies: which of
  four modules uses what, with which imports, and what is public. `Answers` = {0, 1}
  decide both sides of every branch.
* *Programs* of `RexcExec`: fifteen cover the language by area (defers, loops, `?`,
  logic, numerics, casts, calls with more arguments than registers, recursion,
  structs, matches, pointers, texts, templates, modules); sixteen are every pair of
  exits from an inner and an outer loop with deferred calls in both. The inputs are
  negative, zero and positive. `Targets` leaves a program out of a target where
  section 5 lists a limit of that target which the program meets.
* Symmetry is used for safety runs only, on sets of model values that the module
  treats alike. The two fair runs have none.
* Deadlock is checked except in `RxyProcess`, where the system may stop: when
  `rxy` is dead and its children have ended, in `RxyResolver` and `RexcExec`, which
  end, and in `RexcFrontEnd`, where a program is complete at its limit.

### Fairness

* `RxyCache`: weak fairness of each process's steps (the scheduler runs a
  runnable process; `git` and `tar` end), strong fairness of taking each lock (an
  `flock` waiter is woken when the lock is free, and is not passed over for ever
  while others take and release it). A kill also counts as an end, and nothing
  obliges a process to start. Weak fairness of the locks would not do: the lock is
  not continuously free while another process comes back for it.
* `RxyProcess`: weak fairness of each thread, of each child's writing and exiting,
  and of the handler. That a child exits once it has written all it wants is an
  assumption about children (`git`, `tar`, `rexc`, scripts that end). `Start`,
  `Signal` and dying of a signal are not fair: they need not happen.
* `RexcMachine`: weak fairness of the next step. A processor goes on.
* The other modules make no liveness claim: their programs are straight lines
  without waiting, whose end depends on children only.


## 4. The proofs

Each component of `rxy` that is a state machine has a module of proofs. The theorems
hold for every value of the constants that satisfies the named assumptions: any
number of processes, threads, URLs, commits, inodes, texts, packages and versions.
Every safety and action property and every refinement that a run of `rxy` checks is
the conclusion of a theorem; a hypothesis, where there is one, is in the table, and is
needed. The other theorems say what no run asks; TLC found no violation of them on the
instance of their module's run.

All proofs have one shape. The property is not inductive. It is strengthened by
what the code relies on without saying so: which control points own what, and what
is still true of values that were read a few steps ago. The invariant is a
conjunction of named parts, and there is one lemma per part, with one step per action.

### RxyCacheProofs

| theorem | property | hypothesis |
|---|---|---|
| `TypeCorrect` | `TypeOK` | - |
| `MutualExclusion` | `LocksExclusive` | - |
| `ExtractionIsAlone` | `ExtractsAlone` | - |
| `MarkerIsTrustworthy` | `MarkedTreeComplete` | - |
| `HandedTreeIsSafe` | `HandedTreeStays` | - |
| `ImmutableContent` | `MarkedTreesImmutable` | - |
| `ImplementsStore` | `StoreSpec` | - |
| `OfflineDoesNoNetwork` | `BareChangesAreOnline` | - |
| `TagIsFresh` | `FreshTag` | - |
| `NoCircularWait` | whoever waits for a lock, another process in `resolve_git` waits for nothing | - |
| `NeverGoesRound` | each step ends the resolve or takes it further along | - |

All of them hold with any number of children left over, and with failing removals and
marker writes; `spoilt` and `sealed`, in the properties, name the trees and results
that the code cannot vouch for (section 5, 1).

The argument has two layers. `LockInv` = `TypeOK` /\ `Bound` /\ `Ownership`: a
process that is past a lock has the request and commit that name it (`Bound`), and
the lock's holder is that process (`Ownership`). Exclusion alone is not
inductive: releasing must be known to free only one's own locks. Every step
preserves `LockInv`, and `LocksExclusive` follows because a lock has one holder.

`TreeInv` adds `Progress`, `MarkedAlone`, `MarkedTreeComplete` and
`HandedTreeStays`. `Progress` ties the control point of the process that holds a
tree's lock to the tree: before the marker the tree is not marked; between the
last file and the marker it is complete; after `Unstage` no tarball is left; and, all
that time, no tar runs in it unless the tree is spoilt. So `Mark` marks a complete
tree. No step of another process can interfere: it would have to hold the same lock.
A child needs no lock; but a tar is left over in a tree that is not marked, and the
next process there takes the directory from it before it fills it: so no tar runs in a
marked tree (`MarkedAlone`) that is not spoilt. The proof has one step per action and,
under it, one per conjunct that the action can disturb. The action property and the
refinement follow from `TreeInv` and one case per action: a step outside of `Mark` and
`Hash` leaves `store` and `handed` or only drops what was handed.

The last four need `LockInv` only. `OnlineGit`: a process that is in `git clone` or
`git fetch` is online, and so was the one that left a child. `FreshInv` follows a
tag from `git fetch` to the result. What a process has seen of upstream since it
began includes what upstream says now and what every git left over in its clone was
told (`SeenNow`); a clone that is not complete names no tag (`InitNoTag`); a tag that
an online process is about to parse is one it has seen (`TagSeen`), for the clone's
lock is its own, and a child that rewrites the tag meanwhile brings one that it has
seen too.

`NoCircularWait` and `NeverGoesRound` are the half of `ResolveEnds` that needs no
fairness. A process takes the clone's lock first and the tree's second, so the holder
of a tree's lock waits for nothing; the holder of a clone's lock either works or waits
for one of those. And `Stage` orders the control points so that every step goes up or
ends the resolve: there is no retry that a rival could make repeat. What is left to
fairness is that a process that can go on does, and that a lock that is free again and
again is granted.

### AtomicFileProofs

| theorem | property |
|---|---|
| `FileTypeCorrect` | `TypeOK` |
| `WholeFile` | `FileWhole` |
| `ImplementsRegister` | `RegisterSpec` |

All three are unconditional (`FileWhole` speaks about calm behaviours by itself, and
the register leaves open what colliding calls do). The inductive invariant of the
first two is `FileInv` = `TypeOK` /\ `Apart` /\ `StreamsOpen` /\ `WriterInv` /\
`FileWhole`: `<path>` and `<path>.tmp` are different inodes; a process has a stream
open exactly while it writes; and, as long as it is calm, at most one process is inside
the function, its stream is the inode of `<path>.tmp`, and once it has written, that
inode holds a whole text. Then a rename installs a whole text. A kill leaves an inode
that nobody reads, and that the next writer truncates.

Every step of `AtomicWrites` is one of `AtomicFile` or leaves the file (`CallsStep`), so
all of this holds of it too. The register needs `CallInv`, which asks for no calm history. `AloneInv`
follows one call that is alone: its stream is an empty `<path>.tmp`, and after its
flush `<path>.tmp` holds its own text (`asked`), whatever earlier calls have left
there. Each step of a call is mapped: the open is `Begin`, the rename `Succeed`, the
throws and the kill `Fail`, a lost flush `Lose`. A write through a stream whose inode
another writer has renamed into place changes the file before its call has ended: that
is `Scribble`, and `AloneInv` shows that it needs a call that is not alone.

### RxyProcessProofs

| theorem | property | hypothesis |
|---|---|---|
| `ProcessTypeOK` | `TypeOK` | - |
| `SlotsAlwaysTrack` | `SlotsTrackRuns` | - |
| `ChildrenAlwaysReaped` | `ChildrenAreReaped` | - |
| `SignalAlwaysReaches` | `SignalReachesRegistered` | - |
| `CaptureAlwaysWhole` | `CaptureIsWhole` | - |
| `PipesNeverJam` | while a run drains its pipes or waits, a child or a thread can go on | `MaxErr <= Cap` |

`TableInv` says which control points have a slot and a child (`Owning`), that slots
are those of the runs (`SlotsTrackRuns`), and that a child that is not reaped belongs
to one run, before its `waitpid` (`OneRun`). `ScanAhead` carries the handler's scan
through the steps of the other threads: a child that it has to signal and has not met
sits in a slot that is still ahead. It holds because a run keeps its slot: it sets it
once and clears it at the end. At the end of the scan there is nothing ahead.

`PipeInv` is book-keeping. What a run has got, what is in its pipes and what its child
has still to write add up to what is due (`Accounts`). A child that runs has the write
ends (`Writers`), so that at end of file it has ended, nobody writes any more
(`AtEnd`), and if it was not killed it has written everything (`Finished`). That
`Cap`, `MaxOut` and `MaxErr` are any numbers means that the *result* is whole also
where the code hangs (section 5, 3).

When it does not is `PipesNeverJam`, the half of `RunsReturn` that needs no fairness.
If stderr fits into its pipe, a child can be blocked on stdout only. A run that drains
waits for children that hold the write ends of its pipes, and these need not be its
own: chains of inherited ends are what could close a circle. They cannot, because
only a child that runs holds an end (`HoldersRun`), a child that runs and is blocked
on stdout belongs to a run that has not drained it yet, and that run can read. With
`MaxErr > Cap`, TLC finds the jam.

### RxyBuildScriptProofs

| theorem | property | hypothesis |
|---|---|---|
| `ScriptTypeOK` | `TypeOK` | - |
| `CachedDirectivesAreFresh` | `CacheIsFresh` | - |
| `DeletionIsNoticed` | the same, also while files are missing; orderly | `Watched # {}`, `MissingIsNewer` |
| `CacheIsWrittenFresh` | what is cached is what the script would print at that moment; orderly | - |

`CacheIsFresh` is about orderly histories, and decisions while no file is missing that
the script reads: a deleted source goes unnoticed under the default policy, and where a
missing file's time lies in the past (section 5, 14). `DeletionIsNoticed` says that it
is noticed otherwise; both its hypotheses are needed.

The invariant: a build that ran its script knows what it read, and whatever changed
since is in `touched` (`Evidence`); before the output is written nothing is
(`Unmutated`); so the output comes from the present text of every file that is there
and not newer (`SourcesCached`). `EnvCached` says the same of the environment: one
build at most is between `output` and `invoked.toml`, and outside of that they agree.
A build that compares has an earlier time of `output` in hand, and misses no newer file
by that (`CutoffHolds`). These give a right decision; that it is still right when
`output` is read is `DecisionHolds`: an edit in between adds a moment to `valid`, and
an output that replaces the old one was, in an orderly history, printed in the same
environment of the sources as they are then. `CacheIsWrittenFresh` is the writing side:
a build of another process may have changed the sources since the script read them, but
then the mutation check has refused the result.

### RxyIndexProofs

| theorem | property | hypothesis |
|---|---|---|
| `IndexTypeOK` | `TypeOK` | - |
| `LookupAlwaysRecent` | `LookupIsRecent` | - |
| `IndexGoesBackAlone` | the index loses what it had only to a process alone with it, and no fresh stamp stays | calm |

A fresh stamp vouches for the index (`FreshIsRecent`). It does, because what git was
told when it asked is at least what the last stamp that came of age requires
(`AskedLate`), and because what is in the directory when the stamp is written is what
git was told or later (`CheckedOut`). The second could fail if the index were emptied
meanwhile. In a calm history nobody does so who is not alone (`EmptiesAlone`), and
what it emptied stays empty, without a stamp, until its clone is through (`Cleared`):
so no stamp ever vouches for less than it did.

### RxyRegistryProofs

| theorem | property | hypothesis |
|---|---|---|
| `RegistryTypeOK` | `TypeOK` | - |
| `YanksAlwaysHold` | `YanksHold` | steady |
| `ChecksumsAlwaysMatch` | `ChecksumMatches` | steady |
| `EntriesAreImmutable` | `EntriesImmutable` | steady |
| `ImplementsLedger` | `LedgerSpec` | steady |
| `IndexAlwaysWhole` | `FileWhole` of the index | calm |

`steady` and `calm` are histories that the properties name themselves: the theorems
promise nothing once two rewrites of the index have overlapped, or HEAD has moved inside
a publish, and the code loses entries, yanks and checksums then (section 5, 11 and 12).
What they do exclude is that kills, retries, stale temporary files, republished versions
or any order of commands does so.

In a steady history one command at a time is past its
look at the index (`OneSave`), its stream is the temporary file (`Writing`), and the
index is whole (`Whole`). What it is about to write is the present index but for its
own version, whose commit and checksum are kept if it was listed (`Planned`): so the
rename changes that one entry. `OneCommit` follows a publication from the archive to
the entry.

For the ledger, each action is mapped: the rename of a publish is `Publish`, that of a
yank `Mark`, the lookup of a resolution `Hand`, the end of one `Return`; every other
step of a steady history leaves `Listed` and what is handed alone. That a killed command
leaves no trace but a temporary file is part of that. `IndexAlwaysWhole` does not ask
for a steady history, and uses only who is inside of `atomic_write_text_file` with which
stream.

### RxyBuildProofs

| theorem | property | hypothesis |
|---|---|---|
| `BuildTypeOK` | `TypeOK` | - |
| `SuccessAlwaysRecorded` | `SuccessIsRecorded` | - |
| `PinsAlwaysHold` | `PinsHold` | `OneWriter`: one process builds without `--locked` |
| `PinsAlwaysHoldAlone` | no step replaces a pin while a build has the package for itself | - |
| `LockfileAlwaysWhole` | `FileWhole` of `Rexy.lock` | calm |

`OneWriter` is needed because nothing locks `Rexy.lock` (section 5, 8); any number of
processes may build with `--locked` beside it. `PinsAlwaysHoldAlone` says how much of
it the overlap takes away: whatever rivals did before, a build that none overlaps
replaces no pin. `FileInv` says who is inside of
`atomic_write_text_file`, with which stream. That a calm lockfile is
whole would follow from this and `AtomicFileProofs`, if the provers could use the facts
of an instanced module of theorems; with `tlapm` 1.4.5 these stay opaque to its back
ends, so `RxyBuildProofs` and `RxyRegistryProofs` each carry the short invariant
(`CalmWriter`) again. `AloneInv` is about a
build while it has the package for itself: after its rename the lockfile is what it
resolved, and the targets it has compiled are made from that. `WriterInv` is about the
one writer: until its rename, the pins are still those with which `detect_drift`
compared.

### RxyResolverProofs

| theorem | property | hypothesis |
|---|---|---|
| `HighestIsHighest` | `resolve_highest`, for a list in any order | - |
| `RequirementsMean` | what `matches` accepts is what is documented | `Inside(v)` |
| `ResolutionTypeOK` | `TypeOK` | - |
| `GraphIsClosed` | a finished graph resolves the names it mentions | - |
| `GraphAlwaysWhole` | `GraphIsWhole` | `OnlyRoot` |
| `NearestAlwaysWins` | `NearestWins` | `OnlyRoot` |
| `HighestAlwaysAccepted` | `HighestAccepted` | `OnlyRoot`, `PlainListings` |
| `WalkEnds` | the turns left get fewer with every turn | finitely many names; `AtMost(most)` |

`Inside(v)` excludes the pre-releases right below an upper bound, which the code
accepts (section 5, 17); `PlainListings` says that no registry lists one. `OnlyRoot`
says that the package that is built is not called `std` and that no other tree bears
its name (section 5, 16).

The hard one is `NearestWins`: why is a breadth-first queue with duplicates in it
enough? `GraphInv` is about names: each once, tokens and edges by name, targets kept.
`OrderInv` says that there are two functions, from packages and from queued requests
to positions in the graph: which package a request came from. They never decrease
along either list, those of the queue are not smaller than those of the graph, a
package was resolved for the first position that asks for its name, and what was
asked for at a position is resolved or queued at most that far on. `EdgesInv` says
that `dep_edges` of a package is what its position asks for. The distance from the
root (`Within`, a bounded recursive function) then grows along the graph. Induction
over numbers, where it is needed, is by a minimal counterexample: the well-founded
order of Nat is in the library.

`WalkEnds` is termination without fairness: `TurnsLeft` = the length of the queue plus
`most` for every name without a package is a natural number, and each turn makes it
smaller. `AtMost(most)` says that no manifest asks for more than `most` names, which
some number satisfies as manifests are finite. A second visit of a name queues nothing,
so cycles cost one turn each time they are asked for.

### Model-checked only

* Liveness (`ResolveEnds`, `RunsReturn`, `CallsReturn`, `Halts`): TLAPS has no support
  for ENABLED, hence for fairness, here. The safety halves of the first two, that
  somebody can always go on and that nobody goes round, are theorems (`NoCircularWait`,
  `NeverGoesRound`, `PipesNeverJam`).
* Everything about `rexc`. Its passes walk trees with recursive operators, for which
  `tlapm` has no SMT back end, and what a recursive definition computes for every tree
  needs induction over trees, with an operator as the hypothesis. The processor could
  be reasoned about without the passes, but `RexcMachine` uses Bitwise, which `tlapm`
  cannot load, and its properties (`StackBalanced`, `CallsReturn`) are about the code
  that the passes emit: arbitrary code violates them.


## 5. Where the code and its documents disagree

They were met while modelling, or found by TLC. The models behave as the code does;
where a property would be false because of one, its statement, a history variable or
the instance names the behaviours it is about.

### rxy

1. *The work-tree cache.* `cache.hpp:25` says that each bucket's clone or fetch and
   extraction "runs exclusively". Children of a killed rxy break that: the lock file is
   opened `O_CLOEXEC` (`cache.cpp:64`), so `git` and `tar` do not hold it and write
   without it. A git that was left over may bring back a tag that upstream has moved
   long ago, in the middle of a resolve; `FreshTag` names that case. From a tar
   `remove_all` takes the directory away, so that the next extraction is alone,
   unless the tar creates files while `remove_all` runs; then both write into one
   tree, which may be marked while it is torn. `spoilt` names these trees.

   Three results are dropped (`source.cpp:196`, `:228`, `:230`). When `remove_all`
   fails, the new extraction goes over the old files. When the removal of `.tmp.tar`
   fails, the tarball stays in the marked tree and in its sum. When the marker cannot be
   written (a full disk), the tree is handed out all the same, and the next resolve of
   the same commit removes it under the compiler that reads it, against FR-020 (PRD:176).
   `sealed` names the results that had their marker.
2. *A drift cannot be cleared the way the help says.* `detect_drift` comes before the
   test of `--locked` (`build.cpp:118`), so a plain build stops with the same error
   that tells the user to "run `rxy build` (without --locked) to re-pin".
3. *A child that fills the stderr pipe hangs.* `run` reads stdout to its end before
   it reads stderr (`process.cpp:287`); `build_script.cpp:334` relies on it to
   "capture stdout/stderr".
4. *HEAD and branches are never refreshed.* A bare clone has no fetch refspec, so
   `git fetch --all --tags` (`source.cpp:153`) moves tags only; the comment above it
   (`:151`) says "Make sure refs are fresh". A dependency without tag and revision stays
   at its first commit. `FreshTag` is therefore about tags.
5. *Two writers of one file can mix texts, and a failed flush is not seen*
   (`fs.cpp:50`, `:57`), although `fs.hpp:17` says "atomically". This is what `calm`
   excludes. `RegisterSpec` promises nothing of the file while calls overlap and after
   a lost flush.
6. *A locked registry version is not kept.* `resolve_registry_dep`
   (`source.cpp:269`) takes the highest version that is not yanked, without
   consulting `Rexy.lock`; FR-036 (PRD:198) says that yanked versions stay usable for
   those who locked them. `PinsHold` is about git pins.
7. *`--offline` does not imply `--locked`* (`build.cpp:126`, against PRD:162).
8. *Rival builds.* Two builds that start without a lockfile may resolve to different
   commits; the second overwrites the first's pins (`build.cpp:144`, against
   PRD:163). A `--locked` build compiles its own resolution over the targets of
   another one. `PinsHold` is checked and proved with one writer. `SuccessIsRecorded`
   is about builds that nothing overlaps, and says of them that the lockfile can be
   read and is what the targets were compiled from.
9. *A signal between `posix_spawn` and `slot.set`* (`process.cpp:271`) finds the value
   0, does not count it as a child, and lets `rxy` die while the child runs (`:89`;
   the comment at `:220` says that the guard value covers this).
10. *A signal that comes after the last child was reaped, but before its slot is
    freed, is swallowed* (`process.cpp:91`, `:295`, against the comment at `:81`), and
    it goes to whatever process has the pid by then. A run that finds no slot throws
    with four descriptors open (`:223`).
11. *Rival publishes and yanks lose entries* (`registry.cpp:248`, `:272`, against
    PRD:171 and PRD:198). `steady` excludes overlapping read-modify-writes.
12. *HEAD may move between `git archive` and `git rev-parse`* (`cli.cpp:597` and
    `:662`, against the comment at `:568`): the checksum is then another commit's.
    `steady` excludes it.
13. *A commit that was never pushed can be published* (`cli.cpp:667`, against
    PRD:68): only the presence of a remote is tested.
14. *Build scripts.* Without a watch list a deleted source does not cause a rerun
    (`build_script.cpp:86`, `:270`); an edit between the mutation check and `output`
    is older than `output` (`:360`); a kill between `output` and `invoked.toml` leaves
    a new output with the old environment (`:369`, `:357`); a build of another
    environment that replaces `output` between `needs_rerun` and the reading (`:300`,
    `:303`) gives the first one its own directives; a rerun that fails has
    already changed `OUT_DIR`, which the next cached build still uses (`:298`, `:346`).
    `orderly` excludes the second, the third and the fourth; `CacheIsFresh` leaves
    decisions on missing files out; `OUT_DIR` is not modelled. And the watch list is read
    to the end of `invoked.toml` (`:255`), so that the name and the value of a declared
    variable count as watched files that are missing: with libstdc++, where a missing
    file is newer than every other (`:82`), a script that declares both is never skipped.
15. *`rxy add`* appends its line at the end of `Rexy.toml`, which is under
    `[dependencies]` only if that is the last table (`cli.cpp:815`), and does not
    update `Rexy.lock` (FR-031, PRD:193).
16. *Conflicts and cycles are accepted.* `resolver.hpp:19` says that `resolve_graph`
    "Throws on cycles" and "rejects any conflicting versions", FR-016 (PRD:169) that
    two majors are errors. `in_progress` (`resolver.cpp:28`) is never used, and the
    source of a second request is not compared with the first's (`:50`): the nearest
    request wins without a word, and a package in a cycle with the root is in its
    own resolution. `NearestWins` and `GraphIsWhole` state what is left. Such a second
    package with the root's name (a cycle, or a fork of the root) also overwrites the
    root's entry of `dep_edges` (`resolver.cpp:34`, `:82`), so that the lockfile lists
    its dependencies as the root's: the theorems but `GraphIsClosed` assume `OnlyRoot`.
17. *Pre-releases.* They are compared as text (`semver.cpp:55`), so 1.0.0-10 comes
    before 1.0.0-9, against the comment in `semver.hpp:13` that ordering ignores them;
    and the version at an upper bound has pre-releases below it, so `^1.2.0` accepts
    2.0.0-alpha (`:108`). The index of the run has pre-releases within a bound only,
    and the theorems say so (`Inside`, `PlainListings`).
18. *A requirement `*`* is what `source.cpp:261` and `:328` fall back on, and
    `parse_constraint` refuses it.
19. *Workspace inheritance is applied to the root only.* The walk reads a
    dependency's manifest with `load_manifest` (`resolver.cpp:73`), so a member that
    says `foo.workspace = true` builds by itself (`cli.cpp:193`) but not as a path
    dependency of its sibling ("has no source").

### rexc

20. *`?` is hoisted before its statement* (`lower_ir.cpp:901`, `:1343`): `a && f()?`
    evaluates `f` whatever `a` is (docs/ch04:91), and `while g()? > 0` evaluates it
    once (docs/ch04:131).
21. *`return f()` in a scope with deferred calls* evaluates `f` after them
    (`lower_ir.cpp:1504`).
22. *Accepted, but lowering throws:* a `return` of a local that is declared in an
    `unsafe` block before it (`sema.cpp:1296`, `lower_ir.cpp:1323`); built-in `Ok`,
    `Err` and `Some` (docs/ch12:161); a struct literal with the name of an enum; a
    `let` without initializer of a type that is not scalar (`lower_ir.cpp:449`).
23. *Definite assignment:* a match on integers without a default arm, whose arms all
    leave, counts as leaving (`sema.cpp:939`); `&x` of an unassigned local is
    accepted.
24. *`unsafe`:* docs/ch10:16 has "a specific, named set of operations": dereferencing a
    pointer, indexing through one, pointer arithmetic, reading or writing a `static mut`
    and calling an `unsafe fn`; "Outside an `unsafe` context, those operations are
    diagnostics" (`:25`). The code asks for a block around the first only, and around
    calls of extern functions, as the comment at `include/rexc/sema.hpp:27` says. The
    other four are accepted in safe code, and the themes of `RexcFrontEnd` hold programs
    that do so. `DereferencesAreMarked` states the rule of `sema.hpp`; that of the
    chapter would be violated.
25. *`-1 < x` as a condition is refused:* the expected type bool reaches the operand
    of the minus.
26. *Layouts:* analysis aligns a nested struct at its size (`sema.cpp:2524`), lowering
    at its alignment (`lower_ir.cpp:234`), although the comment at `lower_ir.cpp:350`
    says that the layers agree; a field of an enum type has four bytes, one of a
    struct that is declared later none (`lower_ir.cpp:310`); an instance of a template
    that is declared after the struct that uses it has no fields (`sema.cpp:384`).
27. *Templates:* `mangle_generic_suffix` is not injective (`types.cpp:898`: nested
    tuples), nor is the joining of module paths with "_"; fields of an instance are
    compared by the names of the template's own variables (`sema.cpp:858`, `:1641`),
    so that `Pair<B, A>` inside `Pair<A, B>` is accepted with its types swapped.
28. *x86_64:* a result of two chunks loses the second (`codegen_x86.cpp:605`, `:1087`,
    docs/ch08:51); chunks of aggregates lie at descending addresses; nested
    aggregates and assignments of an aggregate to itself lose data; arithmetic on
    narrow types does not wrap; a static scalar is loaded without its sign; the
    stack is not aligned at nested calls.
29. *i386:* parameters of four chunks are not passed; a call with a result of two
    chunks, as an argument, is read before it is made.
30. *arm64:* an assignment of an aggregate stores its first chunk; a cast of a
    negative number to i8 or i16 leaves the upper half zero; results above 16 bytes
    are refused; `return f()` loses the second chunk. On arm64 and x86_64 a result of
    `extern` type i32 is compared and converted in its whole register, without being
    extended after the call, although the C calling conventions leave the upper half
    open (`codegen_x86.cpp:855`). Functions that `rexc` compiled, the standard library
    among them, do extend it; with an `extern` function of another compiler that does
    not, `get() < 1` may come out wrong. `RexcMachine` has functions of the first kind.
31. *A broken index is not healed* (`registry.cpp:319`, against `registry.hpp:67`).
    Only conflict markers in `config.toml` are looked for, which
    `git pull --ff-only` never leaves. Half a clone, a lock that a killed git left and
    a file that `rxy publish` wrote into the clone and upstream changed make every
    later refresh throw.
32. *Two processes at a new index:* the second deletes what the first has cloned
    (`registry.cpp:334`), which then looks up a package in an empty directory, or its
    `ensure_dir` (`:70`) makes the first's clone fail. A publish into a directory that
    is not cloned yet, or into one that is healed, is deleted.
33. *An or-pattern* binds the names of its first alternative only; a function that
    falls off its end returns what is in the register.


## 6. What is not modelled

* The default configuration file of a registry. The index in `RxyBuild` is a copy that
  is refreshed or not; `RxyIndex` says when it is.
* Workspaces beyond the inheritance of dependencies: profiles and metadata merge
  key by key; members are directories that exist; the build of every member is a
  loop with two counters.
* Manifest parsing, SHA-256, flag parsing, `new`, `init`, `clean`, `search`, `tree`,
  `metadata`, `vendor`, diagnostics: pure functions of their input or straight-line
  I/O, without state that a later step relies on.
* `OUT_DIR`, profiles, search paths, environment variables passed to children.
* Equal modification times: `newer` assumes that the clock tells two writes apart.
* Power loss in the file system (`rename` without `fsync`): the program makes no
  claim about it, and the model's kill is that of a process.
* Dependencies below the first level in `RxyBuild`: they are the subject of
  `RxyResolver`, and the lockfile treats all levels alike.
* The parser of `rexc`: a grammar. Its module loader, and the driver with its
  temporary files `<output>.s.tmp` and `<output>.o.tmp` (`main.cpp:566`), which two
  compilations of one output share.
* `char`, owned strings, slices, vectors and `Option` of the language, and the tables
  of standard-library functions in `sema.cpp`: what they need of the passes (calls
  with several chunks, instances, layouts) is met through structs, tuples, results
  and extern functions. Template arguments are one level deep. A static array is
  initialized with numbers or texts.
* The text of the assembly, sections, directives and target triples.
* The standard library (`alloc.rx`: the arena and vector growth at their limits) and
  the runtimes, which are assembly text; the runs have their extern functions in
  `RexcMachine`.


## 7. The plan

Done: the modules of `rxy`, with proofs of all their safety and action properties and
of three refinements (`AtomicRegister`, `ContentStore`, `PackageLedger`); the passes of `rexc` from the checked tree to the processor,
model-checked.

Open for proofs: liveness and `rexc`, for the reasons in section 4. A processor
without Bitwise and passes written as recursive functions would make the second a
question of induction over trees only.

Next, modelling: the arena of `alloc.rx`, the module loader's walk, workspaces.
