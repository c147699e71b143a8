-------------------------- MODULE RxyRegistryProofs --------------------------
(***************************************************************************)
(* Proofs about RxyRegistry, for any number of processes, versions, commits *)
(* and inodes.  As long as the history is steady, one command at a time     *)
(* rewrites the index (OneSave), what it is about to write differs from the *)
(* file in its own version only (Planned), and it reaches the file whole    *)
(* (Writing); a command knows one commit only (OneCommit).  From these      *)
(* follows that the index implements PackageLedger.  That readers find a    *)
(* whole document needs less: that no two commands write at once (calm).    *)
(***************************************************************************)
EXTENDS RxyRegistry, TLAPS

Updating == {"publish", "yank", "unyank"}

\* What a process has found at each control point.
Bound ==
    \A p \in Procs :
        /\ pc[p] # "idle" => job[p] \in Commands
        /\ pc[p] \in {"archive", "revparse"} => job[p] = "publish"
        /\ pc[p] = "save" => job[p] \in Updating
        /\ pc[p] # "idle" /\ job[p] \in Updating => version[p] \in Versions /\ p \in Writers
        /\ pc[p] = "revparse" => checksum[p] \in Commits
        /\ pc[p] = "lookup" /\ job[p] = "publish" => checksum[p] \in Commits /\ commit[p] \in Commits

\* Who is in atomic_write_text_file, and holds a stream there.
UsesFile ==
    \A p \in Procs : /\ at[p] # "out" => pc[p] = "save"
                     /\ stream[p] # NoInode => at[p] = "write"

\* The index and its temporary file are never the same inode.
Apart == name # NoInode => name # tmp

\* An inode without a name and a reader has no content.
NoStrays == \A i \in Inodes : i \notin File!InUse => data[i] = Empty

OneSave == steady => \A p, q \in Procs : pc[p] = "save" /\ pc[q] = "save" => p = q

\* What the one writer has opened or written.
Writing ==
    steady => \A p \in Procs :
        /\ at[p] = "write" => stream[p] = tmp /\ tmp # NoInode /\ data[tmp] = Empty
        /\ at[p] = "rename" => tmp # NoInode /\ data[tmp] = info[p]

\* The index is never seen truncated or mixed.
Whole == steady => File!Read \in Contents \cup {Absent}

\* What a command is about to write is the present index, with its own version
\* added, or marked.
Planned ==
    steady => \A p \in Procs : pc[p] = "save" =>
        /\ \A v \in Versions : v # version[p] => info[p][v] = Listed[v]
        /\ info[p][version[p]] # NoEntry
        /\ info[p][version[p]].checksum = info[p][version[p]].commit
        /\ info[p][version[p]].yanked = (job[p] = "yank")
        /\ (job[p] = "publish") <=> (Listed[version[p]] = NoEntry)
        /\ Listed[version[p]] # NoEntry =>
             \A f \in {"commit", "checksum"} : info[p][version[p]][f] = Listed[version[p]][f]

\* A publication archives and records the same commit.
OneCommit ==
    steady => \A p \in Procs :
        /\ pc[p] = "revparse" => checksum[p] = head
        /\ pc[p] = "lookup" /\ job[p] = "publish" => commit[p] = checksum[p]

Steady == OneSave /\ Writing /\ Whole /\ Planned /\ OneCommit
IInv   == TypeOK /\ Bound /\ UsesFile /\ Apart /\ NoStrays /\ Steady /\ YanksHold /\ ChecksumMatches
-----------------------------------------------------------------------------
\* What a command can find in the index file.
LEMMA ReadCases ==
    TypeOK => /\ File!Read \in Contents \cup {Absent, Empty, Garbled}
              /\ File!Read # Garbled => Listed \in Contents
  BY DEF TypeOK, File!TypeOK, File!Text, File!Named, File!Read, Listed, Contents, NoneYet

\* A published version is one that is listed, and the other way round.
LEMMA PublishedIsListed ==
    ASSUME TypeOK, File!Read # Garbled, NEW v \in Versions
    PROVE  /\ Published(v) <=> Listed[v] # NoEntry
           /\ Published(v) => Listed = File!Read
  BY TextAssumption DEF Published, Listed, NoneYet

\* What marking an entry changes, and what it does not.
LEMMA Marked ==
    ASSUME NEW e \in Entry, NEW b \in BOOLEAN
    PROVE  LET m == [e EXCEPT !.yanked = b]
           IN  /\ m \in Entry /\ m.yanked = b
               /\ m.commit = e.commit /\ m.checksum = e.checksum
  BY DEF Entry

\* The document an accepted command makes, version by version.
LEMMA UpdatedDocument ==
    ASSUME TypeOK, Bound, NEW p \in Procs, pc[p] = "lookup", job[p] # "resolve",
           File!Read # Garbled, Accepts(p)
    PROVE  /\ Updated(p) \in Contents /\ version[p] \in Versions
           /\ \A v \in Versions : v # version[p] => Updated(p)[v] = Listed[v]
           /\ Updated(p)[version[p]] \in Entry
           /\ Updated(p)[version[p]].yanked = (job[p] = "yank")
           /\ job[p] = "publish" =>
                /\ Listed[version[p]] = NoEntry
                /\ Updated(p)[version[p]].commit = commit[p]
                /\ Updated(p)[version[p]].checksum = checksum[p]
           /\ job[p] # "publish" =>
                /\ Listed[version[p]] # NoEntry
                /\ Updated(p)[version[p]].commit = Listed[version[p]].commit
                /\ Updated(p)[version[p]].checksum = Listed[version[p]].checksum
  <1>1. job[p] \in Updating /\ version[p] \in Versions /\ Listed \in Contents
    BY ReadCases DEF Bound, Commands, Updating
  <1>2. CASE job[p] = "publish"
    <2>1. commit[p] \in Commits /\ checksum[p] \in Commits /\ Listed[version[p]] = NoEntry
      BY <1>2 DEF Bound, Accepts
    <2> DEFINE e == [commit |-> commit[p], checksum |-> checksum[p], yanked |-> FALSE]
    <2>2. e \in Entry /\ e.yanked = FALSE /\ e.commit = commit[p] /\ e.checksum = checksum[p]
      BY <2>1 DEF Entry
    <2>3. Updated(p) = [Listed EXCEPT ![version[p]] = e]
      BY <1>2, Zenon DEF Updated
    <2> HIDE DEF e
    <2>. QED
      BY <1>1, <1>2, <2>1, <2>2, <2>3 DEF Contents
  <1>3. CASE job[p] # "publish"
    <2>1. Listed[version[p]] # NoEntry
      BY <1>1, <1>3 DEF Accepts, Updating
    <2>2. Listed[version[p]] \in Entry
      BY <1>1, <2>1 DEF Contents
    <2> DEFINE b == job[p] = "yank"
    <2> DEFINE e == [Listed[version[p]] EXCEPT !.yanked = b]
    <2>3. b \in BOOLEAN
      OBVIOUS
    <2>4. /\ e \in Entry /\ e.yanked = b
          /\ e.commit = Listed[version[p]].commit /\ e.checksum = Listed[version[p]].checksum
      BY <2>2, <2>3, Marked
    <2>5. Updated(p) = [Listed EXCEPT ![version[p]] = e]
      BY <1>3 DEF Updated
    <2> HIDE DEF e
    <2>. QED
      BY <1>1, <1>3, <2>1, <2>4, <2>5 DEF Contents
  <1>. QED
    BY <1>2, <1>3
-----------------------------------------------------------------------------
\* std::ofstream(tmp, trunc) touches another inode than the index's.
LEMMA Opens ==
    ASSUME File!TypeOK, Apart, NEW p \in Procs, File!Open(p)
    PROVE  /\ File!TypeOK' /\ Apart' /\ File!Read' = File!Read
           /\ at[p] = "out" /\ at' = [at EXCEPT ![p] = "write"]
           /\ stream' = [stream EXCEPT ![p] = tmp'] /\ tmp' \in Inodes /\ data'[tmp'] = Empty
  <1> USE InodeAssumption DEF File!TypeOK, File!Named, File!Text, Apart
  <1>1. PICK i \in Inodes : /\ IF tmp = NoInode THEN i \notin File!InUse ELSE i = tmp
                            /\ tmp' = i /\ data' = [data EXCEPT ![i] = Empty]
                            /\ stream' = [stream EXCEPT ![p] = i]
    BY DEF File!Open
  <1>2. /\ at[p] = "out" /\ at' = [at EXCEPT ![p] = "write"] /\ name' = name
    BY DEF File!Open
  <1>3. calm' \in BOOLEAN
    BY Zenon DEF File!Open
  <1>4. i # name
    BY <1>1 DEF File!InUse
  <1>. QED
    BY <1>1, <1>2, <1>3, <1>4 DEF File!Read

\* out.write leaves the index alone; over a file just truncated it puts the text.
LEMMA Writes ==
    ASSUME File!TypeOK, Apart, NEW p \in Procs, NEW text \in Contents, File!Write(p, text)
    PROVE  /\ File!TypeOK' /\ Apart'
           /\ at[p] = "write" /\ at' = [at EXCEPT ![p] = "rename"]
           /\ stream' = [stream EXCEPT ![p] = NoInode] /\ tmp' = tmp
           /\ stream[p] = tmp /\ tmp # NoInode /\ data[tmp] = Empty =>
                 File!Read' = File!Read /\ data'[tmp] = text
  <1> USE InodeAssumption DEF File!TypeOK, File!Named, File!Text, Apart
  <1>1. /\ at[p] = "write" /\ at' = [at EXCEPT ![p] = "rename"]
        /\ stream' = [stream EXCEPT ![p] = NoInode] /\ tmp' = tmp /\ name' = name /\ calm' = calm
    BY DEF File!Write
  <1>2. PICK t \in File!Overlay(data[stream[p]], text) :
              data' = File!Kept([data EXCEPT ![stream[p]] = t])
    BY DEF File!Write
  <1>3. data' \in [Inodes -> File!Text]
    BY <1>2 DEF File!Overlay, File!Kept
  <1>4. ASSUME stream[p] = tmp, tmp # NoInode, data[tmp] = Empty
        PROVE  File!Read' = File!Read /\ data'[tmp] = text
    <2>1. t = text
      BY <1>2, <1>4 DEF File!Overlay
    <2>2. tmp \in Inodes /\ tmp \in File!InUse' /\ name' \in File!InUse'
      BY <1>1, <1>4 DEF File!InUse
    <2>. QED
      BY <1>1, <1>2, <1>4, <2>1, <2>2 DEF File!Kept, File!Read
  <1>. QED
    BY <1>1, <1>3, <1>4

\* fs::rename puts what <path>.tmp has under the index's name.
LEMMA Renames ==
    ASSUME File!TypeOK, NEW p \in Procs, File!Rename(p)
    PROVE  /\ File!TypeOK' /\ Apart'
           /\ at[p] = "rename" /\ at' = [at EXCEPT ![p] = "out"] /\ stream' = stream
           /\ tmp \in Inodes /\ File!Read' = data[tmp]
  <1> USE InodeAssumption DEF File!TypeOK, File!Named, File!Text, Apart
  <1>1. /\ at[p] = "rename" /\ at' = [at EXCEPT ![p] = "out"] /\ stream' = stream
        /\ tmp \in Inodes /\ name' = tmp /\ tmp' = NoInode /\ calm' = calm
        /\ data' = File!Kept(data)
    BY DEF File!Rename
  <1>2. tmp \in File!InUse'
    BY <1>1 DEF File!InUse
  <1>. QED
    BY <1>1, <1>2 DEF File!Kept, File!Read

\* A command that ends early, or is killed, leaves index and <path>.tmp as they are.
LEMMA Abandons ==
    ASSUME File!TypeOK, Apart, NEW p \in Procs, File!Abandon(p)
    PROVE  /\ File!TypeOK' /\ Apart' /\ File!Read' = File!Read
           /\ at' = [at EXCEPT ![p] = "out"] /\ stream' = [stream EXCEPT ![p] = NoInode]
           /\ tmp' = tmp /\ (tmp # NoInode => data'[tmp] = data[tmp])
  <1> USE InodeAssumption DEF File!TypeOK, File!Named, File!Text, Apart
  <1>1. /\ at' = [at EXCEPT ![p] = "out"] /\ stream' = [stream EXCEPT ![p] = NoInode]
        /\ name' = name /\ tmp' = tmp /\ calm' = calm /\ data' = File!Kept(data)
    BY DEF File!Abandon
  <1>2. name' \in File!InUse' /\ tmp' \in File!InUse'
    BY <1>1 DEF File!InUse
  <1>. QED
    BY <1>1, <1>2 DEF File!Kept, File!Read
-----------------------------------------------------------------------------
\* The processes' own variables, and those of the history.
ProcTypes ==
    /\ pc \in [Procs -> {"idle", "archive", "revparse", "lookup", "save", "fetch"}]
    /\ job \in [Procs -> Commands \cup {"none"}]
    /\ version \in [Procs -> Versions \cup {0}]
    /\ checksum \in [Procs -> Commits \cup {NoCommit}]
    /\ commit \in [Procs -> Commits \cup {NoCommit}]
    /\ info \in [Procs -> Contents]

Histories == head \in Commits /\ wanted \in [Versions -> BOOLEAN] /\ steady \in BOOLEAN

\* TypeOK in three parts.
LEMMA TypeParts == TypeOK <=> File!TypeOK /\ ProcTypes /\ Histories
  BY Zenon DEF TypeOK, ProcTypes, Histories

\* A step of one command leaves what the others know.
Untouched(q) ==
    /\ pc'[q] = pc[q] /\ job'[q] = job[q] /\ version'[q] = version[q]
    /\ checksum'[q] = checksum[q] /\ commit'[q] = commit[q] /\ info'[q] = info[q]
    /\ at'[q] = at[q] /\ stream'[q] = stream[q]

\* Ending a command clears its memory.
LEMMA Finishes ==
    ASSUME ProcTypes, NEW p \in Procs, Finish(p)
    PROVE  ProcTypes' /\ pc'[p] = "idle" /\ pc' = [pc EXCEPT ![p] = "idle"]
  <1>1. NoneYet \in Contents
    BY DEF NoneYet, Contents
  <1>. QED
    BY <1>1 DEF Finish, Goto, ProcTypes

\* Whatever step one command takes, the others know and hold what they did.
LEMMA OthersUntouched ==
    ASSUME TypeOK, NEW p \in Procs, Start(p) \/ Step(p) \/ Crash(p),
           NEW q \in Procs, q # p
    PROVE  Untouched(q)
  <1> USE DEF TypeOK, File!TypeOK, Untouched, Goto, Finish, Keep, fileVars, procVars
  <1>1. CASE Start(p)
    BY <1>1 DEF Start
  <1>2. CASE Archive(p) \/ RevParse(p) \/ Fetch(p)
    BY <1>2 DEF Archive, RevParse, Fetch
  <1>3. CASE Lookup(p)
    BY <1>3 DEF Lookup
  <1>4. CASE Save(p)
    BY <1>4 DEF Save, File!Open, File!Write, File!Rename, File!RenameFails, File!Abandon
  <1>5. CASE Crash(p)
    BY <1>5 DEF Crash, File!Abandon
  <1>. QED
    BY <1>1, <1>2, <1>3, <1>4, <1>5 DEF Step

\* A command's memory keeps its type.
LEMMA StepProcTypes ==
    ASSUME TypeOK, Bound, NEW p \in Procs, Start(p) \/ Step(p) \/ Crash(p)
    PROVE  ProcTypes'
  <1> USE TypeParts DEF ProcTypes, Goto
  <1>1. CASE Start(p)
    BY <1>1 DEF Start, Commands
  <1>2. CASE Archive(p) \/ RevParse(p) \/ Fetch(p)
    <2>1. CASE Finish(p)
      BY <2>1, Finishes
    <2>2. CASE ~ Finish(p)
      BY <1>2, <2>2 DEF Archive, RevParse, Fetch, Histories
    <2>. QED
      BY <2>1, <2>2
  <1>3. CASE Lookup(p)
    <2>1. CASE Finish(p)
      BY <2>1, Finishes
    <2>2. CASE job[p] = "resolve" /\ ~ Finish(p)
      <3>1. /\ File!Read # Garbled /\ Accepts(p) /\ Goto(p, "fetch")
            /\ info' = [info EXCEPT ![p] = Listed]
            /\ UNCHANGED <<checksum, commit, job>>
        BY <1>3, <2>2 DEF Lookup
      <3>2. \E v \in Versions : version' = [version EXCEPT ![p] = v]
        BY <1>3, <2>2 DEF Lookup, Highest, Candidates
      <3>3. Listed \in Contents
        BY <3>1, ReadCases
      <3>. QED
        BY <3>1, <3>2, <3>3
    <2>3. CASE job[p] # "resolve" /\ ~ Finish(p)
      <3>1. /\ pc[p] = "lookup" /\ File!Read # Garbled /\ Accepts(p) /\ Goto(p, "save")
            /\ info' = [info EXCEPT ![p] = Updated(p)]
            /\ checksum' = [checksum EXCEPT ![p] = NoCommit]
            /\ commit' = [commit EXCEPT ![p] = NoCommit]
            /\ UNCHANGED <<version, job>>
        BY <1>3, <2>3 DEF Lookup
      <3>2. Updated(p) \in Contents
        BY <2>3, <3>1, UpdatedDocument
      <3>. QED
        BY <3>1, <3>2
    <2>. QED
      BY <2>1, <2>2, <2>3
  <1>4. CASE Save(p)
    <2>1. CASE Finish(p)
      BY <2>1, Finishes
    <2>2. CASE ~ Finish(p)
      BY <1>4, <2>2 DEF Save, procVars
    <2>. QED
      BY <2>1, <2>2
  <1>5. CASE Crash(p)
    BY <1>5, Finishes DEF Crash
  <1>. QED
    BY <1>1, <1>2, <1>3, <1>4, <1>5 DEF Step

\* The histories keep their type, what was not steady stays so, and no command of
\* rxy moves HEAD.
LEMMA StepHistories ==
    ASSUME TypeOK, NEW p \in Procs, Start(p) \/ Step(p) \/ Crash(p)
    PROVE  Histories' /\ (steady' => steady) /\ head' = head
  <1> USE TypeParts DEF Histories
  <1>1. CASE Start(p) \/ Archive(p) \/ RevParse(p) \/ Fetch(p)
    <2>1. head' = head /\ wanted' = wanted /\ steady' = steady
      BY <1>1 DEF Start, Archive, RevParse, Fetch, Keep
    <2>. QED
      BY <2>1, Zenon
  <1>3. CASE Lookup(p)
    <2>1. head' = head /\ wanted' = wanted
      BY <1>3 DEF Lookup
    <2>2. steady' = steady \/ steady' = (steady /\ \A q \in Procs : pc[q] # "save")
      <3>1. UNCHANGED <<checksum, commit, steady>> => steady' = steady
        OBVIOUS
      <3>. QED
        BY <1>3, <3>1, Zenon DEF Lookup
    <2>3. steady' \in BOOLEAN /\ (steady' => steady)
      <3>1. CASE steady' = steady
        BY <3>1, Zenon
      <3>2. CASE steady' = (steady /\ \A q \in Procs : pc[q] # "save")
        BY <3>2, Zenon
      <3>. QED
        BY <2>2, <3>1, <3>2, Zenon
    <2>. QED
      BY <2>1, <2>3, Zenon
  <1>4. CASE Save(p)
    <2>1. head' = head /\ steady' = steady
      BY <1>4 DEF Save
    <2>2. wanted' = wanted \/ wanted' = [wanted EXCEPT ![version[p]] = (job[p] = "yank")]
      <3>1. UNCHANGED <<procVars, wanted>> => wanted' = wanted
        OBVIOUS
      <3>. QED
        BY <1>4, <3>1, Zenon DEF Save
    <2>3. wanted' \in [Versions -> BOOLEAN]
      BY <2>2
    <2>. QED
      BY <2>1, <2>3, Zenon
  <1>5. CASE Crash(p)
    <2>1. head' = head /\ wanted' = wanted /\ steady' = steady
      BY <1>5 DEF Crash
    <2>. QED
      BY <2>1, Zenon
  <1>. QED
    BY <1>1, <1>3, <1>4, <1>5 DEF Step

\* Only who is in atomic_write_text_file uses the file, and <path>.tmp is never
\* the index.
LEMMA StepFile ==
    ASSUME TypeOK, Apart, UsesFile, NEW p \in Procs, Start(p) \/ Step(p) \/ Crash(p)
    PROVE  File!TypeOK' /\ Apart' /\ UsesFile'
  <1>0. File!TypeOK /\ ProcTypes
    BY TypeParts
  <1>o. \A q \in Procs : q # p => Untouched(q)
    BY OthersUntouched
  <1>1. CASE pc[p] # "save" /\ UNCHANGED fileVars
    <2>1. File!TypeOK' /\ Apart'
      BY <1>0, <1>1 DEF fileVars, File!TypeOK, Apart
    <2>2. at[p] = "out" /\ stream[p] = NoInode
      BY <1>1, InodeAssumption DEF UsesFile
    <2>. QED
      BY <1>0, <1>o, <1>1, <2>1, <2>2 DEF fileVars, UsesFile, Untouched
  <1>2. CASE Save(p)
    <2>0. pc[p] = "save"
      BY <1>2 DEF Save
    <2>1. CASE File!Open(p) /\ UNCHANGED procVars
      BY <1>0, <1>o, <2>0, <2>1, Opens DEF UsesFile, Untouched, File!TypeOK, procVars
    <2>2. CASE File!Write(p, info[p]) /\ UNCHANGED procVars
      <3>1. info[p] \in Contents
        BY <1>0 DEF ProcTypes
      <3>. QED
        BY <1>0, <1>o, <2>0, <2>2, <3>1, Writes DEF UsesFile, Untouched, File!TypeOK, procVars
    <2>3. CASE File!Rename(p)
      <3>1. stream[p] = NoInode
        BY <2>3, Renames, <1>0 DEF UsesFile
      <3>. QED
        BY <1>0, <1>o, <2>0, <2>3, <3>1, Renames DEF UsesFile, Untouched, File!TypeOK
    <2>4. CASE File!RenameFails(p)
      <3>1. File!Abandon(p)
        BY <2>4 DEF File!RenameFails
      <3>. QED
        BY <1>0, <1>o, <2>0, <3>1, Abandons DEF UsesFile, Untouched, File!TypeOK
    <2>. QED
      BY <1>2, <2>1, <2>2, <2>3, <2>4, Zenon DEF Save
  <1>3. CASE Crash(p)
    <2>1. File!Abandon(p)
      BY <1>3 DEF Crash
    <2>. QED
      BY <1>0, <1>o, <2>1, Abandons DEF UsesFile, Untouched, File!TypeOK
  <1>4. CASE ~ Save(p) /\ ~ Crash(p)
    <2>1. pc[p] # "save" /\ UNCHANGED fileVars
      BY <1>4 DEF Step, Start, Archive, RevParse, Lookup, Fetch, Keep
    <2>. QED
      BY <1>1, <2>1
  <1>. QED
    BY <1>2, <1>3, <1>4

\* What a step of a command does to the index file and its temporary one.
LEMMA FileSteps ==
    ASSUME NEW p \in Procs, Start(p) \/ Step(p) \/ Crash(p)
    PROVE  \/ pc[p] # "save" /\ UNCHANGED fileVars
           \/ pc[p] = "save" /\ (File!Open(p) \/ File!Write(p, info[p]) \/ File!Rename(p))
           \/ pc[p] = "save" /\ File!RenameFails(p) /\ File!Abandon(p)
           \/ Crash(p) /\ File!Abandon(p)
  <1>1. CASE Start(p) \/ Archive(p) \/ RevParse(p) \/ Lookup(p) \/ Fetch(p)
    BY <1>1 DEF Start, Archive, RevParse, Lookup, Fetch, Keep
  <1>2. CASE Save(p)
    BY <1>2 DEF Save, File!RenameFails
  <1>3. CASE Crash(p)
    BY <1>3 DEF Crash
  <1>. QED
    BY <1>1, <1>2, <1>3 DEF Step

\* An inode that loses its last name or stream loses its content.
LEMMA StepStrays ==
    ASSUME TypeOK, UsesFile, NoStrays, NEW p \in Procs, Start(p) \/ Step(p) \/ Crash(p)
    PROVE  NoStrays'
  <1>1. CASE UNCHANGED fileVars
    BY <1>1 DEF fileVars, NoStrays, File!InUse
  <1>2. CASE File!Open(p)
    <2>1. PICK i \in Inodes : /\ data' = [data EXCEPT ![i] = Empty] /\ name' = name
                              /\ tmp' = i /\ stream' = [stream EXCEPT ![p] = i]
                              /\ tmp # NoInode => i = tmp
      BY <1>2 DEF File!Open
    <2>2. stream[p] = NoInode
      BY <1>2 DEF File!Open, UsesFile
    <2>3. ASSUME NEW j \in Inodes, j # i, j \in File!InUse PROVE j \in File!InUse'
      BY <2>1, <2>2, <2>3, InodeAssumption DEF File!InUse, TypeOK, File!TypeOK
    <2>. QED
      BY <2>1, <2>3 DEF NoStrays, TypeOK, File!TypeOK
  <1>3. CASE \E d : data' = File!Kept(d)
    BY <1>3 DEF File!Kept, NoStrays
  <1>. QED
    BY <1>1, <1>2, <1>3, FileSteps DEF File!Write, File!Rename, File!Abandon
-----------------------------------------------------------------------------
\* A command goes on with what its control point needs.
LEMMA StepBound ==
    ASSUME TypeOK, Bound, NEW p \in Procs, Start(p) \/ Step(p) \/ Crash(p)
    PROVE  Bound'
  <1>0. ProcTypes /\ Histories
    BY TypeParts
  <1>o. \A q \in Procs : q # p => Untouched(q)
    BY OthersUntouched
  <1> DEFINE Here ==
        /\ pc'[p] # "idle" => job'[p] \in Commands
        /\ pc'[p] \in {"archive", "revparse"} => job'[p] = "publish"
        /\ pc'[p] = "save" => job'[p] \in Updating
        /\ pc'[p] # "idle" /\ job'[p] \in Updating => version'[p] \in Versions /\ p \in Writers
        /\ pc'[p] = "revparse" => checksum'[p] \in Commits
        /\ pc'[p] = "lookup" /\ job'[p] = "publish" => checksum'[p] \in Commits /\ commit'[p] \in Commits
  <1>1. Here
    <2>1. CASE Finish(p)
      BY <1>0, <2>1, Finishes
    <2>2. CASE Start(p)
      BY <1>0, <2>2 DEF Start, Goto, ProcTypes, Commands, Updating
    <2>3. CASE (Archive(p) \/ RevParse(p)) /\ ~ Finish(p)
      BY <1>0, <2>3 DEF Archive, RevParse, Goto, ProcTypes, Histories, Bound
    <2>4. CASE Lookup(p) /\ ~ Finish(p)
      BY <1>0, <2>4 DEF Lookup, Goto, ProcTypes, Bound, Commands, Updating
    <2>5. CASE Save(p) /\ ~ Finish(p)
      BY <1>0, <2>5 DEF Save, procVars, Bound
    <2>6. CASE Fetch(p) \/ Crash(p)
      BY <2>1, <2>6 DEF Fetch, Crash
    <2>. QED
      BY <2>1, <2>2, <2>3, <2>4, <2>5, <2>6 DEF Step
  <1> HIDE DEF Here
  <1>2. \A q \in Procs : q # p => Untouched(q)
    BY <1>o
  <1>. QED
    BY <1>1, <1>2 DEF Here, Bound, Untouched

\* The index changes in one step only: a command renames its whole document into
\* place, and reports success.
LEMMA IndexMoves ==
    ASSUME TypeOK, Apart, UsesFile, Writing, steady,
           NEW p \in Procs, Start(p) \/ Step(p) \/ Crash(p)
    PROVE  \/ File!Read' = File!Read /\ wanted' = wanted
           \/ /\ pc[p] = "save" /\ Finish(p) /\ File!Read' = info[p]
              /\ wanted' = [wanted EXCEPT ![version[p]] = (job[p] = "yank")]
  <1>0. File!TypeOK /\ ProcTypes
    BY TypeParts
  <1>1. CASE Save(p)
    <2>1. CASE File!Open(p) /\ UNCHANGED <<procVars, wanted>>
      BY <1>0, <2>1, Opens
    <2>2. CASE File!Write(p, info[p]) /\ UNCHANGED <<procVars, wanted>>
      <3>1. info[p] \in Contents /\ at[p] = "write"
        BY <1>0, <2>2 DEF ProcTypes, File!Write
      <3>2. stream[p] = tmp /\ tmp # NoInode /\ data[tmp] = Empty
        BY <3>1 DEF Writing
      <3>. QED
        BY <1>0, <2>2, <3>1, <3>2, Writes
    <2>3. CASE /\ File!Rename(p) /\ Finish(p)
               /\ wanted' = [wanted EXCEPT ![version[p]] = (job[p] = "yank")]
      <3>1. at[p] = "rename" /\ File!Read' = data[tmp]
        BY <1>0, <2>3, Renames
      <3>2. data[tmp] = info[p]
        BY <3>1 DEF Writing
      <3>3. pc[p] = "save"
        BY <1>1 DEF Save
      <3>. QED
        BY <2>3, <3>1, <3>2, <3>3
    <2>4. CASE File!RenameFails(p) /\ UNCHANGED wanted
      <3>1. File!Abandon(p) /\ wanted' = wanted
        BY <2>4 DEF File!RenameFails
      <3>. QED
        BY <1>0, <3>1, Abandons
    <2>. QED
      BY <1>1, <2>1, <2>2, <2>3, <2>4, Zenon DEF Save
  <1>2. CASE Crash(p)
    <2>1. File!Abandon(p) /\ wanted' = wanted
      BY <1>2 DEF Crash
    <2>. QED
      BY <1>0, <2>1, Abandons
  <1>3. CASE ~ Save(p) /\ ~ Crash(p)
    <2>1. UNCHANGED fileVars /\ wanted' = wanted
      BY <1>3 DEF Step, Start, Archive, RevParse, Lookup, Fetch, Keep
    <2>. QED
      BY <2>1 DEF fileVars, File!Read
  <1>. QED
    BY <1>1, <1>2, <1>3

\* As long as the index stays, so does what it lists.
LEMMA ReadKept ==
    File!Read' = File!Read => Listed' = Listed /\ \A v \in Versions : Published(v)' <=> Published(v)
  BY DEF Listed, Published

\* A command that is at its save is the one that was, or has just looked the
\* index up.
LEMMA AtItsSave ==
    ASSUME TypeOK, NEW p \in Procs, Start(p) \/ Step(p) \/ Crash(p), pc'[p] = "save"
    PROVE  \/ /\ pc[p] = "save" /\ UNCHANGED procVars /\ Save(p) /\ steady' = steady
           \/ /\ pc[p] = "lookup" /\ File!Read # Garbled /\ Accepts(p) /\ job[p] # "resolve"
              /\ info' = [info EXCEPT ![p] = Updated(p)] /\ job' = job /\ version' = version
              /\ UNCHANGED fileVars /\ (steady' => \A q \in Procs : pc[q] # "save")
  <1>0. ProcTypes
    BY TypeParts
  <1>1. ~ Finish(p)
    BY <1>0, Finishes
  <1>2. CASE Save(p)
    BY <1>1, <1>2 DEF Save
  <1>3. CASE Lookup(p)
    <2>1. /\ pc[p] = "lookup" /\ File!Read # Garbled /\ Accepts(p)
          /\ job' = job /\ UNCHANGED fileVars
      BY <1>1, <1>3 DEF Lookup
    <2>2. job[p] # "resolve"
      BY <1>0, <1>1, <1>3 DEF Lookup, Goto, ProcTypes
    <2>3. info' = [info EXCEPT ![p] = Updated(p)] /\ version' = version
      BY <1>1, <1>3, <2>2 DEF Lookup
    <2>4. steady' = (steady /\ \A q \in Procs : pc[q] # "save")
      BY <1>1, <1>3, <2>2, Zenon DEF Lookup
    <2>5. steady' => \A q \in Procs : pc[q] # "save"
      BY <2>4, Zenon
    <2>. QED
      BY <2>1, <2>2, <2>3, <2>5
  <1>4. CASE Start(p) \/ Archive(p) \/ RevParse(p) \/ Fetch(p) \/ Crash(p)
    BY <1>0, <1>1, <1>4 DEF Start, Archive, RevParse, Fetch, Crash, Goto, ProcTypes
  <1>. QED
    BY <1>2, <1>3, <1>4 DEF Step
-----------------------------------------------------------------------------
\* Two commands at their saves are one: the second would not have found the index
\* steady.
LEMMA StepOneSave ==
    ASSUME IInv, NEW p \in Procs, Start(p) \/ Step(p) \/ Crash(p)
    PROVE  OneSave'
  <1> USE DEF IInv, Steady
  <1>1. steady' => steady
    BY StepHistories
  <1>2. \A q \in Procs : q # p => pc'[q] = pc[q]
    BY OthersUntouched DEF Untouched
  <1>3. pc'[p] = "save" => pc[p] = "save" \/ (steady' => \A q \in Procs : pc[q] # "save")
    BY AtItsSave
  <1>. QED
    BY <1>1, <1>2, <1>3 DEF OneSave

\* The one that writes is not disturbed.
LEMMA StepWriting ==
    ASSUME IInv, NEW p \in Procs, Start(p) \/ Step(p) \/ Crash(p)
    PROVE  Writing'
  <1> USE DEF IInv, Steady
  <1>0. File!TypeOK /\ ProcTypes /\ (steady' => steady)
    BY TypeParts, StepHistories
  <1>o. \A q \in Procs : q # p => Untouched(q)
    BY OthersUntouched
  <1> SUFFICES ASSUME steady', steady, NEW q \in Procs
               PROVE  /\ at'[q] = "write" => stream'[q] = tmp' /\ tmp' # NoInode /\ data'[tmp'] = Empty
                      /\ at'[q] = "rename" => tmp' # NoInode /\ data'[tmp'] = info'[q]
    BY <1>0 DEF Writing
  <1>1. CASE Save(p)
    <2>1. q # p => at[q] = "out"
      BY <1>1 DEF Save, OneSave, UsesFile
    <2>2. CASE File!Open(p) /\ UNCHANGED <<procVars, wanted>>
      BY <1>0, <1>o, <2>1, <2>2, Opens, InodeAssumption DEF Untouched, File!TypeOK
    <2>3. CASE File!Write(p, info[p]) /\ UNCHANGED <<procVars, wanted>>
      <3>1. info[p] \in Contents /\ at[p] = "write" /\ info' = info
        BY <1>0, <2>3 DEF ProcTypes, File!Write, procVars
      <3>2. stream[p] = tmp /\ tmp # NoInode /\ data[tmp] = Empty
        BY <3>1 DEF Writing
      <3>3. at' = [at EXCEPT ![p] = "rename"] /\ tmp' = tmp /\ data'[tmp] = info[p]
        BY <1>0, <2>3, <3>1, <3>2, Writes
      <3>. QED
        BY <1>0, <1>o, <2>1, <3>1, <3>2, <3>3 DEF Untouched, File!TypeOK
    <2>4. CASE File!Rename(p) \/ File!RenameFails(p)
      <3>1. at' = [at EXCEPT ![p] = "out"]
        BY <2>4 DEF File!Rename, File!RenameFails, File!Abandon
      <3>. QED
        BY <1>0, <1>o, <2>1, <3>1 DEF Untouched, File!TypeOK
    <2>. QED
      BY <1>1, <2>2, <2>3, <2>4, Zenon DEF Save
  <1>2. CASE Crash(p)
    <2>1. /\ at' = [at EXCEPT ![p] = "out"] /\ tmp' = tmp
          /\ tmp # NoInode => data'[tmp] = data[tmp]
      BY <1>0, <1>2, Abandons DEF Crash
    <2>. QED
      BY <1>0, <1>o, <2>1 DEF Writing, Untouched, File!TypeOK
  <1>3. CASE ~ Save(p) /\ ~ Crash(p)
    <2>1. UNCHANGED fileVars /\ pc[p] # "save"
      BY <1>3 DEF Step, Start, Archive, RevParse, Lookup, Fetch, Keep
    <2>2. at[p] = "out"
      BY <2>1 DEF UsesFile
    <2>. QED
      BY <1>o, <2>1, <2>2 DEF fileVars, Writing, Untouched
  <1>. QED
    BY <1>1, <1>2, <1>3

\* The index changes into a whole document.
LEMMA StepWhole ==
    ASSUME IInv, NEW p \in Procs, Start(p) \/ Step(p) \/ Crash(p)
    PROVE  Whole'
  <1>1. steady' => steady
    BY StepHistories DEF IInv
  <1>2. info[p] \in Contents
    BY TypeParts DEF IInv, ProcTypes
  <1>3. steady => File!Read' = File!Read \/ File!Read' = info[p]
    BY IndexMoves DEF IInv, Steady
  <1>. QED
    BY <1>1, <1>2, <1>3 DEF IInv, Steady, Whole

\* A command that has looked the index up plans the present index, changed in its
\* own version.
LEMMA LookupPlans ==
    ASSUME IInv, steady, NEW p \in Procs, pc[p] = "lookup", File!Read # Garbled, Accepts(p),
           job[p] # "resolve"
    PROVE  LET new == Updated(p)  w == version[p]
           IN  /\ \A v \in Versions : v # w => new[v] = Listed[v]
               /\ new[w] # NoEntry /\ new[w].checksum = new[w].commit
               /\ new[w].yanked = (job[p] = "yank")
               /\ (job[p] = "publish") <=> (Listed[w] = NoEntry)
               /\ Listed[w] # NoEntry =>
                    \A f \in {"commit", "checksum"} : new[w][f] = Listed[w][f]
  <1> USE DEF IInv, Steady
  <1>1. /\ version[p] \in Versions
        /\ \A v \in Versions : v # version[p] => Updated(p)[v] = Listed[v]
        /\ Updated(p)[version[p]] \in Entry
        /\ Updated(p)[version[p]].yanked = (job[p] = "yank")
    BY UpdatedDocument
  <1>2. Updated(p)[version[p]] # NoEntry
    BY <1>1, AbsenceAssumption
  <1>3. CASE job[p] = "publish"
    BY <1>1, <1>2, <1>3, UpdatedDocument DEF OneCommit
  <1>4. CASE job[p] # "publish"
    <2>1. /\ Listed[version[p]] # NoEntry
          /\ Updated(p)[version[p]].commit = Listed[version[p]].commit
          /\ Updated(p)[version[p]].checksum = Listed[version[p]].checksum
      BY <1>4, UpdatedDocument
    <2>2. Listed[version[p]].checksum = Listed[version[p]].commit
      BY <1>1, <2>1, PublishedIsListed DEF ChecksumMatches
    <2>. QED
      BY <1>1, <1>2, <1>4, <2>1, <2>2
  <1>. QED
    BY <1>3, <1>4

\* Plans stay good: nobody else renames meanwhile.
LEMMA StepPlanned ==
    ASSUME IInv, NEW p \in Procs, Start(p) \/ Step(p) \/ Crash(p)
    PROVE  Planned'
  <1> USE DEF IInv, Steady
  <1>0. ProcTypes /\ (steady' => steady)
    BY TypeParts, StepHistories
  <1> SUFFICES ASSUME steady', steady, NEW q \in Procs, pc'[q] = "save"
               PROVE  /\ \A v \in Versions : v # version'[q] => info'[q][v] = Listed'[v]
                      /\ info'[q][version'[q]] # NoEntry
                      /\ info'[q][version'[q]].checksum = info'[q][version'[q]].commit
                      /\ info'[q][version'[q]].yanked = (job'[q] = "yank")
                      /\ (job'[q] = "publish") <=> (Listed'[version'[q]] = NoEntry)
                      /\ Listed'[version'[q]] # NoEntry =>
                           \A f \in {"commit", "checksum"} :
                              info'[q][version'[q]][f] = Listed'[version'[q]][f]
    BY <1>0 DEF Planned
  <1>1. CASE pc[q] = "save" /\ info'[q] = info[q] /\ job'[q] = job[q] /\ version'[q] = version[q]
    <2>1. ~ (pc[p] = "save" /\ Finish(p))
      <3>1. ASSUME pc[p] = "save", Finish(p) PROVE FALSE
        BY <1>0, <1>1, <3>1, Finishes DEF OneSave
      <3>. QED
        BY <3>1
    <2>2. Listed' = Listed
      BY <2>1, IndexMoves, ReadKept
    <2>3. /\ \A v \in Versions : v # version[q] => info[q][v] = Listed[v]
          /\ info[q][version[q]] # NoEntry
          /\ info[q][version[q]].checksum = info[q][version[q]].commit
          /\ info[q][version[q]].yanked = (job[q] = "yank")
          /\ (job[q] = "publish") <=> (Listed[version[q]] = NoEntry)
          /\ Listed[version[q]] # NoEntry =>
               \A f \in {"commit", "checksum"} : info[q][version[q]][f] = Listed[version[q]][f]
      BY <1>1 DEF Planned
    <2>. QED
      BY <1>1, <2>2, <2>3
  <1>2. CASE /\ q = p /\ pc[p] = "lookup" /\ File!Read # Garbled /\ Accepts(p) /\ job[p] # "resolve"
             /\ info' = [info EXCEPT ![p] = Updated(p)] /\ job' = job /\ version' = version
             /\ UNCHANGED fileVars
    <2>1. File!Read' = File!Read
      BY <1>2 DEF fileVars, File!Read
    <2>2. Listed' = Listed
      BY <2>1, ReadKept
    <2>3. info'[p] = Updated(p) /\ version'[p] = version[p] /\ job'[p] = job[p]
      BY <1>0, <1>2 DEF ProcTypes
    <2>. QED
      BY <1>2, <2>2, <2>3, LookupPlans
  <1>3. CASE q # p
    BY <1>1, <1>3, OthersUntouched DEF Untouched
  <1>4. CASE q = p
    BY <1>1, <1>2, <1>4, AtItsSave DEF procVars
  <1>. QED
    BY <1>3, <1>4

\* A publication sees HEAD once, or the history is not steady.
LEMMA StepOneCommit ==
    ASSUME IInv, NEW p \in Procs, Start(p) \/ Step(p) \/ Crash(p)
    PROVE  OneCommit'
  <1> USE DEF IInv, Steady
  <1>0. ProcTypes /\ (steady' => steady) /\ head' = head
    BY TypeParts, StepHistories
  <1>o. \A q \in Procs : q # p => Untouched(q)
    BY OthersUntouched
  <1> DEFINE Here == /\ pc'[p] = "revparse" => checksum'[p] = head
                     /\ pc'[p] = "lookup" /\ job'[p] = "publish" => commit'[p] = checksum'[p]
  <1>1. ASSUME steady PROVE Here
    <2>1. CASE Finish(p)
      BY <1>0, <2>1, Finishes
    <2>2. CASE (Start(p) \/ Archive(p) \/ RevParse(p)) /\ ~ Finish(p)
      BY <1>0, <1>1, <2>2 DEF Start, Archive, RevParse, Goto, ProcTypes, OneCommit
    <2>3. CASE Lookup(p) /\ ~ Finish(p)
      BY <1>0, <2>3 DEF Lookup, Goto, ProcTypes
    <2>4. CASE Save(p) /\ ~ Finish(p)
      BY <1>0, <2>4 DEF Save, procVars, ProcTypes
    <2>. QED
      BY <2>1, <2>2, <2>3, <2>4 DEF Step, Fetch, Crash
  <1> HIDE DEF Here
  <1>. QED
    BY <1>0, <1>o, <1>1 DEF Here, OneCommit, Untouched
-----------------------------------------------------------------------------
\* What a rename puts in the place of the index: the same, but for the version
\* the command was about.
LEMMA Installed ==
    ASSUME IInv, steady, NEW p \in Procs, pc[p] = "save", Finish(p), File!Read' = info[p]
    PROVE  /\ File!Read # Garbled /\ version[p] \in Versions
           /\ \A v \in Versions : Published(v)' <=> info[p][v] # NoEntry
           /\ \A v \in Versions : v # version[p] =>
                info[p][v] = Listed[v] /\ (Published(v)' <=> Published(v))
           /\ \A v \in Versions : Published(v) => Listed = File!Read
  <1> USE DEF IInv, Steady
  <1>1. info[p] \in Contents
    BY TypeParts DEF ProcTypes
  <1>2. File!Read # Garbled
    BY TextAssumption DEF Whole
  <1>3. version[p] \in Versions
    BY DEF Bound, Updating
  <1>4. \A v \in Versions : Published(v)' <=> info[p][v] # NoEntry
    BY <1>1, TextAssumption DEF Published
  <1>5. \A v \in Versions : v # version[p] => info[p][v] = Listed[v]
    BY DEF Planned
  <1>. QED
    BY <1>2, <1>3, <1>4, <1>5, PublishedIsListed

\* The entries of other versions keep their mark, and the command's own has the one
\* it reported.
LEMMA StepYanksHold ==
    ASSUME IInv, NEW p \in Procs, Start(p) \/ Step(p) \/ Crash(p)
    PROVE  YanksHold'
  <1> USE DEF IInv, Steady
  <1>0. ProcTypes /\ Histories /\ (steady' => steady)
    BY TypeParts, StepHistories
  <1> SUFFICES ASSUME steady', steady, NEW v \in Versions, Published(v)'
               PROVE  File!Read'[v].yanked = wanted'[v]
    BY <1>0 DEF YanksHold
  <1>1. CASE File!Read' = File!Read /\ wanted' = wanted
    BY <1>1, ReadKept DEF YanksHold
  <1>2. CASE /\ pc[p] = "save" /\ Finish(p) /\ File!Read' = info[p]
             /\ wanted' = [wanted EXCEPT ![version[p]] = (job[p] = "yank")]
    <2>1. CASE v = version[p]
      <3>1. info[p][v].yanked = (job[p] = "yank")
        BY <1>2, <2>1 DEF Planned
      <3>2. wanted'[v] = (job[p] = "yank")
        BY <1>0, <1>2, <2>1, Zenon DEF Histories
      <3>. QED
        BY <1>2, <3>1, <3>2
    <2>2. CASE v # version[p]
      <3>1. info[p][v] = Listed[v] /\ Published(v) /\ Listed = File!Read
        BY <1>2, <2>2, Installed
      <3>2. wanted'[v] = wanted[v]
        BY <1>0, <1>2, <2>2, Zenon DEF Histories
      <3>3. File!Read[v].yanked = wanted[v]
        BY <3>1 DEF YanksHold
      <3>. QED
        BY <1>2, <3>1, <3>2, <3>3
    <2>. QED
      BY <2>1, <2>2
  <1>. QED
    BY <1>1, <1>2, IndexMoves

\* The entries are good in the new index if they were in the old, and so is the one
\* a resolution takes from it.
LEMMA StepChecksumMatches ==
    ASSUME IInv, NEW p \in Procs, Start(p) \/ Step(p) \/ Crash(p)
    PROVE  ChecksumMatches'
  <1> USE DEF IInv, Steady
  <1>0. ProcTypes /\ (steady' => steady)
    BY TypeParts, StepHistories
  <1>1. ASSUME steady', steady, NEW v \in Versions, Published(v)'
        PROVE  File!Read'[v].checksum = File!Read'[v].commit
    <2>1. CASE File!Read' = File!Read
      BY <1>1, <2>1, ReadKept DEF ChecksumMatches
    <2>2. CASE pc[p] = "save" /\ Finish(p) /\ File!Read' = info[p]
      <3>1. CASE v = version[p]
        BY <1>1, <2>2, <3>1 DEF Planned
      <3>2. CASE v # version[p]
        <4>1. info[p][v] = Listed[v] /\ Published(v) /\ Listed = File!Read
          BY <1>1, <2>2, <3>2, Installed
        <4>. QED
          BY <1>1, <2>2, <4>1 DEF ChecksumMatches
      <3>. QED
        BY <3>1, <3>2
    <2>. QED
      BY <1>1, <2>1, <2>2, IndexMoves
  <1>2. ASSUME steady', steady, NEW q \in Procs, pc'[q] = "fetch"
        PROVE  info'[q][version'[q]].checksum = info'[q][version'[q]].commit
    <2>1. CASE q # p
      <3>1. Untouched(q)
        BY <2>1, OthersUntouched
      <3>. QED
        BY <1>2, <3>1 DEF ChecksumMatches, Untouched
    <2>2. CASE q = p
      <3>1. ~ Finish(p)
        BY <1>0, <1>2, <2>2, Finishes
      <3>2. Lookup(p)
        BY <1>0, <1>2, <2>2, <3>1
           DEF Step, Start, Archive, RevParse, Save, Fetch, Crash, Goto, ProcTypes, procVars
      <3>3. /\ File!Read # Garbled /\ info' = [info EXCEPT ![p] = Listed]
            /\ \E v \in Candidates(Listed) : version' = [version EXCEPT ![p] = v]
        BY <1>0, <1>2, <2>2, <3>1, <3>2 DEF Lookup, Goto, ProcTypes, Highest
      <3>4. PICK w \in Candidates(Listed) : version' = [version EXCEPT ![p] = w]
        BY <3>3
      <3>5. info'[p] = Listed /\ version'[p] = w
        BY <1>0, <3>3, <3>4 DEF ProcTypes
      <3>6. w \in Versions /\ Listed[w] # NoEntry
        BY DEF Candidates
      <3>7. Published(w) /\ Listed = File!Read
        BY <3>3, <3>6, PublishedIsListed
      <3>8. File!Read[w].checksum = File!Read[w].commit
        BY <1>2, <3>6, <3>7 DEF ChecksumMatches
      <3>. QED
        BY <2>2, <3>5, <3>7, <3>8
    <2>. QED
      BY <2>1, <2>2
  <1>. QED
    BY <1>0, <1>1, <1>2 DEF ChecksumMatches

\* The author's commits touch no command and no file.
LEMMA StepCommit ==
    ASSUME IInv, NEW c \in Commits, Commit(c)
    PROVE  IInv'
  <1> USE DEF IInv, Steady, Commit, fileVars, procVars
  <1>1. Histories' /\ (steady' => steady) /\ (steady' => \A p \in Procs : pc[p] # "revparse")
    <2>1. steady' = (steady /\ \A p \in Procs : pc[p] # "revparse")
      BY Zenon
    <2>2. head' \in Commits /\ wanted' = wanted
      OBVIOUS
    <2>. QED
      BY <2>1, <2>2, TypeParts, Zenon DEF Histories
  <1>2. TypeOK' /\ Bound' /\ UsesFile' /\ Apart' /\ NoStrays'
    <2>1. File!TypeOK' /\ ProcTypes'
      BY TypeParts DEF File!TypeOK, ProcTypes
    <2>2. TypeOK'
      BY <1>1, <2>1, Zenon DEF TypeOK, ProcTypes, Histories
    <2>. QED
      BY <2>2 DEF Bound, UsesFile, Apart, NoStrays, File!InUse
  <1>3. File!Read' = File!Read
    BY DEF File!Read
  <1>4. OneSave' /\ Writing' /\ Whole' /\ OneCommit'
    BY <1>1, <1>3 DEF OneSave, Writing, Whole, OneCommit
  <1>5. Planned'
    BY <1>1, <1>3, ReadKept DEF Planned
  <1>6. YanksHold' /\ ChecksumMatches'
    BY <1>1, <1>3, ReadKept DEF YanksHold, ChecksumMatches
  <1>. QED
    BY <1>2, <1>4, <1>5, <1>6

\* Nothing is published at first.
LEMMA InitIInv == Init => IInv
  <1> SUFFICES ASSUME Init PROVE IInv
    OBVIOUS
  <1> USE DEF Init, File!Init
  <1>1. File!TypeOK /\ ProcTypes /\ Histories
    <2>1. File!TypeOK
      BY DEF File!TypeOK, File!Named, File!Text
    <2>2. ProcTypes
      BY DEF ProcTypes, Contents, NoneYet
    <2>. QED
      BY <2>1, <2>2 DEF Histories
  <1>2. Bound /\ UsesFile /\ Apart /\ NoStrays
    BY DEF Bound, UsesFile, Apart, NoStrays, Updating
  <1>3. File!Read = Absent
    BY DEF File!Read
  <1>4. Steady
    BY <1>3 DEF Steady, OneSave, Writing, Whole, Planned, OneCommit
  <1>5. YanksHold /\ ChecksumMatches
    BY <1>3 DEF YanksHold, ChecksumMatches, Published
  <1>. QED
    BY <1>1, <1>2, <1>4, <1>5, TypeParts DEF IInv

\* Every step, a command's or the author's, keeps the invariant.
LEMMA StepIInv == IInv /\ [Next]_vars => IInv'
  <1> SUFFICES ASSUME IInv, [Next]_vars PROVE IInv'
    OBVIOUS
  <1>1. ASSUME NEW p \in Procs, Start(p) \/ Step(p) \/ Crash(p) PROVE IInv'
    <2>1. TypeOK /\ Bound /\ UsesFile /\ Apart /\ NoStrays
      BY DEF IInv
    <2>2. TypeOK'
      <3>1. File!TypeOK' /\ ProcTypes' /\ Histories'
        BY <1>1, <2>1, StepFile, StepProcTypes, StepHistories
      <3>. QED
        BY <3>1, Zenon DEF TypeOK, ProcTypes, Histories
    <2>3. Bound' /\ UsesFile' /\ Apart' /\ NoStrays'
      BY <1>1, <2>1, StepBound, StepFile, StepStrays
    <2>4. Steady'
      BY <1>1, StepOneSave, StepWriting, StepWhole, StepPlanned, StepOneCommit DEF Steady
    <2>5. YanksHold' /\ ChecksumMatches'
      BY <1>1, StepYanksHold, StepChecksumMatches
    <2>. QED
      BY <2>2, <2>3, <2>4, <2>5 DEF IInv
  <1>2. ASSUME NEW c \in Commits, Commit(c) PROVE IInv'
    BY <1>2, StepCommit
  <1>3. CASE UNCHANGED vars
    <2>1. File!Read' = File!Read
      BY <1>3 DEF vars, fileVars, File!Read
    <2>2. Listed' = Listed /\ \A v \in Versions : Published(v)' <=> Published(v)
      BY <2>1, ReadKept
    <2>3. TypeOK' /\ Bound' /\ UsesFile' /\ Apart' /\ NoStrays'
      BY <1>3 DEF IInv, TypeOK, File!TypeOK, Bound, UsesFile, Apart, NoStrays, File!InUse,
                  vars, fileVars, procVars
    <2>4. Steady'
      BY <1>3, <2>1, <2>2
         DEF IInv, Steady, OneSave, Writing, Whole, Planned, OneCommit, vars, fileVars, procVars
    <2>5. YanksHold' /\ ChecksumMatches'
      BY <1>3, <2>1, <2>2 DEF IInv, YanksHold, ChecksumMatches, vars, procVars
    <2>. QED
      BY <2>3, <2>4, <2>5 DEF IInv
  <1>. QED
    BY <1>1, <1>2, <1>3 DEF Next

\* The invariant holds for ever.
LEMMA Invariance == Spec => []IInv
  BY InitIInv, StepIInv, PTL DEF Spec
-----------------------------------------------------------------------------
\* Every variable keeps its type, wherever commands overlap or are killed.
THEOREM RegistryTypeOK == Spec => []TypeOK
  BY Invariance, PTL DEF IInv

\* rxy yank and unyank hold as long as the history is steady, that is until two
\* rewrites of the index overlap or HEAD moves inside a publish: what the last one
\* said is what the index says, for any number of rxy processes.
THEOREM YanksAlwaysHold == Spec => []YanksHold
  BY Invariance, PTL DEF IInv

\* In a steady history what a consumer reads has the checksum of the commit it
\* will fetch: no kill, retry or other publication can come between the two.
THEOREM ChecksumsAlwaysMatch == Spec => []ChecksumMatches
  BY Invariance, PTL DEF IInv

\* From a steady state no publication, yank or crash changes or loses an entry
\* that was published.
THEOREM EntriesAreImmutable == Spec => EntriesImmutable
  <1> DEFINE Kept(v) == Published(v)' /\ \A f \in {"commit", "checksum"} :
                                            File!Read'[v][f] = File!Read[v][f]
  <1>1. ASSUME IInv, [Next]_vars, NEW v \in Versions, steady, Published(v) PROVE Kept(v)
    <2>1. CASE File!Read' = File!Read
      BY <1>1, <2>1, ReadKept
    <2>2. ASSUME NEW p \in Procs, Start(p) \/ Step(p) \/ Crash(p) PROVE Kept(v)
      <3>1. CASE pc[p] = "save" /\ Finish(p) /\ File!Read' = info[p]
        <4>1. /\ File!Read # Garbled /\ Listed = File!Read /\ Listed[v] # NoEntry
              /\ v # version[p] => info[p][v] = Listed[v]
              /\ Published(v)' <=> info[p][v] # NoEntry
          BY <1>1, <3>1, Installed, PublishedIsListed DEF IInv
        <4>2. v = version[p] =>
                 /\ info[p][v] # NoEntry
                 /\ \A f \in {"commit", "checksum"} : info[p][v][f] = Listed[v][f]
          BY <1>1, <3>1, <4>1 DEF IInv, Steady, Planned
        <4>. QED
          BY <3>1, <4>1, <4>2
      <3>. QED
        BY <1>1, <2>1, <2>2, <3>1, IndexMoves DEF IInv, Steady
    <2>3. CASE UNCHANGED fileVars
      BY <2>1, <2>3 DEF fileVars, File!Read
    <2>. QED
      BY <1>1, <2>2, <2>3 DEF Next, Commit, vars
  <1>2. IInv /\ [Next]_vars => [\A v \in Versions : steady /\ Published(v) => Kept(v)]_vars
    BY <1>1
  <1>. QED
    BY <1>2, Invariance, PTL DEF Spec, EntriesImmutable
-----------------------------------------------------------------------------
\* A rename is one publication, or one change of a mark, in the ledger.
LEMMA RenameInLedger ==
    ASSUME IInv, steady, NEW p \in Procs, pc[p] = "save", Finish(p), File!Read' = info[p]
    PROVE  \E w \in Versions :
              \/ /\ Listed[w] = NoEntry
                 /\ \E c \in Commits : Listed' = [Listed EXCEPT
                       ![w] = [commit |-> c, checksum |-> c, yanked |-> FALSE]]
              \/ /\ Listed[w] # NoEntry
                 /\ \E b \in BOOLEAN : Listed' = [Listed EXCEPT ![w].yanked = b]
  <1> USE DEF IInv, Steady
  <1> DEFINE w == version[p]
  <1>1. /\ info[p] \in Contents /\ w \in Versions /\ Listed \in Contents
        /\ \A v \in Versions : v # w => info[p][v] = Listed[v]
    BY Installed, TypeParts, ReadCases DEF ProcTypes
  <1>2. Listed' = info[p]
    BY <1>1, TextAssumption DEF Listed
  <1>3. info[p][w] \in Entry
    BY <1>1 DEF Planned, Contents
  <1>4. /\ info[p][w].checksum = info[p][w].commit
        /\ info[p][w].yanked = (job[p] = "yank")
        /\ (job[p] = "publish") <=> (Listed[w] = NoEntry)
        /\ Listed[w] # NoEntry => /\ info[p][w].commit = Listed[w].commit
                                  /\ info[p][w].checksum = Listed[w].checksum
    BY DEF Planned
  <1> HIDE DEF w
  <1>5. CASE Listed[w] = NoEntry
    <2>1. PICK c \in Commits : info[p][w].commit = c
      BY <1>3 DEF Entry
    <2> DEFINE e == [commit |-> c, checksum |-> c, yanked |-> FALSE]
    <2>2. info[p][w] = e
      BY <1>3, <1>4, <1>5, <2>1 DEF Entry
    <2>3. info[p] = [Listed EXCEPT ![w] = info[p][w]]
      BY <1>1 DEF Contents
    <2>4. Listed' = [Listed EXCEPT ![w] = e]
      BY <1>2, <2>2, <2>3
    <2>. QED
      BY <1>1, <1>5, <2>4
  <1>6. CASE Listed[w] # NoEntry
    <2>1. Listed[w] \in Entry
      BY <1>1, <1>6 DEF Contents
    <2>2. PICK b \in BOOLEAN : info[p][w].yanked = b
      BY <1>3 DEF Entry
    <2>3. info[p][w] = [Listed[w] EXCEPT !.yanked = b]
      BY <1>3, <1>4, <1>6, <2>1, <2>2 DEF Entry
    <2>4. [Listed EXCEPT ![w].yanked = b] = [Listed EXCEPT ![w] = [Listed[w] EXCEPT !.yanked = b]]
      OBVIOUS
    <2>5. info[p] = [Listed EXCEPT ![w] = info[p][w]]
      BY <1>1 DEF Contents
    <2>. QED
      BY <1>1, <1>2, <1>6, <2>2, <2>3, <2>4, <2>5
  <1>. QED
    BY <1>5, <1>6

\* A lookup that lets a resolution go on hands it the highest entry not yanked.
LEMMA LookupHands ==
    ASSUME IInv, NEW p \in Procs, Start(p) \/ Step(p) \/ Crash(p), pc'[p] = "fetch"
    PROVE  \E v \in Highest(Candidates(Listed)) : version'[p] = v /\ info'[p] = Listed
  <1> USE DEF IInv
  <1>0. ProcTypes
    BY TypeParts
  <1>1. ~ Finish(p)
    BY <1>0, Finishes
  <1>2. Lookup(p)
    BY <1>0, <1>1
       DEF Step, Start, Archive, RevParse, Save, Fetch, Crash, Goto, ProcTypes, procVars
  <1>3. /\ info' = [info EXCEPT ![p] = Listed]
        /\ \E v \in Highest(Candidates(Listed)) : version' = [version EXCEPT ![p] = v]
    BY <1>0, <1>1, <1>2 DEF Lookup, Goto, ProcTypes
  <1>. QED
    BY <1>0, <1>3 DEF ProcTypes

\* Every step is one of the ledger, or none.
LEMMA StepLedger ==
    IInv /\ [Next]_vars => [Ledger!Next]_<<Listed, [p \in Procs |-> Handed(p)], steady>>
  <1> SUFFICES ASSUME IInv, [Next]_vars, steady'
               PROVE  [Ledger!Next]_<<Listed, [p \in Procs |-> Handed(p)], steady>>
    <2>1. IInv /\ [Next]_vars => steady' \in BOOLEAN
      BY StepIInv, Zenon DEF IInv, TypeOK
    <2>. QED
      BY <2>1 DEF Ledger!Next
  <1> DEFINE h == [q \in Procs |-> Handed(q)]
  <1>0. steady \in BOOLEAN /\ steady' \in BOOLEAN
    BY StepIInv, Zenon DEF IInv, TypeOK
  <1>1. ASSUME NEW p \in Procs, Start(p) \/ Step(p) \/ Crash(p)
        PROVE  Ledger!Next
    <2>0. steady /\ steady' = steady /\ ProcTypes
      BY <1>0, <1>1, StepHistories, TypeParts DEF IInv
    <2>1. \A q \in Procs : q # p => Handed(q)' = Handed(q)
      BY <1>1, OthersUntouched DEF Handed, Untouched, IInv
    <2>2. CASE Listed' = Listed /\ pc'[p] # "fetch"
      <3>1. h' = [h EXCEPT ![p] = NoEntry]
        BY <2>1, <2>2 DEF Handed
      <3>2. Ledger!Return(p)
        BY <2>2, <3>1 DEF Ledger!Return
      <3>. QED
        BY <2>0, <3>2 DEF Ledger!Next, Ledger!Change
    <2>3. CASE Listed' = Listed /\ pc'[p] = "fetch"
      <3>1. PICK v \in Highest(Candidates(Listed)) : version'[p] = v /\ info'[p] = Listed
        BY <1>1, <2>3, LookupHands
      <3>2. /\ v \in Versions /\ v \in Ledger!Available
            /\ \A w \in Ledger!Available : w <= v
        BY DEF Highest, Candidates, Ledger!Available
      <3>3. h' = [h EXCEPT ![p] = <<v, Listed[v]>>]
        BY <2>1, <2>3, <3>1 DEF Handed
      <3>4. Ledger!Hand(p, v)
        BY <2>3, <3>2, <3>3 DEF Ledger!Hand
      <3>. QED
        BY <2>0, <3>2, <3>4 DEF Ledger!Next, Ledger!Change
    <2>4. CASE pc[p] = "save" /\ Finish(p) /\ File!Read' = info[p]
      <3>1. h' = h
        BY <2>0, <2>1, <2>4, Finishes DEF Handed
      <3>2. \E w \in Versions : \/ \E c \in Commits : Ledger!Publish(w, c)
                                \/ \E b \in BOOLEAN : Ledger!Mark(w, b)
        BY <2>0, <2>4, <3>1, RenameInLedger DEF Ledger!Publish, Ledger!Mark
      <3>. QED
        BY <2>0, <3>2 DEF Ledger!Next, Ledger!Change
    <2>. QED
      BY <1>1, <2>0, <2>2, <2>3, <2>4, IndexMoves, ReadKept DEF IInv, Steady
  <1>2. CASE UNCHANGED fileVars /\ UNCHANGED procVars
    <2>1. Listed' = Listed /\ h' = h
      BY <1>2 DEF fileVars, procVars, File!Read, Listed, Handed
    <2>2. steady' => steady
      BY StepHistories, Zenon DEF IInv, Next, Commit, vars
    <2>. QED
      BY <1>0, <2>1, <2>2
  <1>. QED
    BY <1>1, <1>2 DEF Next, Commit, vars

\* As long as the history is steady the index file, rewritten by any number of
\* commands that may be killed at any step, implements the ledger.
THEOREM ImplementsLedger == Spec => LedgerSpec
  <1>1. Init => Ledger!Init
    BY DEF Init, File!Init, File!Read, Listed, NoneYet, Handed, Ledger!Init
  <1>. QED
    BY <1>1, StepLedger, Invariance, PTL DEF Spec, LedgerSpec, Ledger!Spec
-----------------------------------------------------------------------------
\* In the calm at most one command is in atomic_write_text_file, and has there an
\* empty temporary file or a whole document.
CalmWriter ==
    calm => /\ \A p, q \in Procs : at[p] # "out" /\ at[q] # "out" => p = q
            /\ \A p \in Procs :
                /\ at[p] = "write" => stream[p] = tmp /\ tmp # NoInode /\ data[tmp] = Empty
                /\ at[p] = "rename" => tmp # NoInode /\ data[tmp] \in Contents

\* That stays so whatever else the histories of the commands are.
LEMMA StepCalmWriter ==
    ASSUME IInv, CalmWriter, File!FileWhole, NEW p \in Procs, Start(p) \/ Step(p) \/ Crash(p)
    PROVE  CalmWriter' /\ File!FileWhole'
  <1> USE DEF CalmWriter, File!FileWhole
  <1>0. /\ File!TypeOK /\ Apart /\ UsesFile /\ info[p] \in Contents
        /\ stream[p] # NoInode => at[p] = "write"
    BY TypeParts DEF IInv, ProcTypes, UsesFile
  <1> USE DEF File!TypeOK
  <1>1. CASE UNCHANGED fileVars
    BY <1>1 DEF fileVars, File!Read
  <1>2. CASE File!Open(p)
    <2>1. (calm' => calm /\ File!Alone) /\ stream' = [stream EXCEPT ![p] = tmp']
      BY <1>2, Zenon DEF File!Open
    <2>2. /\ File!Read' = File!Read /\ at' = [at EXCEPT ![p] = "write"]
          /\ tmp' # NoInode /\ data'[tmp'] = Empty
      BY <1>0, <1>2, Opens, InodeAssumption
    <2>. QED
      BY <1>0, <2>1, <2>2 DEF File!Alone
  <1>3. CASE File!Write(p, info[p])
    <2>1. /\ calm' = calm /\ at[p] = "write" /\ at' = [at EXCEPT ![p] = "rename"] /\ tmp' = tmp
          /\ calm => File!Read' = File!Read /\ data'[tmp] = info[p]
      BY <1>0, <1>3, Writes DEF File!Write
    <2>. QED
      BY <1>0, <2>1
  <1>4. CASE File!Rename(p)
    <2>1. /\ calm' = calm /\ at[p] = "rename" /\ at' = [at EXCEPT ![p] = "out"]
          /\ File!Read' = data[tmp]
      BY <1>0, <1>4, Renames DEF File!Rename
    <2>. QED
      BY <1>0, <2>1
  <1>5. CASE File!Abandon(p)
    <2>1. /\ calm' = calm /\ at' = [at EXCEPT ![p] = "out"] /\ tmp' = tmp
          /\ stream' = [stream EXCEPT ![p] = NoInode]
          /\ tmp # NoInode => data'[tmp] = data[tmp]
          /\ File!Read' = File!Read
      BY <1>0, <1>5, Abandons DEF File!Abandon
    <2>. QED
      BY <1>0, <2>1
  <1>. QED
    BY <1>1, <1>2, <1>3, <1>4, <1>5, FileSteps

\* As long as no two commands write at once, whoever reads the index finds no file
\* or one whole document; also where commands read before others wrote.
THEOREM IndexAlwaysWhole == Spec => []File!FileWhole
  <1>1. Init => CalmWriter /\ File!FileWhole
    BY DEF Init, File!Init, CalmWriter, File!FileWhole, File!Read
  <1>2. IInv /\ CalmWriter /\ File!FileWhole /\ [Next]_vars => CalmWriter' /\ File!FileWhole'
    <2>1. CASE UNCHANGED fileVars
      BY <2>1 DEF fileVars, CalmWriter, File!FileWhole, File!Read
    <2>. QED
      BY <2>1, StepCalmWriter DEF Next, Commit, vars
  <1>. QED
    BY <1>1, <1>2, Invariance, PTL DEF Spec
=============================================================================
