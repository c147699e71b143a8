----------------------------- MODULE AtomicFile -----------------------------
(***************************************************************************)
(* One file written with util::atomic_write_text_file (rxy/util/fs.cpp) and *)
(* read with read_text_file by any number of rxy processes: Rexy.lock, a    *)
(* registry entry, Rexy.toml or a build-script cache file.                  *)
(*                                                                         *)
(* A file name refers to an inode.  Every writer of a path uses the same    *)
(* temporary name "<path>.tmp", so a writer's stream may refer to an inode  *)
(* that another writer has already renamed into place.                      *)
(***************************************************************************)
EXTENDS Integers, FiniteSets

CONSTANTS
    Procs, Writers,         \* processes; those that ever write this path
    Inodes, NoInode,
    Contents,               \* the whole texts that are written
    Absent, Empty, Garbled, \* no file; a truncated file; two texts mixed
    DiskMayFill             \* TRUE: a write may fail with ENOSPC

ASSUME WriterAssumption == Writers \subseteq Procs
ASSUME InodeAssumption  == /\ NoInode \notin Inodes
                           /\ IsFiniteSet(Procs) /\ IsFiniteSet(Inodes)
                           /\ Cardinality(Inodes) > Cardinality(Procs)
ASSUME TextAssumption   == Contents \cap {Absent, Empty, Garbled} = {} /\ Empty # Garbled
ASSUME DiskAssumption   == DiskMayFill \in BOOLEAN

VARIABLES
    name, tmp,  \* the inodes that <path> and <path>.tmp refer to
    data,       \* [Inodes -> text]
    stream,     \* [Procs -> inode its ofstream has open]
    at,         \* [Procs -> where in atomic_write_text_file it is]
    calm        \* history: no two writes overlapped and no flush failed so far

fileVars == <<name, tmp, data, stream, at, calm>>

Text  == Contents \cup {Empty, Garbled}
Named == Inodes \cup {NoInode}

TypeOK ==
    /\ name \in Named /\ tmp \in Named
    /\ data \in [Inodes -> Text]
    /\ stream \in [Procs -> Named]
    /\ at \in [Procs -> {"out", "write", "rename"}]
    /\ calm \in BOOLEAN

Init ==
    /\ name = NoInode /\ tmp = NoInode
    /\ data = [i \in Inodes |-> Empty]
    /\ stream = [p \in Procs |-> NoInode]
    /\ at = [p \in Procs |-> "out"]
    /\ calm = TRUE

\* What read_text_file returns (Absent: the caller finds no regular file).
Read == IF name = NoInode THEN Absent ELSE data[name]

InUse == {name, tmp} \cup {stream[p] : p \in Procs}

\* What every inode holds after a step that writes `d`: an inode that is neither
\* named nor open any more is gone.
Kept(d) == [i \in Inodes |-> IF i \in InUse' THEN d[i] ELSE Empty]

Alone == \A p \in Procs : at[p] = "out"

\* std::ofstream out(tmp, trunc): reuses the inode another writer left there.
Open(p) ==
    /\ at[p] = "out"
    /\ \E i \in Inodes :
        /\ IF tmp = NoInode THEN i \notin InUse ELSE i = tmp
        /\ tmp' = i
        /\ data' = [data EXCEPT ![i] = Empty]
        /\ stream' = [stream EXCEPT ![p] = i]
    /\ at' = [at EXCEPT ![p] = "write"]
    /\ calm' = (calm /\ Alone)
    /\ UNCHANGED name

\* Mutant: the stream is opened without trunc, so texts are concatenated.
Appended(old, text) == IF old = Empty THEN {text} ELSE {<<old, text>>}

\* The text reaches the inode from offset 0: over another writer's longer text
\* it leaves that text's tail.
Overlay(old, text) == IF old \in {Empty, text} THEN {text} ELSE {text, Garbled}

\* out.write and the closing of the stream.
Write(p, text) ==
    /\ at[p] = "write"
    /\ stream' = [stream EXCEPT ![p] = NoInode]
    /\ at' = [at EXCEPT ![p] = "rename"]
    /\ UNCHANGED <<name, tmp, calm>>
    /\ \E t \in Overlay(data[stream[p]], text) :
          data' = Kept([data EXCEPT ![stream[p]] = t])

\* ENOSPC while a text that fits the stream's buffer is flushed by the
\* destructor, after `if (!out)` was tested: nobody notices.
FlushFails(p) ==
    /\ at[p] = "write" /\ DiskMayFill
    /\ stream' = [stream EXCEPT ![p] = NoInode]
    /\ at' = [at EXCEPT ![p] = "rename"]
    /\ calm' = FALSE
    /\ UNCHANGED <<name, tmp>>
    /\ data' = Kept(data)

\* Leaving the function early (a throw) or dying: <path>.tmp stays behind.
Abandon(p) ==
    /\ stream' = [stream EXCEPT ![p] = NoInode]
    /\ at' = [at EXCEPT ![p] = "out"]
    /\ UNCHANGED <<name, tmp, calm>>
    /\ data' = Kept(data)

\* ENOSPC in out.write itself: "write failed".
WriteFails(p) == at[p] = "write" /\ DiskMayFill /\ Abandon(p)

\* Mutant: the rename happens inside the scope of the stream, before its flush.
RenameUnflushed(p) ==
    /\ at[p] \in {"write", "rename"} /\ tmp # NoInode
    /\ name' = tmp /\ tmp' = NoInode
    /\ at' = [at EXCEPT ![p] = IF @ = "write" THEN "write" ELSE "out"]
    /\ UNCHANGED <<data, stream, calm>>

\* Mutant: the move does not replace a file that is there, and says nothing.
RenameKeepsOld(p) ==
    /\ at[p] = "rename" /\ tmp # NoInode
    /\ IF name = NoInode THEN name' = tmp /\ tmp' = NoInode ELSE UNCHANGED <<name, tmp>>
    /\ at' = [at EXCEPT ![p] = "out"]
    /\ UNCHANGED <<stream, calm>>
    /\ data' = Kept(data)

\* fs::rename(tmp, path).
Rename(p) ==
    /\ at[p] = "rename" /\ tmp # NoInode
    /\ name' = tmp /\ tmp' = NoInode
    /\ at' = [at EXCEPT ![p] = "out"]
    /\ UNCHANGED <<stream, calm>>
    /\ data' = Kept(data)

\* "atomic rename failed": another writer has renamed the common tmp away.
RenameFails(p) == at[p] = "rename" /\ tmp = NoInode /\ Abandon(p)

\* The user deletes the file.
Unlink == /\ name' = NoInode
          /\ UNCHANGED <<tmp, stream, at, calm>>
          /\ data' = Kept(data)

Next ==
    \/ \E p \in Writers : \/ Open(p) \/ FlushFails(p) \/ WriteFails(p)
                          \/ Rename(p) \/ RenameFails(p)
                          \/ \E text \in Contents : Write(p, text)
                          \/ at[p] # "out" /\ Abandon(p)
    \/ Unlink

Spec == Init /\ [][Next]_fileVars
-----------------------------------------------------------------------------
\* `Atomically write content to path`: as long as writers take turns and the disk
\* has room, and wherever they are killed, whoever reads the file finds no file
\* or a whole text that was written, never a truncated or a mixed one.
FileWhole == calm => Read \in Contents \cup {Absent}
=============================================================================
