-------------------------- MODULE AtomicFileProofs --------------------------
(***************************************************************************)
(* Proofs about AtomicFile and AtomicWrites, for any number of processes,   *)
(* writers, inodes and texts: until two writes overlap or a flush fails     *)
(* readers find whole texts, whatever crashes; and call by call the file is *)
(* a register that overlapping calls may spoil and a call that is alone     *)
(* puts right.                                                              *)
(***************************************************************************)
EXTENDS AtomicWrites, TLAPS

\* <path> and <path>.tmp are never the same inode.
Apart == name # NoInode => name # tmp

\* Only a process that is writing holds a stream.
StreamsOpen == \A p \in Procs : at[p] # "write" => stream[p] = NoInode

\* In the calm at most one process is in atomic_write_text_file; its stream is an
\* empty <path>.tmp, and once that is closed <path>.tmp holds a whole text.
WriterInv ==
    calm => /\ \A p, q \in Procs : at[p] # "out" /\ at[q] # "out" => p = q
            /\ \A p \in Procs :
                /\ at[p] = "write" => stream[p] = tmp /\ tmp # NoInode /\ data[tmp] = Empty
                /\ at[p] = "rename" => tmp # NoInode /\ data[tmp] \in Contents

FileInv == TypeOK /\ Apart /\ StreamsOpen /\ WriterInv /\ FileWhole

-----------------------------------------------------------------------------
\* One step keeps the types.
LEMMA StepType == TypeOK /\ [Next]_fileVars => TypeOK'
  <1> SUFFICES ASSUME TypeOK, [Next]_fileVars PROVE TypeOK'
    OBVIOUS
  <1> USE WriterAssumption DEF TypeOK, Named, Text, Abandon, Kept
  <1>1. ASSUME NEW p \in Writers, Open(p) PROVE TypeOK'
    BY <1>1 DEF Open
  <1>2. ASSUME NEW p \in Writers, NEW text \in Contents, Write(p, text) PROVE TypeOK'
    BY <1>2 DEF Write, Overlay
  <1>3. ASSUME NEW p \in Writers,
                 FlushFails(p) \/ WriteFails(p) \/ RenameFails(p) \/ Abandon(p)
        PROVE  TypeOK'
    BY <1>3 DEF FlushFails, WriteFails, RenameFails
  <1>4. ASSUME NEW p \in Writers, Rename(p) PROVE TypeOK'
    BY <1>4 DEF Rename
  <1>5. CASE Unlink
    BY <1>5 DEF Unlink
  <1>6. CASE UNCHANGED fileVars
    BY <1>6 DEF fileVars
  <1>. QED
    BY <1>1, <1>2, <1>3, <1>4, <1>5, <1>6 DEF Next

\* Every variable keeps its type with any writers, crashes and a full disk.
THEOREM FileTypeCorrect == Spec => []TypeOK
  <1>1. Init => TypeOK
    BY DEF Init, TypeOK, Named, Text
  <1>. QED
    BY <1>1, StepType, PTL DEF Spec

\* Every step keeps the invariant, whoever takes it.
LEMMA StepFile == FileInv /\ [Next]_fileVars => FileInv'
  <1> SUFFICES ASSUME FileInv, [Next]_fileVars PROVE FileInv'
    OBVIOUS
  <1>0. TypeOK'
    BY StepType DEF FileInv
  <1> USE WriterAssumption, InodeAssumption, TextAssumption
      DEF FileInv, WriterInv, StreamsOpen, Apart, FileWhole, Read, TypeOK, Named, Text, Abandon, Kept, InUse
  <1>1. ASSUME NEW p \in Writers, Open(p) PROVE FileInv'
    <2>1. PICK i \in Inodes : /\ IF tmp = NoInode THEN i \notin InUse ELSE i = tmp
                              /\ tmp' = i /\ data' = [data EXCEPT ![i] = Empty]
                              /\ stream' = [stream EXCEPT ![p] = i]
      BY <1>1 DEF Open
    <2>2. /\ at[p] = "out" /\ at' = [at EXCEPT ![p] = "write"]
          /\ calm' = (calm /\ Alone) /\ name' = name
      BY <1>1 DEF Open
    <2>3. i # name
      BY <2>1 DEF InUse
    <2>4. Apart' /\ StreamsOpen' /\ FileWhole'
      BY <2>1, <2>2, <2>3
    <2>5. WriterInv'
      BY <2>1, <2>2 DEF Alone
    <2>. QED
      BY <1>0, <2>4, <2>5
  <1>2. ASSUME NEW p \in Writers, NEW text \in Contents, Write(p, text) PROVE FileInv'
    <2>1. calm => data' = Kept([data EXCEPT ![tmp] = text])
      BY <1>2 DEF Write, Overlay
    <2>2. Apart' /\ StreamsOpen'
      BY <1>2 DEF Write
    <2>3. WriterInv'
      BY <1>2, <2>1 DEF Write
    <2>4. FileWhole'
      BY <1>2, <2>1 DEF Write
    <2>. QED
      BY <1>0, <2>2, <2>3, <2>4
  <1>3. ASSUME NEW p \in Writers, FlushFails(p) PROVE FileInv'
    BY <1>0, <1>3 DEF FlushFails
  <1>4. ASSUME NEW p \in Writers, WriteFails(p) \/ RenameFails(p) \/ Abandon(p)
        PROVE  FileInv'
    BY <1>0, <1>4 DEF WriteFails, RenameFails
  <1>5. ASSUME NEW p \in Writers, Rename(p) PROVE FileInv'
    BY <1>0, <1>5 DEF Rename
  <1>6. CASE Unlink
    BY <1>0, <1>6 DEF Unlink
  <1>7. CASE UNCHANGED fileVars
    BY <1>0, <1>7 DEF fileVars
  <1>. QED
    BY <1>1, <1>2, <1>3, <1>4, <1>5, <1>6, <1>7 DEF Next

LEMMA FileInvariant == Spec => []FileInv
  <1>1. Init => FileInv
    BY DEF Init, FileInv, TypeOK, Named, Text, StreamsOpen, WriterInv, Apart, FileWhole, Read
  <1>. QED
    BY <1>1, StepFile, PTL DEF Spec

\* While writers take turns and the disk has room, atomic_write_text_file lives
\* up to its name: readers never see a truncated or a mixed file.
THEOREM WholeFile == Spec => []FileWhole
  BY FileInvariant, PTL DEF FileInv

-----------------------------------------------------------------------------
\* A process has a text to write exactly while it is in the function.
Asked == /\ asked \in [Procs -> Contents \cup {NoText}]
         /\ answer \in [Procs -> {"none", "ok", "failed"}]
         /\ \A p \in Procs : asked[p] # NoText <=> at[p] # "out"

\* A call that is alone has no other beside it, its stream is an empty <path>.tmp,
\* and once that is closed <path>.tmp holds its text.
AloneInv ==
    /\ alone \subseteq Procs /\ firm \in BOOLEAN
    /\ \A p \in alone : at[p] # "out" /\ \A q \in Procs : at[q] # "out" => q = p
    /\ \A p \in Procs : firm /\ at[p] # "out" => p \in alone
    /\ \A p \in alone :
        /\ at[p] = "write" => stream[p] = tmp /\ tmp # NoInode /\ data[tmp] = Empty
        /\ at[p] = "rename" => tmp # NoInode /\ data[tmp] = asked[p]

CallInv == TypeOK /\ Apart /\ StreamsOpen /\ Asked /\ AloneInv

\* Every step of a call is one of AtomicFile.
LEMMA CallsStep == CallInv /\ [CallsNext]_writeVars => [Next]_fileVars
  <1> SUFFICES ASSUME CallInv, [CallsNext]_writeVars PROVE Next \/ UNCHANGED fileVars
    OBVIOUS
  <1>1. ASSUME NEW p \in Writers, Writes(p) PROVE Next
    <2>1. asked[p] \in Contents
      BY <1>1, WriterAssumption DEF Writes, CallInv, Asked
    <2>. QED
      BY <1>1, <2>1 DEF Writes, Next
  <1>2. ASSUME NEW p \in Writers, Loses(p) \/ Returns(p) \/ Throws(p) PROVE Next
    BY <1>2 DEF Loses, Returns, Throws, Next
  <1>3. ASSUME NEW p \in Writers, NEW text \in Contents, Call(p, text) PROVE Next
    BY <1>3 DEF Call, Next
  <1>4. CASE Deleted \/ UNCHANGED writeVars
    BY <1>4 DEF Deleted, Next, writeVars
  <1>. QED
    BY <1>1, <1>2, <1>3, <1>4 DEF CallsNext

\* Nobody has called at first.
LEMMA InitCall == CallsInit => CallInv
  BY NoTextAssumption DEF CallsInit, Init, CallInv, TypeOK, Named, Text, Apart, StreamsOpen,
     Asked, AloneInv

\* <path> and <path>.tmp stay apart, and only a writing process has a stream.
LEMMA StepApart == CallInv /\ [Next]_fileVars => Apart' /\ StreamsOpen'
  <1> SUFFICES ASSUME CallInv, [Next]_fileVars PROVE Apart' /\ StreamsOpen'
    OBVIOUS
  <1> USE WriterAssumption DEF CallInv, Apart, StreamsOpen, TypeOK, Named, Abandon, InUse
  <1>1. ASSUME NEW p \in Writers, Open(p) PROVE Apart' /\ StreamsOpen'
    BY <1>1 DEF Open
  <1>2. ASSUME NEW p \in Writers, NEW text \in Contents, Write(p, text) PROVE Apart' /\ StreamsOpen'
    BY <1>2 DEF Write
  <1>3. ASSUME NEW p \in Writers, \/ FlushFails(p) \/ WriteFails(p) \/ RenameFails(p)
                                  \/ Abandon(p) \/ Rename(p)
        PROVE  Apart' /\ StreamsOpen'
    BY <1>3 DEF FlushFails, WriteFails, RenameFails, Rename
  <1>4. CASE Unlink \/ UNCHANGED fileVars
    BY <1>4 DEF Unlink, fileVars
  <1>. QED
    BY <1>1, <1>2, <1>3, <1>4 DEF Next

\* What an inode that stays in use holds is kept.
LEMMA KeptInUse ==
  ASSUME TypeOK', NEW d, NEW i \in Inodes, data' = Kept(d),
         i \in {name', tmp'} \cup {stream'[p] : p \in Procs}
  PROVE  data'[i] = d[i]
  BY DEF Kept, InUse

\* Every step keeps what a call that is alone knows.
LEMMA StepCall == CallInv /\ [CallsNext]_writeVars => CallInv'
  <1> SUFFICES ASSUME CallInv, [CallsNext]_writeVars PROVE CallInv'
    OBVIOUS
  <1>0. TypeOK' /\ Apart' /\ StreamsOpen'
    BY StepType, StepApart, CallsStep DEF CallInv
  <1> SUFFICES Asked' /\ AloneInv'
    BY <1>0 DEF CallInv
  <1> USE WriterAssumption, NoTextAssumption
      DEF CallInv, Apart, StreamsOpen, Asked, AloneInv, TypeOK, Named, Leave, callVars
  <1>1. ASSUME NEW p \in Writers, NEW text \in Contents, Call(p, text) PROVE Asked' /\ AloneInv'
    <2>1. PICK i \in Inodes : /\ tmp' = i /\ data' = [data EXCEPT ![i] = Empty]
                              /\ stream' = [stream EXCEPT ![p] = i]
      BY <1>1 DEF Call, Open
    <2>2. /\ at[p] = "out" /\ at' = [at EXCEPT ![p] = "write"] /\ p \in Procs
          /\ asked' = [asked EXCEPT ![p] = text] /\ answer' = [answer EXCEPT ![p] = "none"]
          /\ alone' = (IF Alone THEN {p} ELSE {}) /\ firm' = (firm /\ Alone)
      BY <1>1 DEF Call, Open
    <2>3. Asked'
      BY <2>2
    <2>4. CASE Alone
      <3>1. alone' = {p} /\ firm' \in BOOLEAN
        BY <2>2, <2>4
      <3>2. \A q \in Procs : at'[q] # "out" <=> q = p
        BY <2>2, <2>4 DEF Alone
      <3>3. at'[p] = "write" /\ stream'[p] = tmp' /\ tmp' # NoInode /\ data'[tmp'] = Empty
        BY <2>1, <2>2, InodeAssumption
      <3>. QED
        BY <2>3, <2>2, <3>1, <3>2, <3>3
    <2>5. CASE ~Alone
      BY <2>2, <2>5
    <2>. QED
      BY <2>3, <2>4, <2>5
  <1>2. ASSUME NEW p \in Writers, Writes(p) PROVE Asked' /\ AloneInv'
    <2>1. /\ at[p] = "write" /\ at' = [at EXCEPT ![p] = "rename"] /\ p \in Procs
          /\ asked[p] \in Contents
          /\ UNCHANGED <<name, tmp, asked, answer, alone, firm>>
      BY <1>2 DEF Writes, Write
    <2>2. Asked'
      BY <2>1
    <2>3. CASE p \in alone
      <3>1. stream[p] = tmp /\ tmp \in Inodes /\ data[tmp] = Empty
        BY <2>1, <2>3
      <3>2. data' = Kept([data EXCEPT ![tmp] = asked[p]])
        BY <1>2, <3>1 DEF Writes, Write, Overlay
      <3>3. data'[tmp] = [data EXCEPT ![tmp] = asked[p]][tmp]
        BY <1>0, <2>1, <3>1, <3>2, KeptInUse
      <3>4. data'[tmp] = asked[p]
        BY <3>1, <3>3
      <3>. QED
        BY <2>1, <2>2, <2>3, <3>1, <3>4
    <2>4. CASE p \notin alone
      <3>1. alone = {} /\ ~firm
        BY <2>1, <2>4
      <3>. QED
        BY <2>1, <2>2, <3>1
    <2>. QED
      BY <2>3, <2>4
  <1>3. ASSUME NEW p \in Writers, Loses(p) PROVE Asked' /\ AloneInv'
    <2>1. /\ at[p] = "write" /\ at' = [at EXCEPT ![p] = "rename"] /\ p \in Procs
          /\ alone' = alone \ {p} /\ ~firm' /\ firm' \in BOOLEAN /\ UNCHANGED <<asked, answer>>
      BY <1>3 DEF Loses, FlushFails
    <2>2. alone' = {}
      BY <2>1
    <2>. QED
      BY <2>1, <2>2
  <1>4. ASSUME NEW p \in Writers, Returns(p) \/ Throws(p) PROVE Asked' /\ AloneInv'
    <2>1. /\ at[p] # "out" /\ at' = [at EXCEPT ![p] = "out"] /\ p \in Procs
          /\ alone' = alone \ {p} /\ asked' = [asked EXCEPT ![p] = NoText]
          /\ \E how \in {"ok", "failed"} : answer' = [answer EXCEPT ![p] = how]
          /\ firm' \in {firm, firm \/ p \in alone}
      BY <1>4 DEF Returns, Throws, Rename, WriteFails, RenameFails, Abandon
    <2>2. alone' = {} /\ (firm' => \A q \in Procs : at'[q] = "out")
      BY <2>1
    <2>3. Asked'
      BY <2>1
    <2>. QED
      BY <2>1, <2>2, <2>3
  <1>5. CASE Deleted
    <2>1. UNCHANGED <<tmp, stream, at, asked, answer, alone, firm>> /\ data' = Kept(data)
      BY <1>5 DEF Deleted, Unlink
    <2>2. tmp # NoInode => data'[tmp] = data[tmp]
      BY <1>0, <2>1, KeptInUse
    <2>. QED
      BY <2>1, <2>2
  <1>6. CASE UNCHANGED writeVars
    BY <1>6 DEF writeVars, fileVars
  <1>. QED
    BY <1>1, <1>2, <1>3, <1>4, <1>5, <1>6 DEF CallsNext

LEMMA CallInvariant == CallsSpec => []CallInv
  BY InitCall, StepCall, PTL DEF CallsSpec

\* Readers see no difference while <path> and what is in its inode stay.
LEMMA SameRead ==
  ASSUME CallInv, CallInv', name' = name, data' = Kept(data)
  PROVE  Read' = Read
  <1>1. CASE name = NoInode
    BY <1>1 DEF Read
  <1>2. CASE name # NoInode
    BY <1>2, KeptInUse DEF Read, CallInv, TypeOK, Named
  <1>. QED
    BY <1>1, <1>2

\* Every step of a call is a step of the register.
LEMMA StepRegister ==
  CallInv /\ CallInv' /\ [CallsNext]_writeVars => [Register!Next]_(Register!regVars)
  <1> SUFFICES ASSUME CallInv, CallInv', [CallsNext]_writeVars
               PROVE  Register!Next \/ UNCHANGED <<Read, asked, answer, alone, firm>>
    BY DEF Register!regVars
  <1> USE WriterAssumption, NoTextAssumption DEF Register!Pending
  <1>0. \A p \in Procs : p \in Register!Pending <=> at[p] # "out"
    BY DEF CallInv, Asked
  <1>1. ASSUME NEW p \in Writers, NEW text \in Contents, Call(p, text) PROVE Register!Begin(p, text)
    <2>1. at[p] = "out" /\ p \in Procs /\ name' = name
      BY <1>1 DEF Call, Open
    <2>2. Alone <=> Register!Pending = {}
      BY <1>0 DEF Alone
    <2>3. Read' = Read
      <3>1. PICK i \in Inodes : /\ IF tmp = NoInode THEN i \notin InUse ELSE i = tmp
                                /\ data' = [data EXCEPT ![i] = Empty]
        BY <1>1 DEF Call, Open
      <3>2. i # name
        BY <3>1 DEF InUse, CallInv, Apart
      <3>. QED
        BY <2>1, <3>1, <3>2 DEF Read, CallInv, TypeOK
    <2>4. p \notin Register!Pending
      BY <1>0, <2>1
    <2>. QED
      BY <1>1, <2>2, <2>3, <2>4 DEF Call, Register!Begin
  <1>2. ASSUME NEW p \in Writers, Writes(p)
        PROVE  Register!Scribble \/ UNCHANGED <<Read, asked, answer, alone, firm>>
    <2>1. at[p] = "write" /\ p \in Procs /\ name' = name /\ UNCHANGED <<asked, answer, alone, firm>>
      BY <1>2 DEF Writes, Write, callVars
    <2>2. CASE p \in alone
      <3>1. /\ stream[p] = tmp /\ tmp \in Inodes /\ tmp # name /\ data[tmp] = Empty
        BY <2>1, <2>2 DEF CallInv, AloneInv, TypeOK, Named, Apart
      <3>2. data' = Kept([data EXCEPT ![tmp] = asked[p]])
        BY <1>2, <3>1 DEF Writes, Write, Overlay
      <3>3. CASE name = NoInode
        BY <2>1, <3>3 DEF Read
      <3>4. CASE name # NoInode
        <4>1. name \in Inodes /\ name' = name /\ TypeOK'
          BY <2>1, <3>4 DEF CallInv, TypeOK, Named
        <4>2. data'[name] = [data EXCEPT ![tmp] = asked[p]][name]
          BY <3>2, <4>1, KeptInUse
        <4>. QED
          BY <2>1, <3>1, <4>1, <4>2 DEF Read, CallInv, TypeOK
      <3>. QED
        BY <3>3, <3>4
    <2>3. CASE p \notin alone
      <3>1. p \in Register!Pending /\ ~firm
        BY <1>0, <2>1, <2>3 DEF CallInv, AloneInv
      <3>. QED
        BY <2>1, <2>3, <3>1 DEF Register!Scribble
    <2>. QED
      BY <2>2, <2>3
  <1>3. ASSUME NEW p \in Writers, Loses(p) PROVE Register!Lose(p)
    <2>1. at[p] = "write" /\ p \in Procs /\ name' = name /\ data' = Kept(data)
      BY <1>3 DEF Loses, FlushFails
    <2>2. Read' = Read
      BY <2>1, SameRead
    <2>3. p \in Register!Pending
      BY <1>0, <2>1
    <2>. QED
      BY <1>3, <2>2, <2>3 DEF Loses, Register!Lose
  <1>4. ASSUME NEW p \in Writers, Throws(p) PROVE Register!Fail(p)
    <2>1. at[p] # "out" /\ p \in Procs /\ name' = name /\ data' = Kept(data)
      BY <1>4 DEF Throws, WriteFails, RenameFails, Abandon
    <2>2. Read' = Read
      BY <2>1, SameRead
    <2>3. p \in Register!Pending
      BY <1>0, <2>1
    <2>. QED
      BY <1>4, <2>2, <2>3 DEF Throws, Leave, Register!Fail, Register!End
  <1>5. ASSUME NEW p \in Writers, Returns(p) PROVE Register!Succeed(p)
    <2>1. /\ at[p] = "rename" /\ p \in Procs /\ tmp \in Inodes /\ name' = tmp
          /\ data' = Kept(data) /\ firm' = (firm \/ p \in alone)
      BY <1>5 DEF Returns, Rename, CallInv, TypeOK, Named
    <2>2. p \in Register!Pending /\ Register!End(p, "ok")
      BY <1>0, <1>5, <2>1 DEF Returns, Leave, Register!End
    <2>3. CASE p \in alone
      <3>1. name' \in Inodes /\ data[tmp] = asked[p] /\ TypeOK'
        BY <2>1, <2>3 DEF CallInv, AloneInv
      <3>2. data'[name'] = data[name']
        BY <2>1, <3>1, KeptInUse
      <3>3. Read' = asked[p]
        BY <2>1, <3>1, <3>2, InodeAssumption DEF Read
      <3>4. firm' = TRUE
        BY <2>1, <2>3 DEF CallInv, AloneInv
      <3>. QED
        BY <2>2, <2>3, <3>3, <3>4 DEF Register!Succeed
    <2>4. CASE p \notin alone
      <3>1. ~firm /\ firm' = firm
        BY <2>1, <2>4 DEF CallInv, AloneInv
      <3>. QED
        BY <2>2, <2>4, <3>1 DEF Register!Succeed
    <2>. QED
      BY <2>3, <2>4
  <1>6. CASE Deleted
    <2>1. Read' = Absent
      BY <1>6 DEF Deleted, Unlink, Read
    <2>. QED
      BY <1>6, <2>1 DEF Deleted, callVars, Register!Unset, Register!Next
  <1>7. CASE UNCHANGED writeVars
    BY <1>7 DEF writeVars, fileVars, callVars, Read
  <1>. QED
    BY <1>1, <1>2, <1>3, <1>4, <1>5, <1>6, <1>7 DEF CallsNext, Register!Next

\* The file is a register, for any number of writers, whatever crashes and
\* whichever calls overlap: a call that is alone and succeeds sets it to its text
\* in one step, and a call that fails or dies does not change it.
THEOREM ImplementsRegister == CallsSpec => RegisterSpec
  <1>1. CallsInit => Register!Init
    BY DEF CallsInit, Init, Read, Register!Init
  <1>. QED
    BY <1>1, StepRegister, CallInvariant, PTL DEF CallsSpec, RegisterSpec, Register!Spec
=============================================================================
