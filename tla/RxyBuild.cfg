SPECIFICATION Spec
CONSTANTS
    Procs = {p1, p2}
    Writers = {p1}
    GitDeps = {g}
    Tagged = {}
    RegDeps = {r}
    Commits = {c1, c2}
    Versions = {1}
    NoPin = NoPin
    Optional = {g}
    Targets = {t1}
    Options <- Commands
    Inodes = {i1, i2}
    NoInode = NoInode
    Absent = Absent
    Empty = Empty
    Garbled = Garbled
SYMMETRY Swaps
INVARIANT SuccessIsRecorded
PROPERTY PinsHold
