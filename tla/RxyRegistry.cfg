SPECIFICATION Spec
CONSTANTS
    Procs = {p1, p2}
    Writers = {p1, p2}
    Versions = {1, 2}
    Commits = {c1, c2}
    NoEntry = NoEntry
    NoCommit = NoCommit
    Inodes = {i1, i2, i3}
    NoInode = NoInode
    Absent = Absent
    Empty = Empty
    Garbled = Garbled
SYMMETRY Swaps
INVARIANT YanksHold
INVARIANT ChecksumMatches
PROPERTY EntriesImmutable
PROPERTY LedgerSpec
