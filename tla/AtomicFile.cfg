SPECIFICATION CallsSpec
CONSTANTS
    Procs = {p1, p2, p3}
    Writers = {p1, p2, p3}
    Inodes = {i1, i2, i3, i4}
    NoInode = NoInode
    Contents = {t1, t2}
    Absent = Absent
    Empty = Empty
    Garbled = Garbled
    DiskMayFill = TRUE
    NoText = NoText
SYMMETRY Symmetric
INVARIANT TypeOK
INVARIANT FileWhole
PROPERTY RegisterSpec
