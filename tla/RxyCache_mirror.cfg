SPECIFICATION Spec
CONSTANTS
    u1 = u1
    u2 = u2
    c1 = c1
    c2 = c2
    Procs = {p1, p2}
    Urls = {u1, u2}
    Commits = {c1, c2}
    NoProc = NoProc
    NoCommit = NoCommit
    NoRequest = NoRequest
    Requests <- MirrorRequests
    Misnamed = {}
    Moving = {}
    Failing = {c1}
    Lingering = {u1}
    MaxGit = 1
    MaxTar = 1
SYMMETRY Twins
INVARIANT LocksExclusive
INVARIANT ExtractsAlone
INVARIANT MarkedTreeComplete
INVARIANT HandedTreeStays
PROPERTY BareChangesAreOnline
PROPERTY StoreSpec
