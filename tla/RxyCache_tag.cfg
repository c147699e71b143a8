SPECIFICATION FairSpec
CONSTANTS
    u1 = u1
    u2 = u2
    c1 = c1
    c2 = c2
    Procs = {p1, p2}
    Urls = {u1}
    Commits = {c1, c2}
    NoProc = NoProc
    NoCommit = NoCommit
    NoRequest = NoRequest
    Requests <- TagRequests
    Misnamed = {c2}
    Moving = {u1}
    Failing = {}
    Lingering = {u1}
    MaxGit = 1
    MaxTar = 0
PROPERTY FreshTag
PROPERTY ResolveEnds
