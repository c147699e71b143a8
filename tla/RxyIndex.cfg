SPECIFICATION Spec
CONSTANTS
    Procs = {p1, p2}
    MaxHead = 3
SYMMETRY Swaps
INVARIANT LookupIsRecent
