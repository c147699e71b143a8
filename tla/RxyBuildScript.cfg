SPECIFICATION Spec
CONSTANTS
    Procs = {p1, p2}
    Files = {f, g}
    Texts = {t1, t2}
    Gone = Gone
    Watched = {f}
    EnvValues = {e1, e2}
    NoEnv = NoEnv
    DeclaresEnv = TRUE
    None = None
    MissingIsNewer = FALSE
SYMMETRY Swaps
PROPERTY CacheIsFresh
