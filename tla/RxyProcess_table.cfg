SPECIFICATION Spec
CONSTANTS
    Threads = {t1, t2, t3}
    NoThread = NoThread
    Pids = {11, 12}
    NSlots = 2
    Cap = 1
    MaxOut = 0
    MaxErr = 0
    MaxSignals = 1
SYMMETRY Callers
INVARIANT SlotsTrackRuns
INVARIANT SignalReachesRegistered
INVARIANT ChildrenAreReaped
CHECK_DEADLOCK FALSE
