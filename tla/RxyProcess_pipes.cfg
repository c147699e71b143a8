SPECIFICATION FairSpec
CONSTANTS
    Threads = {t1, t2}
    NoThread = NoThread
    Pids = {11, 12}
    NSlots = 2
    Cap = 2
    MaxOut = 1
    MaxErr = 2
    MaxSignals = 0
INVARIANT CaptureIsWhole
PROPERTY RunsReturn
CHECK_DEADLOCK FALSE
