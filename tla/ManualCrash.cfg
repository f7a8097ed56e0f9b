SPECIFICATION Spec
CONSTANTS
    w1 = w1
    w2 = w2
    c1 = c1
    NoThread = NoThread
    Writers = {w1, w2}
    Compactors = {c1}
    MaxCalls = 1
    WriteBufferSize = 0
    L0CompactionTrigger = 1
    L0SlowdownTrigger = 1
    L0StopTrigger = 2
    MaxLevels = 1
    MaxRange = 1
    MaxKeys = 1
CHECK_DEADLOCK FALSE
INVARIANT ManualCompactionPresent
