SPECIFICATION Spec
CONSTANTS
    Putters = {p1, p2, p3}
    Getters = {g1, g2, g3}
    Closers = {c1}
    BufferCap = 1
    MaxBufferNumber = 2
    PutFactor = 1
    GetFactor = 1
    TotalMod = 8
    MaxCalls = 1
INVARIANTS PoolInv NeverSendsOnClosed SendHasRoom NothingLost QuiescentCounts
    TotalWithinCapacity
SYMMETRY Symmetry
CHECK_DEADLOCK FALSE
