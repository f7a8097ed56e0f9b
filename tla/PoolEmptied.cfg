SPECIFICATION Spec
CONSTANTS
    Putters = {p1}
    Getters = {g1, g2}
    Closers = {}
    BufferCap = 1
    MaxBufferNumber = 2
    PutFactor = 1
    GetFactor = 1
    TotalMod = 8
    MaxCalls = 3
INVARIANT KeepsABuffer
CHECK_DEADLOCK FALSE
