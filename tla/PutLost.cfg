SPECIFICATION Spec
CONSTANTS
    Putters = {p1, p2}
    Getters = {}
    Closers = {c1}
    BufferCap = 1
    MaxBufferNumber = 2
    PutFactor = 1
    GetFactor = 1
    TotalMod = 8
    MaxCalls = 2
INVARIANT PutWithoutErrorStores
CHECK_DEADLOCK FALSE
