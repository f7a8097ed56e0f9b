CONSTANTS
    MaxSeq = 2
    MaxFile = 6
    MaxCrash = 0
SPECIFICATION Spec
CHECK_DEADLOCK FALSE
INVARIANTS
    SyncWriteCoversEarlier
