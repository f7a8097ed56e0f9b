SPECIFICATION ReadsSpec
CONSTANTS
    Keys = {1, 2, 3}
    MaxSeq = 3
    MaxSnapshots = 2
    Top = 2
    MaxMemCompactLevel = 2
    ManualRequests <- SingleKeys
INVARIANTS
    LevelsDisjoint
    NewerAbove
    GetCorrect
    ReadsExact
    OwnersExact
PROPERTIES
    ImplementsStore
    IteratesSnapshot
CHECK_DEADLOCK FALSE
