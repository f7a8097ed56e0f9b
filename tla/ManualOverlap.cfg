SPECIFICATION Spec
CONSTANTS
    Keys = {1, 2, 3}
    MaxSeq = 4
    MaxSnapshots = 0
    Top = 2
    MaxMemCompactLevel = 2
    ManualRequests <- WholeLevel
INVARIANT LevelsDisjoint
CHECK_DEADLOCK FALSE
