SPECIFICATION Spec
CONSTANTS
    BlockSize = 6
    HeaderSize = 3
    MaxLength = 5
    MaxRecords = 2
    MaxFailures = 0
    MaxReuse = 1
INVARIANT ReusedLogIsClean
CHECK_DEADLOCK FALSE
