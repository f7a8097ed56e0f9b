SPECIFICATION FormatsSpec
CONSTANTS
    BlockSize = 5
    HeaderSize = 3
    MaxLength = 3
    MaxRecords = 2
    MaxFailures = 1
    MaxReuse = 1
INVARIANTS
    ReadsBack
    NoFalseAlarm
    OnlyWholeRecords
    
PROPERTIES
    ReaderFinishes
    IteratesTable
CHECK_DEADLOCK FALSE
