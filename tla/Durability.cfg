SPECIFICATION FilesSpec
CONSTANTS
    MaxSeq = 2
    MaxFile = 8
    MaxCrash = 2
INVARIANTS
    
    
    
    DeletesOnlyGarbage
    LiveTablesExist
    
    NoSequenceReuse
    
    Sequence
    
PROPERTIES
    FilesStay
CHECK_DEADLOCK FALSE
