SPECIFICATION FairSpec
CONSTANTS
    Batch = 2
    RingCap = 2
    Ids = 2
    MaxVec = 2
INVARIANTS
    TypeOK
    NoThreadOutlives
    HandedBuilt
PROPERTIES
    ShutdownCompletes
    
    DecisionsLeave
CHECK_DEADLOCK FALSE
