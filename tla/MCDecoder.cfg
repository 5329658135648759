SPECIFICATION Spec
CONSTANTS
    Files <- MCFiles
    Int64 = 64
    MsPerSec = 2
    NsPerMs = 3
    ReadAs <- MCReadAs
    MaxItems = 2
    LongItems = 4
INVARIANTS
    TypeOK
    ObjectsAsSaid
    ObjectsComplete
    NilOnlyAtEnd
PROPERTIES
    StopIsFinal
    ParseReturns
CHECK_DEADLOCK FALSE
