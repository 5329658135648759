SPECIFICATION Spec
CONSTANTS
    Files <- MCFiles
    Int64 = 64
    MsPerSec = 2
    NsPerMs = 3
    ReadAs <- MCReadAs
    MaxItems = 1
    LongItems = 1
INVARIANT
    NilMeansEOF
CHECK_DEADLOCK FALSE
