SPECIFICATION Spec
CONSTANTS
    DBs = {0, 1}
    Keys = {3}
    ObjTypes = {"list", "hashEx"}
    Values = {1}
    TTLs = {7}
    Valkey = FALSE
    MaxTTLs = 2
    MaxFaults = 1
    MaxLen = 19
    Int64 = 64
    MsPerSec = 2
    NsPerMs = 3
    ReadAs <- MCReadAs
INVARIANTS
    FinishedFileLoads
PROPERTIES
    ImplementsSnapshot
CHECK_DEADLOCK FALSE
