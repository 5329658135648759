SPECIFICATION Spec
CONSTANTS
    DBs = {0, 1}
    Keys = {1}
    ObjTypes = {"hash"}
    Values = {2}
    TTLs = {7}
    Valkey = FALSE
    MaxTTLs = 2
    MaxFaults = 2
    MaxLen = 19
INVARIANTS
    TypeOK
    DbSelectedOnce
    NoEmptyDB
    ChecksumValid
    GrammarKept
    FileAsAcked
CHECK_DEADLOCK FALSE
