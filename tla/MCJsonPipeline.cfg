SPECIFICATION Spec
CONSTANTS
    Workers = {w1, w2, w3}
    MaxObjects = 4
    Unmarshalable = {2}
    ObjCap = 2
    JsonCap = 1
    MaxFaults = 2
INVARIANTS
    TypeOK
    ShutdownOrder
    NothingLost
    OrderKept
    WellFormedJson
PROPERTIES
    ImplementsConversion
