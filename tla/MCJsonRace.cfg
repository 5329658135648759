SPECIFICATION Spec
CONSTANTS
    Workers = {w1}
    MaxObjects = 4
    Unmarshalable = {2}
    ObjCap = 2
    JsonCap = 1
    MaxFaults = 0
INVARIANT WellFormedOnParseError
