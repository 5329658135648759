SPECIFICATION Spec
CONSTANTS
    MaxLit = 2
    LongMark = 2
    LzfMin = 4
    MaxFaults = 1
    CountMod = 8
    MaxValue = 64
    MaxEntries = 3
    PageSize = 100
    ExpireMax = 20000
    ZipMapBig = 4
    Objects <- MCStreams
INVARIANT
    StreamIdsKept
CHECK_DEADLOCK FALSE
