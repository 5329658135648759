SPECIFICATION AnalysesSpec
CONSTANTS
    FileObjects <- MCFileObjects
    AofObjects <- MCAofObjects
    FlameObjects <- MCFlameObjects
    OptionSets <- MCOptionSets
    SeparatorLists <- MCSeparatorLists
    MaxDepths <- MCMaxDepths
    Weights <- MCWeights
    TopNs <- MCTopNs
    MaxObjects = 4
    MaxInt = 7
    Now = 5
    MsPerSec = 2
    NsPerMs = 2
    Int64 = 64
    DefaultSep = 20
    Others <- OthersPart
    TrimThreshold = 3
    bigNodeThreshold = 2
    MaxAof = 3
    MaxFaults = 1
INVARIANTS
    FirstN
    GroupsCounted
    LargestReported
    FilteredInOrder
    FlameAddsUp
    AofRebuilds
CHECK_DEADLOCK FALSE
