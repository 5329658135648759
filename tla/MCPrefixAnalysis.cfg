SPECIFICATION Spec
CONSTANTS
    Objects <- MCObjects
    Sizes = {1, 2}
    MaxInserts = 3
    TopNs <- MCTopNs
    MaxDepths <- MCMaxDepths
INVARIANTS
    TypeOK
    CountsEveryPrefix
    WellLinked
    WalkAsserts
    ReportOfLargest
PROPERTIES
    Terminates
CHECK_DEADLOCK FALSE
