SPECIFICATION Spec
CONSTANTS
    Objects <- MCThreeDatabases
    Sizes = {1}
    MaxInserts = 3
    TopNs <- MCAll
    MaxDepths <- MCAll
INVARIANTS
    NamesHaveDatabase
CHECK_DEADLOCK FALSE
