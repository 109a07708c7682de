SPECIFICATION FairSpec
CONSTANTS
    Rows <- SomeRows
    MaxPageSize = 2
    MaxLinhas = 3
INVARIANTS
    NothingRepeated
    NothingSkipped
PROPERTIES
    TraversalEnds
CHECK_DEADLOCK FALSE
