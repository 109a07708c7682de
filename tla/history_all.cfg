SPECIFICATION Spec
CONSTANTS
    Rows <- SomeRows
    MaxPageSize = 2
    MaxLinhas = 3
INVARIANTS
    MergedSkipsNothing
CHECK_DEADLOCK FALSE
