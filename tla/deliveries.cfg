SPECIFICATION FairSpec
CONSTANTS
    d1 = d1
    Deliveries = {d1}
    MaxResends = 1
    MaxAttempts = 2
    Threshold = 2
    MaxEdits = 2
    MaxFaults = 1
INVARIANTS
    SuccessIsTrue
    AbandonedWasTried
    DisabledAfterFailures
PROPERTIES
    JobIsSeenThrough
CHECK_DEADLOCK FALSE
