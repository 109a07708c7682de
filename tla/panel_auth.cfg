SPECIFICATION Spec
CONSTANTS
    b1 = b1
    b2 = b2
    c1 = c1
    c2 = c2
    Tabs = {b1, b2}
    MaxRequests = 2
    Tokens = {t1, t2, t3}
    Calls = {c1, c2}
    MaxFaults = 1
SYMMETRY Symmetric
INVARIANTS
    OneTokenPerFamily
    LogoutHolds
PROPERTIES
    SessionLostForCause
CHECK_DEADLOCK FALSE
