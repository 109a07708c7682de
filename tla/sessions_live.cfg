SPECIFICATION FairSpec
CONSTANTS
    s1 = s1
    f1 = f1
    h1 = h1
    p1 = p1
    n1 = n1
    n2 = n2
    NoNumber = NoNumber
    Sessions = {s1, f1}
    Foreign = {f1}
    Calls = {}
    Handlers = {h1}
    Passes = {p1}
    Numbers = {n1, n2}
    WahaStatuses <- KnownStatuses
    MaxChanges = 2
    MaxFaults = 1
PROPERTIES
    StatusesConverge
    NumberIsBound
    OrphanIsRemoved
    WebhookIsRepaired
CHECK_DEADLOCK FALSE
