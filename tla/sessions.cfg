SPECIFICATION Spec
CONSTANTS
    s1 = s1
    f1 = f1
    c1 = c1
    h1 = h1
    p1 = p1
    n1 = n1
    NoNumber = NoNumber
    Sessions = {s1, f1}
    Foreign = {f1}
    Calls = {c1}
    Handlers = {h1}
    Passes = {p1}
    Numbers = {n1}
    WahaStatuses <- WithUnknown
    MaxChanges = 1
    MaxFaults = 1
PROPERTIES
    DeletedStaysDeleted
    AnsweredSessionKept
    ForeignUntouched
CHECK_DEADLOCK FALSE
