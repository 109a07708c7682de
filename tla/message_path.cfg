SPECIFICATION PathSpec
CONSTANTS
    r1 = r1
    r2 = r2
    k1 = k1
    h1 = h1
    NoKey = NoKey
    Requests = {r1, r2}
    Keys = {k1}
    KeyOf <- OneKey
    Incoming = {}
    FromPhone = {}
    Events <- SendEvents
    Handlers = {h1}
    MaxPosts = 1
    Faults <- AllFaults
    IngestFaults <- PathIngestFaults
INVARIANTS
    AnsweredSendHasOneRow
    ProcessedMessageIsRecorded
PROPERTIES
    OnlyAcksMoveStatus
    RevokedStaysRevoked
CHECK_DEADLOCK FALSE
