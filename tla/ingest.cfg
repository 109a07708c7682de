SPECIFICATION IngestFairSpec
CONSTANTS
    m1 = m1
    h1 = h1
    h2 = h2
    Requests = {}
    Incoming = {m1}
    FromPhone = {m1}
    Events <- MessageLife
    Handlers = {h1, h2}
    MaxPosts = 2
    IngestFaults <- AllFaults
INVARIANTS
    EffectsAtMostOnce
PROPERTIES
    EventSettles
CHECK_DEADLOCK FALSE
