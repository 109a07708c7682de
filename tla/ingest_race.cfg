SPECIFICATION IngestSpec
CONSTANTS
    m1 = m1
    h1 = h1
    h2 = h2
    Requests = {}
    Incoming = {m1}
    FromPhone = {m1}
    Events <- TwoAcks
    Handlers = {h1, h2}
    MaxPosts = 1
    IngestFaults <- NoFaults
PROPERTIES
    StatusNeverRegresses
CHECK_DEADLOCK FALSE
