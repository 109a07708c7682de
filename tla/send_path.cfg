SPECIFICATION FairSpec
CONSTANTS
    r1 = r1
    r2 = r2
    r3 = r3
    k1 = k1
    NoKey = NoKey
    Requests = {r1, r2, r3}
    Keys = {k1}
    KeyOf <- OneKey
    Incoming = {}
    FromPhone = {}
    Faults <- AllFaults
INVARIANTS
    AtMostOneDelivery
    OpenDeliveryHoldsKey
    SameAnswer
    AnswerWasDelivered
    RefusedNeverDelivered
    NoInvisibleSend
PROPERTIES
    PromiseKept
    RequestSettles
CHECK_DEADLOCK FALSE
