SPECIFICATION FairSpec
CONSTANTS
    a1 = a1
    k1 = k1
    k2 = k2
    s1 = s1
    s2 = s2
    Apps = {a1}
    Keys = {k1, k2}
    InitialKeys = {k1}
    FirstApp = a1
    Dated = {k1}
    ScopesOf <- AllOrSending
    Sessions = {s1, s2}
    OwnerOf <- Owner
    Served <- FewRoutes
    Requests = {q1}
    Ops = {o1, o2}
    MaxTentativas = 2
INVARIANTS
    CutIsImmediate
    LastKeyKept
PROPERTIES
    EffectsAreAuthorised
    AnswerTellsEffects
    CacheConverges
CHECK_DEADLOCK FALSE
