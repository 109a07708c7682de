SPECIFICATION FairSpec
CONSTANTS
    k1 = k1
    k2 = k2
    k3 = k3
    Roteiros <- Visits
    Status <- SomeStatus
    Keys = {k1, k2, k3}
    Iniciais = {k1}
    MaxPedidos = 1
    MaxImprevistos = 2
INVARIANTS
    SecretConfirmed
PROPERTIES
    ConnectionIsSeen
    ScreenConverges
    LastKeyWarned
CHECK_DEADLOCK FALSE
