SPECIFICATION FairSpec
CONSTANTS
    Notices = {n1}
    k1 = k1
    k2 = k2
    k3 = k3
    Keys = {k1, k2, k3}
    Senders <- MCSenders
    Capacity = 2
    Retries = 1
    MaxRestarts = 1
CHECK_DEADLOCK FALSE
INVARIANTS
    TypeOK
    OwnApp
    OneLoop
    Reachable
    Remembered
PROPERTIES
    Resolved
    TakesOver
