SPECIFICATION FairSpec
CONSTANTS
    k1 = k1
    k2 = k2
    Codes <- TwoCodes
    MaxOps = 1
    MaxEvents = 1
CHECK_DEADLOCK FALSE
INVARIANTS
    TypeOK
    NothingForgotten
PROPERTY
    ReleaseReachesHost
