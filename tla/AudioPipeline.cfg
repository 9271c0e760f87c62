SPECIFICATION FairSpec
CONSTANTS
    Capacity = 4
    Modulus = 16
    Origins = {14}
    FrameSize = 3
    ReadSize = 2
    Prefill = 2
    StuckLimit = 2
    MaxFrames = 2
    MaxSessions = 2
    MaxStalls = 1
    MaxHost = 2
INVARIANT
    TypeOK
PROPERTIES
    InOrder
    OwnSession
    IsQueue
    PlayedOut
    StreamGoesOn
CHECK_DEADLOCK FALSE
