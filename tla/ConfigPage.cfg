SPECIFICATION FairSpec
CONSTANTS
    Requests <- PageRequests
    Extra <- DataUnits
    NoRequest = NoRequest
    FifoSize = 3
    AccSize = 2
    Parts = 2
    BufSize = 4
    BigDocs <- LastBig
    MaxEdits = 2
    MaxEvents = 2
    MaxWaiting = 1
INVARIANTS
    TypeOK
    CommitIsOwn
PROPERTIES
    EditsKept
    KeepsPromise
    CallsEnd
    ScreenCatchesUp
CHECK_DEADLOCK FALSE
