SPECIFICATION FairSpec
CONSTANTS
    LayerCount = 2
    SaveDelay = 1
    RestartDelay = 4
    MaxEdits = 1
    MaxOps = 3
    MaxFaults = 1
INVARIANTS
    TypeOK
    NothingUnsaved
PROPERTIES
    RestartKeepsEdits
    FactoryAfterErase
    SavedInTheEnd
CHECK_DEADLOCK FALSE
