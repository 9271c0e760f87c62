SPECIFICATION FairSpec
CONSTANTS
    A = A
    B = B
    Key = Key
    VOICE = VOICE
    None = None
    Malformed = Malformed
    Remotes <- TwoRemotes
    NameOf <- OwnNames
    Targets <- PageTargets
    Usages <- Keys
    MaxCommands = 2
    MaxEvents = 2
INVARIANTS
    TypeOK
    KeysFollowReports
    VoiceIsReleasable
    LedTellsTruth
PROPERTIES
    BoundWasConnected
    BoundComesBack
CHECK_DEADLOCK FALSE
