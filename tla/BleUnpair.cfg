SPECIFICATION Spec
CONSTANTS
    A = A
    B = B
    Key = Key
    VOICE = VOICE
    None = None
    Malformed = Malformed
    Remotes <- OneRemote
    NameOf <- OneName
    Targets = {}
    Usages <- Keys
    MaxCommands = 1
    MaxEvents = 0
INVARIANT
    UnpairForgets
CHECK_DEADLOCK FALSE
