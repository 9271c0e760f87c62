SPECIFICATION Spec
CONSTANTS
    k1 = k1
    k2 = k2
    Codes <- OneCode
    MaxOps = 0
    MaxEvents = 2
CHECK_DEADLOCK FALSE
INVARIANT
    TransportComesBack
