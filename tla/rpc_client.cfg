CONSTANTS
    MaxSockets = 2
    MaxRequests = 3
    SettledLimit = 1
SPECIFICATION FairSpec
CHECK_DEADLOCK FALSE
INVARIANTS
    TypeOK
    LateResponseIgnored
PROPERTIES
    ReplacementUndisturbed
    RequestSettles
    ConnectSettles
    KeepsContract
