CONSTANTS
    a = a
    b = b
    Threads = {a, b}
    Canonical = TRUE
    Receipts <- NoReceipts
    Limit = 2
    MaxEvents = 2
    MaxDrops = 1
    MaxSilent = 0
    MaxBad = 1
    MaxSockets = 1
    MaxRequests = 1
    MaxLeases = 0
SPECIFICATION FairSpec
CHECK_DEADLOCK FALSE
PROPERTIES
    RecoveryEnds
    EventuallyShown
