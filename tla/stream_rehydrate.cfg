CONSTANTS
    a = a
    b = b
    Threads = {a, b}
    Canonical = TRUE
    Receipts <- NoReceipts
    Limit = 2
    MaxEvents = 3
    MaxDrops = 1
    MaxSilent = 1
    MaxBad = 1
    MaxSockets = 1
    MaxRequests = 2
    MaxLeases = 1
SPECIFICATION Spec
CHECK_DEADLOCK FALSE
INVARIANTS ReadyIsObserved
