SPECIFICATION FairSpec
CONSTANTS
    MaxCalls = 4
    MaxFaults = 3
INVARIANTS
    TypeOK
    LatestCallOwns
    NeverStranded
    AuthenticatedIsUp
PROPERTIES
    Reconnects
    ConnectIsAnswered
CHECK_DEADLOCK FALSE
