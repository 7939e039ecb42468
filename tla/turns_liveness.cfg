CONSTANTS
    t1 = t1
    t2 = t2
    f1 = f1
    f2 = f2
    none = none
    NoTurn = none
    Locals <- TwoLocals
    Foreign <- Empty
    Reviews <- OtherLocal
    Steerable <- OneLocal
    ReceiptLimit = 8
    CanGetTurnState = TRUE
    MaxSuspends = 1
    MaxGaps = 0
    ServerRejects = TRUE
    Interactions = TRUE
SPECIFICATION FairSpec
CHECK_DEADLOCK FALSE
PROPERTIES
    FifoDrains
    LookupEnds
