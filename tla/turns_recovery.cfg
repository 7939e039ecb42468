CONSTANTS
    t1 = t1
    t2 = t2
    f1 = f1
    f2 = f2
    none = none
    NoTurn = none
    Locals <- TwoLocals
    Foreign <- OneForeign
    Reviews <- Empty
    Steerable <- Empty
    ReceiptLimit = 8
    CanGetTurnState = TRUE
    MaxSuspends = 1
    MaxGaps = 1
    ServerRejects = FALSE
    Interactions = FALSE
SPECIFICATION Spec
SYMMETRY TurnSymmetry
CHECK_DEADLOCK FALSE
INVARIANTS
    TypeOK
    StartedAtMostOnce
    NoPromptLost
    WaitingIsStartable
    
    QuiescentAgreement
PROPERTIES
    NoOvertaking
    NeverAdvancesOverForeground
