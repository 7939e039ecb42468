CONSTANTS
    t1 = t1
    t2 = t2
    f1 = f1
    f2 = f2
    none = none
    NoTurn = none
    Locals <- TwoLocals
    Foreign <- OneForeign
    Reviews <- Empty
    Steerable <- TwoLocals
    ReceiptLimit = 8
    CanGetTurnState = FALSE
    MaxSuspends = 1
    MaxGaps = 0
    ServerRejects = FALSE
    Interactions = FALSE
SPECIFICATION Spec
SYMMETRY TurnSymmetry
CHECK_DEADLOCK FALSE
INVARIANTS
    NeverRunTwice
    NoPromptLost
PROPERTIES
    ReturnedTextGoesFirst
