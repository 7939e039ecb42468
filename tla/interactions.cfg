SPECIFICATION Spec
CONSTANTS
    a1 = a1
    q2 = q2
    q1 = q1
    t1 = t1
    Approvals <- MCApprovals
    Questions <- MCQuestions
    Turns <- MCTurns
    TurnOf <- MCTurnOf
    MaxLosses = 1
    MaxGaps = 1
    MaxAnswers = 2
INVARIANTS
    TypeOK
    BusyIsInFlight
    BusyAnswersShown
    OpenIsShown
    ApprovalShownIsOpen
CHECK_DEADLOCK FALSE
SYMMETRY QuestionSymmetry
