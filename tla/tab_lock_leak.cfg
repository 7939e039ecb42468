SPECIFICATION Spec
CONSTANTS
    tab1 = tab1
    tab2 = tab2
    s1 = s1
    s2 = s2
    NoSession = NoSession
    Tabs <- MCTabs
    Sessions <- MCSessions
    MaxRequests = 3
INVARIANTS
    HeldElsewhereIsElsewhere
CHECK_DEADLOCK FALSE
