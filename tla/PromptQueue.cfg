SPECIFICATION Spec
CONSTANTS
    FlushBudget = 2
    MaxPrompts = 2
    MaxPosts = 2
    MaxFaults = 2
INVARIANTS
    TypeOK
    Conserved
    NeverRunsTwice
    OneDrainPerEnd
    InFlightBacked
CHECK_DEADLOCK FALSE
