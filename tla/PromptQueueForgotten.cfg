SPECIFICATION Spec
CONSTANTS
    FlushBudget = 2
    MaxPrompts = 2
    MaxPosts = 2
    MaxFaults = 1
INVARIANTS
    ForgottenQueueStaysEmpty
CHECK_DEADLOCK FALSE
