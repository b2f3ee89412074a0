SPECIFICATION Spec
CONSTANTS
    FlushBudget = 2
    MaxPrompts = 2
    MaxPosts = 3
    MaxFaults = 1
PROPERTIES
    GivenUpAfterBudget
    InFlightEnds
CHECK_DEADLOCK FALSE
