SPECIFICATION Spec
CONSTANTS
    MaxLog = 3
    MaxEpoch = 1
    MaxTurns = 0
    MaxFaults = 2
INVARIANT TurnEndFiresOnce
CHECK_DEADLOCK FALSE
