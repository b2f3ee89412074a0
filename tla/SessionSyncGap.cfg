SPECIFICATION Spec
CONSTANTS
    MaxLog = 3
    MaxEpoch = 1
    MaxTurns = 0
    MaxFaults = 2
INVARIANT ResumesWithoutGap
CHECK_DEADLOCK FALSE
