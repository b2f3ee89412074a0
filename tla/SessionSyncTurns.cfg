SPECIFICATION Spec
CONSTANTS
    MaxLog = 2
    MaxEpoch = 2
    MaxTurns = 1
    MaxFaults = 2
INVARIANTS
    Converged
    OwnPromptsShown
    ResyncHasDriver
PROPERTY ResyncCompletes
CHECK_DEADLOCK FALSE
