SPECIFICATION TerminalSpec
CONSTANTS
    Sessions = {home}
    FirstSession = home
    MaxStarts = 1
    MaxOutput = 0
    MaxEvents = 1
INVARIANT ClosingEndsShells
CHECK_DEADLOCK FALSE
