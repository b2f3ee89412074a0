SPECIFICATION DesktopSpec
CONSTANTS
    MaxLog = 4
    MaxEpoch = 2
    MaxTurns = 0
    MaxFaults = 2
    Sessions = {home, other}
    FirstSession = home
    MaxStarts = 3
    MaxOutput = 2
    MaxEvents = 1
    Apps = {first, second}
    Ports = {p1, p2}
    DefaultPort = p1
    AnyPort = any
    NoApp = nobody
    MaxDaemons = 3
INVARIANTS
    TypeOK
    Converged
    NoOrphanShell
    ExitedIsGone
    RunningIsAlive
    TerminalOfSession
    OneShellOnScreen
    OneDaemonPerApp
    FailureLeavesNothing
CHECK_DEADLOCK FALSE
