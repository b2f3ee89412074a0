SPECIFICATION PartsSpec
CONSTANTS
    Keys = {s1, s2}
    MaxRuns = 4
    FeedSessions = {a, b}
    MaxItemsPerSlice = 1
    MaxChars = 3
    MaxArrivals = 3
    home = home
    other = other
    agent = agent
    bash = bash
    Jobs = {agent, bash}
    Agents = {agent}
    TaskSessions <- MCSessions
    SessionOf <- MCSessionOf
    NoSession = none
    MaxCalls = 2
    MaxSwitches = 2
    MaxFailures = 1
INVARIANTS
    RunnerTypeOK
    OneCallPerKey
    NoRequestForgotten
    EveryCallRequested
    BatcherTypeOK
    PendingIsScheduled
    GroupsLossless
    RunningIsPolled
    AgentEndSticks
PROPERTIES
    RequestsServed
    AppliedInOrder
    EverythingHandled
    RunningSettles
CHECK_DEADLOCK FALSE
