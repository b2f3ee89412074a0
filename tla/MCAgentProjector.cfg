SPECIFICATION Spec
CONSTANTS
    Profiles <- MCProfiles
INVARIANTS
    TypeOK
    LogIsShown
    ShownPrefix
    ShownComplete
    AbandonedHidden
    BubbleOfOneStep
    EndsHandled
CHECK_DEADLOCK FALSE
