SPECIFICATION Spec
CONSTANTS
    Profiles <- MergeProfiles
INVARIANT NoSecondBubble
CHECK_DEADLOCK FALSE
