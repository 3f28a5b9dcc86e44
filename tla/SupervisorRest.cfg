SPECIFICATION FairSpec
CONSTANTS
    MaxRetries = 2
    Events <- Interruptions
INVARIANT StalledIsTold
PROPERTY ComesToRest
CHECK_DEADLOCK FALSE
