SPECIFICATION Spec
CONSTANTS
    MaxRetries = 2
    Events <- Deaths
INVARIANT RetriesBounded
PROPERTY FinishedIsFinal
CHECK_DEADLOCK FALSE
