SPECIFICATION Spec
CONSTANTS
    p1 = p1
    p2 = p2
    Proc <- TwoProcs
    Stamp <- StallOnly
    MaxRetried = 1
SYMMETRY Interchangeable
INVARIANT RetriesCounted
INVARIANT DecidedIsSignalled
