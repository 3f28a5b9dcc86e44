SPECIFICATION FairSpec
CONSTANTS
    p1 = p1
    p2 = p2
    p3 = p3
    NoOwner = NoOwner
    MaxFailures = 2
    Proc <- ThreeProcs
    TryLock <- OneSweep
    Faults <- CrashAndRecycle
INVARIANT AloneWhileLive
PROPERTIES NoStolenLock OrphanReclaimed ContenderLeaves
CHECK_DEADLOCK FALSE
