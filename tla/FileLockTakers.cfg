SPECIFICATION Spec
CONSTANTS
    p1 = p1
    p2 = p2
    p3 = p3
    NoOwner = NoOwner
    MaxFailures = 0
    Proc <- ThreeProcs
    TryLock <- NoFaults
    Faults <- CrashOnly
INVARIANT MutualExclusion
CHECK_DEADLOCK FALSE
