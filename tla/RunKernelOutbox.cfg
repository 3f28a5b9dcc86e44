SPECIFICATION OutboxSpec
CONSTANTS
    p1 = p1
    p2 = p2
    r1 = r1
    r2 = r2
    k1 = k1
    A = A
    B = B
    NoKey = NoKey
    Proc <- OneProc
    Project <- TwoProjects
    Run <- TwoRuns
    ProjectOf <- Apart
    Key <- NoKeys
    Target <- NoTargets
    MaxEvents = 2
    Publisher <- TwoProcs
    Limit = 2
    Rank <- AThenB
INVARIANT NoEventLost
INVARIANT DeliveredInOrder
