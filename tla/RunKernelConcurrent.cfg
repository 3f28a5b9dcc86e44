SPECIFICATION RebuildSpec
CONSTANTS
    p1 = p1
    p2 = p2
    r1 = r1
    r2 = r2
    k1 = k1
    A = A
    B = B
    NoKey = NoKey
    Proc <- TwoProcs
    Project <- OneProject
    Run <- TwoRuns
    ProjectOf <- Together
    Key <- OneKey
    Target <- StartAndFail
    MaxEvents = 3
SYMMETRY Interchangeable
INVARIANTS HistoryLegal KeyRecordedOnce AcknowledgedIsRecorded
INVARIANTS ReplayReproduces ProjectionIsHistory
PROPERTY ImplementsLifecycle
