SPECIFICATION Spec
CONSTANTS
    Nodes = {1, 2, 3}
    procs = {p1, p2}
    Owners = {o1, o2}
    NoOwner = NoOwner
    Plans <- MCPlans
    Executed <- Runs3
    Results <- MCResults
    MaxRuns = 2
    MaxVersion = 6
    MaxDisturbances = 2
INVARIANTS TypeOK DependenciesFirst CompletedIsDelivered LeaseFences WithinCap PlanIsSound
PROPERTY NeverAgain
SYMMETRY Symm
CHECK_DEADLOCK FALSE
