SPECIFICATION FairSpec
CONSTANTS
    Run = {1, 2}
    Explicit = {1}
    Verdicts = {"completed"}
    MaxSpawns = 3
    MaxDeaths = 2
INVARIANTS QueuedOnce
PROPERTIES LeavesSettled CancelKept NotRespawned Served
CHECK_DEADLOCK FALSE
