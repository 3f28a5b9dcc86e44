SPECIFICATION FairSpec
CONSTANTS
    a = a
    b = b
    c = c
    s1 = s1
    s2 = s2
    Jobs = {a, b, c}
    NoJob = NoJob
    Sweeps = {w1, w2}
    MaxAttempts = 2
    Sessions = {s1, s2}
    SessionOf <- MCSessionOf
    Hooked = {a}
    Caps = {1, 2}
    MaxDeaths = 1
INVARIANTS SessionAlone Saturated NoFalseVerdict PendingIsSwept
PROPERTIES EndedStays StartsInOrder WaitingStarts HookAnswered
CHECK_DEADLOCK FALSE
