SPECIFICATION MCSpec
CONSTANTS
    r1 = r1
    r2 = r2
    s1 = s1
    t1 = t1
    Recorders = {r1, r2}
    Gates = {full}
    Specs = {s1}
    Trees = {t1, t2}
    MaxAttempts = 2
    MaxElapsedSeconds = 5
    MaxTotalTokens = 5
    StallThreshold = 2
    MaxRecords = 3
    MCNumbers = {1, 2, 3}
    MCKinds = {"plain"}
    Attempts <- MCAttempts
INVARIANTS
    WithinLimits
CHECK_DEADLOCK FALSE
