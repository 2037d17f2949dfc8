CONSTANTS
    k1 = k1
    k2 = k2
    t1 = t1
    t2 = t2
    t3 = t3
    Keys = {k1, k2}
    Threads = {t1, t2, t3}
    MaxPuts = 3
    MaxGeneration = 2
    Durabilities = {"buffered"}
    PowerLossPossible = FALSE
    JournaledDirectory = TRUE
    FlushThreshold = 2
    StopPossible = FALSE
CHECK_DEADLOCK FALSE
SPECIFICATION DbFairSpec
INVARIANTS
    BelowThresholdAtRest
PROPERTIES
    EveryCallReturns
