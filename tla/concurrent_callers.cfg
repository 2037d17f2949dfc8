CONSTANTS
    k1 = k1
    k2 = k2
    t1 = t1
    t2 = t2
    t3 = t3
    Keys = {k1, k2}
    Threads = {t1, t2}
    MaxPuts = 2
    MaxGeneration = 3
    Durabilities = {"buffered"}
    PowerLossPossible = TRUE
    JournaledDirectory = TRUE
    FlushThreshold = 2
    StopPossible = TRUE
SPECIFICATION DbSpec
SYMMETRY KeyAndThreadSymmetry
INVARIANTS
    ReadsAreCurrent
    ReadsNeverFail
PROPERTIES
    DrivesEngine
