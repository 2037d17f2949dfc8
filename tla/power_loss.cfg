CONSTANTS
    k1 = k1
    k2 = k2
    Keys = {k1, k2}
    MaxPuts = 3
    MaxGeneration = 3
    Durabilities = {"sync_on_append"}
    PowerLossPossible = TRUE
    JournaledDirectory = TRUE
SPECIFICATION Spec
SYMMETRY KeySymmetry
INVARIANTS
    TypeOK
    PromisesKept
    MemoryMatchesFiles
    CountsAreExact
    NeverRefused
    NoDanglingSegment
PROPERTIES
    PublishedSegmentsImmutable
