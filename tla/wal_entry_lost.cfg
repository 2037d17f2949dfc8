CONSTANTS
    k1 = k1
    k2 = k2
    Keys = {k1, k2}
    MaxPuts = 2
    MaxGeneration = 2
    Durabilities = {"sync_on_append"}
    PowerLossPossible = TRUE
    JournaledDirectory = FALSE
SPECIFICATION Spec
SYMMETRY KeySymmetry
INVARIANTS
    PromisesKept
