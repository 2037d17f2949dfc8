CONSTANTS
    k1 = k1
    k2 = k2
    Keys = {k1, k2}
    MaxPuts = 2
    MaxGeneration = 3
    Durabilities = {"buffered", "sync_on_append"}
    PowerLossPossible = TRUE
    JournaledDirectory = TRUE
SPECIFICATION FairSpec
PROPERTIES
    ImplementsStore
    RecoveryCompletes
    OnlyPowerLossLoses
    OnlyPowerLossHides
