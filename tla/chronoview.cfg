CONSTANTS
    app = app
    h1 = h1
    h2 = h2
    i1 = i1
    i2 = i2
    Gui = gui
    database_ = database
    Processes = {gui, app}
    Handles = {database, h1, h2}
    Impls = {i1, i2}
    process <- MCProcess
    Series <- MCSeries
    Characters <- MCCharacters
    Demo = 1
    Typed <- MCTyped
    MeasurementCapacity = 2
    TagsCapacity = 8
    Threshold = 2
    MaxSamples = 3
    MaxDamage = 1
SPECIFICATION ViewFairSpec
INVARIANTS
    OneEngine
    OwnedOnce
    MetadataIsCurrent
    SelectionIsStable
    EditorNamesSelection
PROPERTIES
    LockIsReleased
