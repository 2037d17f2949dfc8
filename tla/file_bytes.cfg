CONSTANTS
    ByteBits = 3
    Polynomial = 48
    MaxRecordPayload = 19
    MaxBlockPayload = 19
    MaxManifestPayload = 19
    MaxIndexPayload = 40
    MaxSamples = 2
    MaxBlocks = 2
    MaxFiles = 2
    Kinds = {"wal", "segment", "manifest"}
    Inputs <- MCInputs
    Bursts <- MCBursts
SPECIFICATION Spec
INVARIANTS
    OnlyDamageRefuses
    DamageIsDetected
PROPERTIES
    WritesAreAtomic
