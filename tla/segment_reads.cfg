CONSTANTS
    Series = {1, 2}
    KeySize <- MCKeySize
    Times = {1, 2, 3}
    QueryTimes = {0, 1, 2, 3, 4}
    MaxSamples = 2
    MaxBlocks = 2
    MaxBlockPayload = 4
    MaxIndexPayload = 6
    MaxPuts = 4
    MaxSegments = 3
    MaxDamage = 1
SPECIFICATION Spec
INVARIANTS
    GetIsExact
    LatestIsExact
    RangeIsExact
    SeriesAreExact
    DamageIsContained
    OnlyDamageOrSizeFails
