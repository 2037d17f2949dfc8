CONSTANTS
    HeaderSize = 2
    ChunkSize = 3
    Sizes = {3, 4, 5, 7}
    Defects = {"invalid_magic", "invalid_length", "checksum_mismatch", "invalid_payload"}
    MaxRecords = 3
SPECIFICATION FairSpec
INVARIANTS
    ReplayIsExact
    BufferIsBounded
    ReadyForAppend
PROPERTIES
    CompleteRecordsStay
    ReplayEnds
