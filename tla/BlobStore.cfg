SPECIFICATION Spec
CONSTANTS
    Bytes = {0, 1}
    PartitionSize = 4
    FlashWriteSize = 2
    WriteBufferSize = 3
    Readers = {r1}
    MixedValues = FALSE
    MaxWrite = 3
    MaxOpens = 2
    MaxFaults = 2
INVARIANTS
    BlobIsWhole
    ClosedBlobSurvives
    FlashAheadIsErased
    ReadersSeeStableBlob
