\* Chunks of up to three rows, pages of four cells, bytes of two booleans, one fault.
CONSTANTS
    Columns <- MixedColumns
    ByteBits = 2
    TargetPageSize = 4
    MinChunk = 2
    FallbackRows = 2
    DictionaryLimit = 2
    SkipChunk = 2
    MaxRows = 3
    MaxBatch = 3
    MaxFaults = 1
SPECIFICATION Spec
INVARIANTS
    RoundTrip
    PruningFindsOrderedValues
    IndexesDescribePages
    CallsFillBatches
