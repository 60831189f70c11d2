\* A nullable column with a write_batch_size of two.
CONSTANTS
    Columns <- SplitColumns
    ByteBits = 2
    TargetPageSize = 8
    MinChunk = 4
    FallbackRows = 4
    DictionaryLimit = 4
    SkipChunk = 2
    MaxRows = 3
    MaxBatch = 3
    MaxFaults = 0
SPECIFICATION Spec
INVARIANT ReadsWhatWasWritten
