\* Byte arrays in pages of two rows.
CONSTANTS
    Columns <- PrunedColumns
    ByteBits = 2
    TargetPageSize = 8
    MinChunk = 4
    FallbackRows = 4
    DictionaryLimit = 4
    SkipChunk = 2
    MaxRows = 4
    MaxBatch = 4
    MaxFaults = 0
SPECIFICATION Spec
INVARIANT PruningIsSafe
