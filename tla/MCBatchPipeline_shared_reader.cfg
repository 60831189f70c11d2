\* One fill or decoding fails.
CONSTANTS
    RowCounts <- Wraps
    NumCols = 2
    Threads = 2
    BatchSize = 2
    MaxFaults = 1
SPECIFICATION Spec
INVARIANT OneTaskPerColumnReader
