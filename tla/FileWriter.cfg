\* Two columns, two rounds of batches of up to two rows, in a file and in a
\* buffer, with and without blocks after each group; one failure anywhere.
SPECIFICATION Spec
CONSTANTS
    NumCols = 2
    Limit = 2
    Int64Max = 5
    BlockSets = {{}, {"bloom"}, {"bloom", "index"}}
    Threaded = TRUE
    SplitBatches = FALSE
    MaxBatch = 2
    MaxRows = 4
    MaxFaults = 1
INVARIANTS
    TypeOK
    EveryValueOnce
    GroupsAreRectangular
    BlocksWhereRecorded
    OffsetIsLength
    AlignedGroupWithinLimit
    ClosedFileIsWhole
CHECK_DEADLOCK FALSE
