\* Two pool threads, two columns, five row groups through a four-slot ring;
\* up to two of the fills and decodings may fail, at any point.
CONSTANTS
    RowCounts <- Wraps
    NumCols = 2
    Threads = 2
    BatchSize = 2
    MaxFaults = 2
SPECIFICATION Spec
INVARIANTS
    BatchIntact
    ArgsStable
PROPERTIES
    ImplementsRowStream
