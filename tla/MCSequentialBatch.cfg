\* Every mix of two kinds of column; up to two openings or page loads fail.
CONSTANTS
    Pages <- Layout
    Selected = {1, 2, 4}
    Kinds = {"plain", "packed", "coded"}
    BatchSize = 3
    MaxFaults = 2
    Persistent = FALSE
SPECIFICATION Spec
INVARIANTS
    CountsAgree
    ColumnsInStep
PROPERTIES
    ImplementsRowStream
