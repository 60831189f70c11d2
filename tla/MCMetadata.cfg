\* Schemas of up to five elements, page indexes of two pages, two filters,
\* files of up to three pages.
CONSTANTS
    MaxNesting = 8
    MaxCount = 20
    MaxTypes = 15
    MaxElements = 5
    ColumnTypes <- FewTypes
    MaxPages = 2
    MaxHeld = 2
    MaxNulls = 1
    IntBits = 3
    ByteMax = 1
    BoundLength = 2
    IndexedValues <- Indexed
    FloatNumber <- SomeNumbers
    Documents <- SomeDocuments
    NewerFields <- NewerOnes
    Filters = {f, g}
    Hashes = {1, 6, 11}
    BlockBytes = 2
    Salt <- SomeSalt
    HalfBits = 2
    PositionBits = 1
    MaxBytes = 4
    Layouts <- SomeLayouts
    DataCells <- SomeCells
    FooterCells = 2
    Speculative = 3
    HeaderWindow = 1
    MaxWindow = 6
    MaxCalls = 3
SPECIFICATION OneSpec
INVARIANTS
    MetadataIsRead
    CutMetadataIsRefused
    SchemaSurvives
    IndexFindsPages
    NoFalseNegatives
    OnlyWholeFilesOpen
    PagesAreTheFiles
CHECK_DEADLOCK FALSE
