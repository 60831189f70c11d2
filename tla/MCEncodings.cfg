\* The hybrid: groups of three values, up to nine values put, calls for up to
\* four.  The others: bytes of four bits, blocks of eight values.
CONSTANTS
    Values = {0, 1}
    Group = 3
    LongestRun = 100
    Streams <- OtherStreams
    MaxValues = 9
    MaxRepeat = 4
    Jobs <- SomeJobs
    ByteBits = 4
    BufferBytes = 4
    IntBits = 8
    WordBits = 16
    BlockSize = 8
    MiniBlocks = 2
    HeaderRoom = 40
    LengthsRoom = 60
    LengthBytes = 2
    Tile = 2
    Hash <- SomeHash
    Load = 2
    Margin = 3
    Start = 3
    SkipStep = 2
    CopyMax = 8
    CopyRest = 6
    SnappyBlock = 16
    OffsetMax = 15
SPECIFICATION EitherSpec
INVARIANTS
    EncodedIsGiven
    DeliveredInOrder
    ShortMeansEnd
    LevelsAgree
    EncodingsRoundTrip
    CutStreamsAreRefused
CHECK_DEADLOCK FALSE
