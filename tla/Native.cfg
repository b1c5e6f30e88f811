SPECIFICATION Spec
CONSTANTS
    Pictures <- MCPictures
    Shapes <- MCShapes
    MaxLines = 3
    SkipsAnyhow = FALSE
    LastSymbol = 4
    MaxLength = 3
    MaxTree = 6
    Lookahead = 2
    ByteBits = 2
    MinGetBits = 4
    Counts <- MCCounts
    MaxScan = 2
    LastCoef = 5
    Split = 1
    LastRun = 2
    MaxCorrBits = 8
    Originals <- MCOriginals
    Intervals = {0, 2}
    Sources <- MCSources
    Requests <- MCRequests
    DctSize = 2
    Segments = 6
    Interval = 2
    Numbers = 5
    MaxWire = 2
    MaxAhead = 1
    MaxBurst = 3
    Losses = {"marker", "bogus", "data", "repeat"}
    Conversions <- MCConversions
CHECK_DEADLOCK FALSE
INVARIANTS
    TurboJpegTypeOK
    SoundCallSucceeds
    OwnPicture
    ErrorExplained
    DecodesWhatWasCoded
    CheapestCode
    ScansAddUp
    OutputsAreComposed
    TurnsThePicture
    LossIsContained
    PictureConverted
PROPERTIES
    ImplementsRowReader
