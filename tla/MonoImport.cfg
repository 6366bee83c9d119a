SPECIFICATION ImportSpec
CONSTANTS
    FileSize = 6
    ChunkBytes = 2
    ReadSizes <- MCReadSizes
    TotalRetries = 3
    HonoursRange = TRUE
    Uses = {"reader", "file", "mono"}
    Locations <- MCLocations
    Newlines <- MCNewlines
    BufferSizes = {2, 3}
    SentenceLimits = {2, 4, 5}
    Corpora <- MCCorpora
    Texts <- MCTexts
    Chars <- MCChars
    MaxCharacters = 3
    Limits = {2, 3}
INVARIANTS
    BytesInOrder
    DownloadWhole
    SampleOfFile
    ParagraphsContiguous
    NothingLost
PROPERTIES
    ReadReturns
