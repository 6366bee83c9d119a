SPECIFICATION Spec
CONSTANTS
    Requests <- MCRequests
    Outputs <- MCOutputs
    Alignings = {"same", "reversed"}
    Weights = {24}
    Unit = 24
    Letters = {"a", "b", "g", "l", "m", "p", "t", "x", "y"}
    Lower <- MCLower
    OpaqueTags <- MCOpaqueTags
    VoidTags <- MCVoidTags
    InlineTags <- MCInlineTags
    InWordTags <- MCInWordTags
    IgnoredTags <- MCIgnoredTags
    Delimiters <- MCDelimiters
    SubstituteInlineTagsWithSpaces = TRUE
    MaxLengthBreak = 3
INVARIANTS SourceMarkup TranslationIsMarkup NothingLost TextKept AnnotationsHold MassKept
CHECK_DEADLOCK FALSE
