CONSTANTS
    None = None
    DecoderYml <- MCDecoderYml
    Hypotheses <- MCHypotheses
    RemovePercent = 30
    AlnChunkLines = 3
    ShortlistMax = 1
    Vocabulary <- MCVocabulary
    Inputs <- MCInputs
    Score <- MCScore
    PoolChunk = 4
    MaxAhead = 1
SPECIFICATION Spec
INVARIANTS
    BestOfItsLine
    NothingLeftOut
    WorstLeftOut
    LinksOfTheirLine
\* The training data is written, or a task failed.
CHECK_DEADLOCK FALSE
