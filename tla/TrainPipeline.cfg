SPECIFICATION FairSpec
CONSTANTS
    Logs <- MCLogs
    Metrics <- MCMetrics
    WandBGiven = TRUE
    DatasetsKnown = TRUE
    PipeSize = 2
    Tasks <- MCTasks
    LinesOf <- MCLinesOf
    Unaligned <- MCUnaligned
    ModelConfigs <- MCModelConfigs
    TrainingConfigs <- MCTrainingConfigs
INVARIANTS
    EveryTrainingLine
    ValidationAssembled
    RowsForTrainer
PROPERTIES
    TaskEnds
