SPECIFICATION Spec
CONSTANTS
    Jobs = {"parallel", "mono"}
    Datasets = {1, 2, 3}
    Contents <- MCContents
    ParallelTexts = {"b"}
    Tabbed = {"tab"}
    Limits = {0, 2, 3}
    SampleSize = 2
INVARIANTS
    PairsAligned
    OutputDistinct
