CONSTANTS
    None = None
    Kinds <- NamedKinds
    KindOrder <- MCKindOrder
    Configs <- MCConfigs
    Actions <- MCActions
    WorkerAliases <- MCWorkerAliases
    WorkerEnv <- MCGpuWorkers
    GpuWorkers <- MCGpuWorkers
    NameLength = 2
    MaxDependencies = 2
    TrainProjects = {"mozilla"}
    MaxDecisions = 2
SPECIFICATION Spec
INVARIANTS
    CachedIsSame
    DatasetsOnce
    NothingDangling
\* The last decision is made and its tasks have run.
CHECK_DEADLOCK FALSE
