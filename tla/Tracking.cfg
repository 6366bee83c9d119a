SPECIFICATION Spec
CONSTANTS
    None = None
    FirstFive <- MCFirstFive
    Task <- MCTask
    Config <- MCConfig
    Listing <- MCListing
    Archive <- MCArchive
    Online = {"B", "C"}
    Live = {"studentEval", "eval2"}
    Expired = {"eval1", "teacher2"}
    Starts <- MCStarts
    MaxReruns = 1
    MaxScripts = 2
    MaxFaults = 1
INVARIANTS
    MetricsInPlace
    NothingSilentlyLost
CHECK_DEADLOCK FALSE
