SPECIFICATION Spec
CONSTANTS
    None = None
    FirstFive <- MCFirstFive
    Task <- MCTask
    Config <- MCConfig
    Listing <- MCListing
    Archive <- MCArchive
    Online = {"B", "C"}
    Live = {"studentEval", "tunedEval"}
    Expired = {"eval1", "teacher2"}
    Starts <- NoStarts
    MaxReruns = 0
    MaxScripts = 2
    MaxFaults = 1
INVARIANT SummaryComplete
CHECK_DEADLOCK FALSE
