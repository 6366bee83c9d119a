SPECIFICATION FairSpec
CONSTANTS
    Required <- MCRequired
    Modes <- MCModes
    Mounted <- MCMounted
    RetryExitStatus = {17, 128}
    MaxRun = 2
    MaxStep = 2
INVARIANTS
    ResumedFromOneRun
    NewestTaken
PROPERTIES
    NoStepBack
    TaskEnds
