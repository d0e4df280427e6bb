SPECIFICATION FairSpec
CONSTANTS
    MaxStageRetries = 2
    Questions = {q1}
    ChanCap = 3
    Slots = 1
    OwnerCmds = {"wake"}
    Bound <- CommandCrashAndStop
PROPERTIES
    BuildEnds
    StopTerminates
    InterruptedBuildResumes
    AnsweredResumes
CHECK_DEADLOCK FALSE
