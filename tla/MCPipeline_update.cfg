SPECIFICATION FairSpec
CONSTANTS
    MaxStageRetries = 2
    Questions = {q1}
    ChanCap = 2
    Slots = 1
    OwnerCmds = {"update"}
    Bound <- OneCommand
PROPERTIES
    UpdateStarts
CHECK_DEADLOCK FALSE
