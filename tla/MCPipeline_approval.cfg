SPECIFICATION Spec
CONSTANTS
    MaxStageRetries = 2
    Questions = {q1}
    ChanCap = 2
    Slots = 1
    OwnerCmds = {"wake"}
    Bound <- Undisturbed
PROPERTIES
    ApprovalWaits
CHECK_DEADLOCK FALSE
