SPECIFICATION Spec
CONSTANTS
    MaxStageRetries = 2
    Questions = {q1}
    ChanCap = 2
    Slots = 1
    OwnerCmds = {"wake", "update", "build", "monitor", "pause", "chat", "task"}
    Bound <- OneOfEach
INVARIANTS
    TypeOK
    WorkerInv
    BreakerHolds
PROPERTIES
    RowSpecImplemented
CHECK_DEADLOCK FALSE
