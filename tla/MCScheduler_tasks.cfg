SPECIFICATION FairSpec
CONSTANTS
    NumWorkers = 2
    NumOpens = 2
    MaxTroubles = 1
    Tasks = {t1}
    NumRuns = 2
    Slots = 1
    MaxEdits = 2
INVARIANTS
    ListedHasData
    WorkerHasDatabase
    RunningIsOnItsWay
PROPERTIES
    RunsImplementRecord
    NotTwice
    DueIsServed
CHECK_DEADLOCK FALSE
