SPECIFICATION FairSpec
CONSTANTS
    NumJobs = 2
    Workers = {w1, w2}
    Requests = {0, 2}
    Bound <- StopAndFaults
INVARIANTS
    OneRunner
    StopsLoseNothing
PROPERTIES
    ResultStands
    JobsEnd
CHECK_DEADLOCK FALSE
