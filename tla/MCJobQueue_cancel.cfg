SPECIFICATION Spec
CONSTANTS
    NumJobs = 1
    Workers = {w1}
    Requests = {2}
    Bound <- Undisturbed
PROPERTIES
    CancelStands
CHECK_DEADLOCK FALSE
