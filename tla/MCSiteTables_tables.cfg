SPECIFICATION TablesSpec
CONSTANTS
    Callers = {c1, c2}
    Tables = {t1}
    Paths = {p1}
    Providers = {o1}
    NoTable = NoTable
    MaxCalls = 3
    MaxFaults = 1
SYMMETRY AlikeCallers
INVARIANTS
    TablesTypeOK
    NothingDangles

    
CHECK_DEADLOCK FALSE
