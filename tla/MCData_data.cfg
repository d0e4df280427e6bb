SPECIFICATION DataSpec
CONSTANTS
    Writers = {w1, w2}
    Files = {f1, f2}
    TextFiles = {f1}
    MaxVersions = 1
    MaxOps = 3
    MaxFailures = 1
    Requests = {r1, r2}
    Ids = {i1}
    List = List
    Accounts = {n1}
    Hooks = {h1}
    MaxTries = 3
    MaxEvents = 2
    MaxRequests = 2
    MaxChanges = 1
    MaxLosses = 1
    Payers = {q1, q2}
    Subscriptions = {s1}
    Checkouts = {k1}
    MaxPayCalls = 4
    MaxPayFaults = 2
SYMMETRY AlikeWriters
INVARIANTS
    DataTypeOK
    RowHasFile
    NumberNamesOneText
    FreshUnlessOvertaken
    LoggedOnce
    TwinsOnlyIfRaced
    RowsTellTheTruth
PROPERTIES
    OverwrittenIsKept
CHECK_DEADLOCK FALSE
