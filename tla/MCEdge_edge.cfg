SPECIFICATION EdgeSpec
CONSTANTS
    Clients = {v1, v2}
    Rooms = {r1, r2}
    Streams = {s1, s2}
    Askers = {k1}
    RateLimit = 2
    Minute = 3
    Buffer = 1
    MaxMessages = 2
    MaxTime = 6
    All = All
    Here = Here
    Chats = {h1}
    Pollers = {l1, l2}
    NoSite = NoSite
    MaxUpdates = 2
    MaxBotFaults = 2
    Requests = {q1}
    Relays = {x1}
    NumTunnels = 2
    NoWriter = NoWriter
    Talkers = {d1, d2}
    Limit = 4
    MaxRounds = 2
    MaxCallsOnce = 2
    MaxSends = 2
    MaxChatFaults = 1
INVARIANTS
    EdgeTypeOK
    NothingLeftOpen
    RateHolds
    UpdatesHandled
    FramesPaired
    HistoryWellFormed
CHECK_DEADLOCK FALSE
