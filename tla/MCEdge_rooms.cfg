SPECIFICATION EdgeSpec
CONSTANTS
    Clients = {v1, v2}
    Rooms = {r1, r2}
    Streams = {s1, s2}
    Askers = {k1}
    RateLimit = 2
    Minute = 3
    Buffer = 1
    MaxMessages = 2
    MaxTime = 6
    All = All
    Here = Here
    Chats = {h1}
    Pollers = {l1, l2}
    NoSite = NoSite
    MaxUpdates = 1
    MaxBotFaults = 0
    Requests = {q1}
    Relays = {x1}
    NumTunnels = 1
    NoWriter = NoWriter
    Talkers = {d1, d2}
    Limit = 4
    MaxRounds = 2
    MaxCallsOnce = 2
    MaxSends = 1
    MaxChatFaults = 1
INVARIANTS
    SwitchedAreHeard
CHECK_DEADLOCK FALSE
