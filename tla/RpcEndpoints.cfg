SPECIFICATION FairSpec
CONSTANTS
    ClientCalls = {c1, c2}
    Responder = l
    ServerCalls = {s1}
    Rpcs = {"bidi", "other"}
    Methods = {"bidi"}
    ClientStreams = {"bidi"}
    ServerStreams = {"bidi"}
    Channels = {"ch"}
    MaxCallId = 2
    MaxStarted = 2
    MaxInFlight = 1
    MaxTasks = 2
    MaxLosses = 1
    QuietClose = TRUE
INVARIANTS
    CallsListedIffActive
    OneCallPerRpc
    EndsOnce
    PacketsReachTheirCall
PROPERTIES
    StreamIsKilled
