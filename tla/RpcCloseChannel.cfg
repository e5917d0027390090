SPECIFICATION Spec
CONSTANTS
    ClientCalls = {c1, c2}
    Responder = l
    ServerCalls = {s1}
    Rpcs = {"bidi"}
    Methods = {"bidi"}
    ClientStreams = {"bidi"}
    ServerStreams = {"bidi"}
    Channels = {"ch", "ch2"}
    MaxCallId = 2
    MaxStarted = 2
    MaxInFlight = 1
    MaxTasks = 2
    MaxLosses = 1
    QuietClose = FALSE
INVARIANTS
    CallsListedIffActive
