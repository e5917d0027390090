SPECIFICATION Spec
CONSTANTS
    Dirs = {"read", "write"}
    Sizes = {0, 3, 5}
    Capacities = {2, 6}
    Seekable = {TRUE, FALSE}
    PendingBytes = 3
    MaxChunkSize = 2
    ExtendWindowDivisor = 2
    MaxRetries = 1
    Faults = {"prepare", "finalize", "read", "shortread", "write", "rpc", "cancel", "linkdown"}
    PrematureTimeouts = TRUE
    MaxTransfers = 1
    MaxLosses = 1
    MaxInFlight = 3
INVARIANTS
    OutputIsPrefix
    OkMeansStored
    WindowRespected
PROPERTIES
    CompletionIsFinal
CHECK_DEADLOCK FALSE
