SPECIFICATION FairSpec
CONSTANTS
    Dirs = {"read", "write"}
    Sizes = {0, 3, 5}
    Capacities = {6}
    Seekable = {TRUE, FALSE}
    PendingBytes = 4
    MaxChunkSize = 2
    ExtendWindowDivisor = 2
    MaxRetries = 2
    Faults = {"linkdown"}
    PrematureTimeouts = FALSE
    MaxTransfers = 2
    MaxLosses = 2
    MaxInFlight = 3
INVARIANTS
    SurvivesLosses
PROPERTIES
    CompletionIsFinal
    BothEndsFinish
CHECK_DEADLOCK FALSE
