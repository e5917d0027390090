SPECIFICATION
    Spec
CONSTANTS
    WqCapacity = 2
    MaxWorkItems = 4
    kMaxTimeout = 2
    TickTypeModulus = 4
    Delays = {0, 2, 5}
    TimerQueueLength = 8
    MaxTimerCalls = 3
    MaxThreads = 3
    RegionSize = 32
    Alignment = 2
    PoisonOffset = 0
    BucketSizes <- MCBucketSizes
    MaxRequest = 8
    Bundles <- MCBundles
    FactoryRoot <- MCFactoryRoot
    MaxTargetPayload = 1
    SelfVerification = FALSE
    None = None
    MaxRpcs = 8
INVARIANTS
    ContextCleanedUpOnce
    AllocationsAreDisjoint
    FreeMemoryIsListed
    InactiveIsClean
PROPERTIES
    NotificationIsLatchedFlag
    AcceptedWorkIsRun
    TimerKeepsAppointments
    OnlyVerifiedBundlesApplied
CHECK_DEADLOCK FALSE
