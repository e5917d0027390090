SPECIFICATION
    Spec
CONSTANTS
    WqCapacity = 2
    MaxWorkItems = 1
    kMaxTimeout = 2
    TickTypeModulus = 4
    Delays = {0, 2, 5}
    TimerQueueLength = 8
    MaxTimerCalls = 1
    MaxThreads = 1
    RegionSize = 12
    Alignment = 2
    PoisonOffset = 0
    BucketSizes <- MCBucketSizes
    MaxRequest = 2
    Bundles <- MCBundles
    FactoryRoot <- MCFactoryRoot
    MaxTargetPayload = 1
    SelfVerification = FALSE
    None = None
    MaxRpcs = 8
INVARIANTS
    AppliedOnRequest
CHECK_DEADLOCK FALSE
