SPECIFICATION Spec
CHECK_DEADLOCK FALSE
CONSTANTS
    BufferSize = 5
    Kinds = {"info", "noise", "warn", "long", "huge"}
    Drains = {"rpc", "pop"}
    MaxEntries = 3
    MaxDropped = 1
    EntrySpace = 3
    PacketSpace = 5
    Frame = 1
    MessageSize = 1
    CounterRange = 16
    MaxBundles = 1
    MaxOpens = 2
    MaxClears = 1
    Rules <- MCRules
    SizeOf <- MCSizeOf
    LevelOf <- MCLevelOf
    FlagsOf <- MCFlagsOf
    ModuleOf <- MCModuleOf
INVARIANTS
    ReadersSeeTheTail
    PopCountsAddUp
    NoSilentLoss

    
