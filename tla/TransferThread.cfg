SPECIFICATION FairSpec
CONSTANTS
    Producers = {p1, p2}
    Sessions = {s1, s2}
    MaxClientContexts = 2
    MaxServerContexts = 2
    MaxStarts = 2
    MaxCalls = 4
INVARIANTS
    TypeOK
    SlotHasOneHolder
    NoDanglingHandler
    OneActiveContext
PROPERTIES
    CallReturns
CHECK_DEADLOCK FALSE
