CONSTANTS
    Keys = {k1, k2}
    Values = {v1}
    SectorCount = 3
    Slots = 2
    MaxEntries = 2
    Redundancies = {1, 2}
    GcModes = {"kAsManySectorsNeeded"}
    Recoveries = {"kLazy"}
    VerifyModes = {TRUE}
    Faults = {"torn", "erase"}
    Upgrade = FALSE
    MaxTransactions = 5
    MaxFaults = 1
    MaxPowerLosses = 1
    MaxMaintenance = 1
SPECIFICATION Spec
INVARIANTS
    CacheMatchesFlash
    CopiesInDistinctSectors
    AccountingMatchesFlash
    FreeSectorKept
PROPERTY
    IsAtomicMap
SYMMETRY Symmetry
CHECK_DEADLOCK FALSE
