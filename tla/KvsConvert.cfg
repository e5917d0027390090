CONSTANTS
    Keys = {k1, k2}
    Values = {v1}
    SectorCount = 3
    Slots = 2
    MaxEntries = 2
    Redundancies = {1}
    GcModes = {"kAsManySectorsNeeded"}
    Recoveries = {"kLazy"}
    VerifyModes = {FALSE}
    Faults = {}
    Upgrade = TRUE
    MaxTransactions = 6
    MaxFaults = 0
    MaxPowerLosses = 1
    MaxMaintenance = 1
SPECIFICATION Spec
PROPERTY
    IsAtomicMap
CHECK_DEADLOCK FALSE
