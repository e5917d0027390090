CONSTANTS
    Keys = {k1, k2}
    Values = {v1}
    SectorCount = 3
    Slots = 1
    MaxEntries = 2
    Redundancies = {1}
    GcModes = {"kOneSector", "kAsManySectorsNeeded"}
    Recoveries = {"kManual"}
    VerifyModes = {TRUE}
    Faults = {"torn", "written"}
    Upgrade = TRUE
    MaxTransactions = 4
    MaxFaults = 1
    MaxPowerLosses = 1
    MaxMaintenance = 1
SPECIFICATION FairSpec
INVARIANT
    TransactionIdsAreUnique
PROPERTY
    EveryCallReturns
CHECK_DEADLOCK FALSE
