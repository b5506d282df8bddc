SPECIFICATION Spec
CONSTANTS
    Partitions = {1, 2}
    Width = 1
    SettleDays = 3
    LastDay = 6
    Ingested = 5
    MaxBatches = 2
    MaxBackups = 2
    MaxFailures = 1
INVARIANTS DumpsComplete PassedOverIsBackedUp
CHECK_DEADLOCK FALSE
