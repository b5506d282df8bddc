\* Three days ingested in order, then any one of them again.
CONSTANTS
    DayLen = 6
    MaxSegment = 6
    GroundGap = 1
    SubSeqGap = 1
    MaxStitchGap = 4
    WindowAir = 2
    MaxStitchSpeed = 1
    MinStitchSpeed = 0
    MaxPointSpeed = 2
    Aircraft = {"a", "b"}
    LastDay = 3
    Trace <- Crossing
    Procs = {"cron", "manual"}
    MaxRuns = 4
    MaxCrashes = 0
    MaxErrors = 0
    MaxFaults = 0
    MaxExpired = 0
SPECIFICATION FairSpec
PROPERTIES
    RerunSameRows
CHECK_DEADLOCK FALSE
