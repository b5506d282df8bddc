\* One aircraft with which nothing is in progress at the end of day 2, and an
\* operator who runs the days in any order.
CONSTANTS
    DayLen = 6
    MaxSegment = 6
    GroundGap = 1
    SubSeqGap = 1
    MaxStitchGap = 4
    WindowAir = 2
    MaxStitchSpeed = 1
    MinStitchSpeed = 0
    MaxPointSpeed = 2
    Aircraft = {"b"}
    LastDay = 3
    Trace <- Crossing
    Procs = {"cron", "manual"}
    MaxRuns = 4
    MaxCrashes = 0
    MaxErrors = 0
    MaxFaults = 0
    MaxExpired = 0
SPECIFICATION Spec
PROPERTIES
    CarryReplaced
CHECK_DEADLOCK FALSE
