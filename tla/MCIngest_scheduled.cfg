\* The scheduled import on its own, dying up to three times at any statement.
CONSTANTS
    DayLen = 6
    MaxSegment = 6
    GroundGap = 1
    SubSeqGap = 1
    MaxStitchGap = 4
    WindowAir = 2
    MaxStitchSpeed = 1
    MinStitchSpeed = 0
    MaxPointSpeed = 2
    Aircraft = {"a", "b"}
    LastDay = 3
    Trace <- Crossing
    Procs = {"cron"}
    MaxRuns = 6
    MaxCrashes = 3
    MaxErrors = 0
    MaxFaults = 3
    MaxExpired = 0
SPECIFICATION FairSpec
PROPERTIES
    ReadersSeeTimeline
    EventuallyComplete
CHECK_DEADLOCK FALSE
