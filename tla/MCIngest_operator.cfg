\* The scheduled import and an operator who reruns any date at any time; one
\* batch fails or one process dies, and the carry of day 1 expires at any purge.
CONSTANTS
    DayLen = 6
    MaxSegment = 6
    GroundGap = 1
    SubSeqGap = 1
    MaxStitchGap = 4
    WindowAir = 2
    MaxStitchSpeed = 1
    MinStitchSpeed = 0
    MaxPointSpeed = 2
    Aircraft = {"a", "b"}
    LastDay = 3
    Trace <- TakenOver
    Procs = {"cron", "manual"}
    MaxRuns = 5
    MaxCrashes = 1
    MaxErrors = 1
    MaxFaults = 1
    MaxExpired = 1
SPECIFICATION Spec
INVARIANTS
    GoodDaysComplete
    GoodCarry
    GoodCounts
CHECK_DEADLOCK FALSE
