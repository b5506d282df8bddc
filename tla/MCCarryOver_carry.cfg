\* Four days run in any order, four runs, any pattern of coverage on any day.
CONSTANTS
    DayLen = 4
    MaxSegment = 4
    GroundGap = 1
    SubSeqGap = 1
    MaxStitchGap = 3
    WindowAir = 2
    MaxStitchSpeed = 1
    MinStitchSpeed = 0
    MaxPointSpeed = 2
    Days <- FourDays
    DayTraces <- Traces
    MaxRuns = 4
SPECIFICATION Spec
INVARIANTS
    IInv
    SettleWindow
    FlightsCapped
    CarriedFlightExtended
    RunFlightsDisjoint
    WalkComputesSplit
PROPERTIES
    OldRowsUntouched
CHECK_DEADLOCK FALSE
