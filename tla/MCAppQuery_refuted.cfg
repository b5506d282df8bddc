\* What the web application does not keep: run with -continue.
CONSTANTS
    Places = {"corner", "field"}
    Drawn = {"loop"}
    At <- AirspacesAt
    MaxFilters = 2
    MaxEdits = 2
    MaxLookups = 2
    Flights <- Starts
    Inside <- FlightsIn
    DayLen = 2
    WindowDays = 1
    Limit = 1
    Views = {"near", "wide"}
    Ranges <- Dates
    SharedRange <- LinkDates
    MaxMoves = 2
    MaxCalls = 3
SPECIFICATION Spec
INVARIANTS
    ErrorOfLastCall
    MoreOfTheSameQuery
    LoadingWhileUnderWay
    AllReachable
    MenuOfItsPlace
CHECK_DEADLOCK FALSE
