\* Two filters edited while three calls are under way and the map moves.
CONSTANTS
    Places = {"corner", "field"}
    Drawn = {"loop"}
    At <- AirspacesAt
    MaxFilters = 2
    MaxEdits = 2
    MaxLookups = 1
    Flights <- Starts
    Inside <- FlightsIn
    DayLen = 2
    WindowDays = 1
    Limit = 1
    Views = {"near", "wide"}
    Ranges <- Dates
    SharedRange <- LinkDates
    MaxMoves = 2
    MaxCalls = 3
SPECIFICATION Spec
INVARIANTS
    OneMode
    OneWalk
    NoChipMeansCurrent
    OfferedUntilFirstWindow
CHECK_DEADLOCK FALSE
