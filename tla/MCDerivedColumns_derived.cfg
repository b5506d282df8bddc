\* Two flights and any three jobs that overlap, or two with one failure and one kill; three
\* flights and two jobs; and the stored form of 733 raw flights.
CONSTANTS
    SpatialTolerance = 1
    AltitudeTolerance = 100
    SpeedTolerance = 5
    TrackTolerance = 5
    Circle = 72
    AglTolerance = 50
    AglFraction = 4
    Tiles = {0, 1}
    OnLand = {1}
    Elevation <- Highland
    TileWidth = 4
    Workers = 2
    MaxRetries = 1
    Raws <- AllRaws
    Threshold = 30
    Airports = {"east", "west", "pad"}
    AirportAt <- Field
    MatchRadius = 1
    AglMatchMax = 100
    Flights = {1, 2, 3}
    Day <- Days
    Published <- Releases
    FileOf <- Country
    BatchSize = 2
    Loads <- SomeLoads
SPECIFICATION Spec
INVARIANTS
    ColumnsOfPath
    OneBatchAtRisk
    AirportsUpToDate
    TilesComplete
    CorrectionFollowsPressure
    SimplifiedWithinTolerance
CHECK_DEADLOCK FALSE
