\* Every block of up to three constraints on every sample flight.
CONSTANTS
    Flights <- SampleFlights
    Blocks <- SampleBlocks
    CellWidth = 2
    MaxCells = 7
    MaxSet = 3
SPECIFICATION TestSpec
INVARIANTS
    ProbesLoseNoRow
    OneInstantForAll
    WithinThroughout
    MeasuresThePart
CHECK_DEADLOCK FALSE
