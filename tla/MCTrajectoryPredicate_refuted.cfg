\* What comments of the code say of cells, of trajectory_within and of stored measures; each is
\* violated. Run with -continue.
CONSTANTS
    Flights <- SampleFlights
    Blocks <- SampleBlocks
    CellWidth = 2
    MaxCells = 7
    MaxSet = 2
SPECIFICATION TestSpec
INVARIANTS
    CornersFound
    WithinAtEveryInstant
    StoredMeasureStands
CHECK_DEADLOCK FALSE
