\* Requests of up to five predicates over four flights.
CONSTANTS
    RowKeys <- FourKeys
    RowOf <- Four
    Upper <- Uppers
    Lower <- Lowers
    CellWidth = 2
    MaxCells = 5
    Rows <- FourKeys
    Leaves <- SampleLeaves
    Limit = 1
    InnerLimit = 3
    MaxChildren = 2
    MaxNodes = 5
SPECIFICATION Spec
INVARIANTS
    MatchesAsDocumented
CHECK_DEADLOCK FALSE
