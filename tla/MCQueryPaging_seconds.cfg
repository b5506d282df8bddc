\* Two walks while batches change the table: the seconds in which pages are cut.
CONSTANTS
    Rows <- Mixed
    Clients = {1, 2}
    Tables <- Archives
    Asks <- Windows
    SecondLen = 2
    Now = 6
    Window = 3
    Limit = 1
    InnerLimit = 5
    BoundsTTL = 1
    QueryTTL = 2
    MaxTime = 1
    MaxWalks = 2
    MaxEvents = 1
SPECIFICATION Spec
INVARIANTS
    WalkComplete
CHECK_DEADLOCK FALSE
