\* Two walks over any table, one row inserted or deleted meanwhile.
CONSTANTS
    Rows <- Mixed
    Clients = {1, 2}
    Tables <- Archives
    Asks <- Windows
    SecondLen = 2
    Now = 6
    Window = 3
    Limit = 1
    InnerLimit = 5
    BoundsTTL = 1
    QueryTTL = 2
    MaxTime = 1
    MaxWalks = 2
    MaxEvents = 1
SPECIFICATION FairSpec
INVARIANTS
    PagingInv
    PagesDescend
    WalkCovers
    DefaultReachesNewest
PROPERTIES
    WalkTerminates
CHECK_DEADLOCK FALSE
