\* The releases of the turn of the year are found by one scan.
CONSTANTS
    LastDate = 3
    NewYear = 3
    PageSize = 2
    Lookback = 0
    KeepTraces = FALSE
    Files <- OneFile
    MaxReissues = 0
    MaxReimports = 0
    MaxBeside = 0
    MaxErrors = 0
    MaxCrashes = 0
SPECIFICATION Spec
INVARIANT
    OldestFirst
