\* Two imports work on the same date at the same time.
CONSTANTS
    LastDate = 1
    NewYear = 1
    PageSize = 2
    Lookback = 0
    KeepTraces = FALSE
    Files <- OneFile
    MaxReissues = 0
    MaxReimports = 0
    MaxBeside = 1
    MaxErrors = 0
    MaxCrashes = 0
SPECIFICATION Spec
INVARIANT
    BatchAlwaysReadsWholeRelease
