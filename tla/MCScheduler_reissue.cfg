\* A date that is done is released again.
CONSTANTS
    LastDate = 2
    NewYear = 1
    PageSize = 2
    Lookback = 0
    KeepTraces = FALSE
    Files <- SameFiles
    MaxReissues = 1
    MaxReimports = 0
    MaxBeside = 0
    MaxErrors = 0
    MaxCrashes = 0
SPECIFICATION Spec
INVARIANT
    AllCandidatesFound
