\* One year of releases listed in pages of two; the import dies once.
CONSTANTS
    LastDate = 5
    NewYear = 1
    PageSize = 2
    Lookback = 0
    KeepTraces = FALSE
    Files <- OneFile
    MaxReissues = 0
    MaxReimports = 0
    MaxBeside = 0
    MaxErrors = 0
    MaxCrashes = 1
SPECIFICATION FairSpec
INVARIANTS
    OldestFirst
    AllCandidatesFound
PROPERTIES
    EventuallyIngested
