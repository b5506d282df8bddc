\* A date that is released again with a file less, then with none, imports that an operator
\* starts, one beside them, failing requests and batches, and processes that die.
CONSTANTS
    LastDate = 1
    NewYear = 1
    PageSize = 2
    Lookback = 2
    KeepTraces = TRUE
    Files <- FewerOrNone
    MaxReissues = 2
    MaxReimports = 2
    MaxBeside = 1
    MaxErrors = 2
    MaxCrashes = 2
SPECIFICATION Spec
INVARIANTS
    BatchReadsWholeRelease
