CONSTANTS
    GenThreads = 2
    UploadThreads = 2
    QueueDepth = 1
    BatchRows = 2
    RowsLimited = TRUE
    Rows = 3
    RowBound = 0
    HasDeadline = TRUE
    FileRetries = 1
    ShowProgress = TRUE
    Faults <- AllFaults
SPECIFICATION FairSpec
INVARIANTS
    IInv
    OkMeansDrained
    CleanRunIsExact
PROPERTIES
    QuotaDrainedByLastGenerator
    LedgerSpec
    Termination
