CONSTANTS
    GenThreads = 2
    UploadThreads = 2
    QueueDepth = 1
    BatchRows = 1
    RowsLimited = TRUE
    Rows = 3
    RowBound = 0
    HasDeadline = FALSE
    FileRetries = 1
    ShowProgress = FALSE
    Faults <- AllFaults
SPECIFICATION Spec
INVARIANTS
    RowConservation
    WrittenRowsAccounted
    SentRowsAccounted
    FilesAccounted
