CONSTANTS
    GenThreads = 2
    UploadThreads = 2
    QueueDepth = 1
    BatchRows = 2
    RowsLimited = TRUE
    Rows = 3
    RowBound = 0
    HasDeadline = FALSE
    FileRetries = 1
    ShowProgress = FALSE
    Faults <- WriteFaults
SPECIFICATION Spec
INVARIANTS
    AbandonedRowsAreMadeUp
