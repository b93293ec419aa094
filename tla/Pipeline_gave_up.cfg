CONSTANTS
    GenThreads = 1
    UploadThreads = 1
    QueueDepth = 1
    BatchRows = 2
    RowsLimited = TRUE
    Rows = 6
    RowBound = 0
    HasDeadline = FALSE
    FileRetries = 0
    ShowProgress = TRUE
    Faults <- WriteFaults
SPECIFICATION FairSpec
PROPERTIES
    RunFailsOnceAllWritersGaveUp
CHECK_DEADLOCK FALSE
