CONSTANTS
    GenThreads = 1
    UploadThreads = 2
    QueueDepth = 1
    BatchRows = 1
    RowGroupRows = 2
    FileCap = 2
    Target = 4
    FileRetries = 1
    Faults <- WriteFaults
SPECIFICATION Spec
PROPERTIES
    LossesAreMadeUp
