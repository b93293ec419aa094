CONSTANTS
    GenThreads = 1
    UploadThreads = 2
    QueueDepth = 1
    BatchRows = 1
    RowGroupRows = 2
    FileCap = 2
    Target = 5
    FileRetries = 1
    Faults <- UploadFaults
SPECIFICATION FairSpec
INVARIANTS
    GaugesPair
    TargetReached
    OvershootBounded
PROPERTIES
    Termination
CHECK_DEADLOCK FALSE
