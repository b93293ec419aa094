CONSTANTS
    Threads = 2
    SinkThreads = 2
    QueueDepth = 1
    BatchRows = 2
    Rows = 3
    RowGroupRows = 2
    MaxInFlight = 2
    HasTimeLimit = TRUE
    Kinds <- AllKinds
SPECIFICATION FairSpec
INVARIANTS
    RowsConserved
    SinkAccounted
    OkMeansDelivered
    SinksClosed
PROPERTIES
    Termination
