CONSTANTS
    GenThreads = 3
    BatchRows = 2
    Quota = 5
    Credits = 2
SPECIFICATION FairSpec
INVARIANTS
    QuotaConserved
PROPERTIES
    LeavesOnEmpty
    AllReturn
    LedgerSpec
