CONSTANTS
    GenThreads = 3
    BLOCK = 2
    start = 1
    step = 2
    max_counter = 17
    MaxU64 = 100
    Rows = 5
    Credits = 1
    Nulls = TRUE
SPECIFICATION Spec
INVARIANTS
    Unique
    WasteBounded
    AdmittedRunsThrough
