CONSTANTS
    run1 = run1
    run2 = run2
    pinned = pinned
    fresh = fresh
    Runs <- TwoRuns
    RunIds <- TwoIds
    UploadThreads = 2
    files_per_folder = 2
    MaxFiles = 2
    Cutoff = 0
    Modes <- AllModes
    PageSize = 1
    LastDay = 1
    MaxNumbered = 3
    MaxUploads = 2
SYMMETRY Alike
SPECIFICATION BucketSpec
INVARIANTS
    OnlySameIdOverwrites
    FoldersPacked
    PartsExplained
    SweptClean
PROPERTIES
    SealedFoldersStay
    SparesTheFresh
