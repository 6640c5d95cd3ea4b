CONSTANTS
    MaxCL = 2
    ClKinds = {"file", "nested", "empty"}
    Backend = "cli"
    PushAfterEveryCommit = TRUE
    BatchSize = 2
    PushBatchSize = 1
    ErrorRetryThreshold = 1
    Registered = FALSE
    Faults = TRUE
    RefFails = TRUE
    MaxCrashes = 1
SPECIFICATION FairSpec
CHECK_DEADLOCK FALSE
INVARIANT
    HistoryIsWhole
PROPERTIES
    SyncedUnlessNested
