CONSTANTS
    MaxCL = 3
    ClKinds = {"file", "empty", "marker"}
    Backend = "pygit2"
    PushAfterEveryCommit = FALSE
    BatchSize = 2
    PushBatchSize = 2
    ErrorRetryThreshold = 1
    Registered = FALSE
    Faults = TRUE
    RefFails = TRUE
    MaxCrashes = 1
SPECIFICATION Spec
CHECK_DEADLOCK FALSE
INVARIANTS
    TypeOK
    OneCommitPerChangelist
    DatabaseAgrees
    ErrorsOnlyAtHead
PROPERTY
    ImplementsMirror
