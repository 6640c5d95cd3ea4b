CONSTANTS
    Main = main
    Dev = dev
    NoParent = noparent
    Late = {rel, task}
    Ignored = {task}
    Backends = {"pygit2", "cli"}
    InDirectories = {{}, {3}}
    MaxCL = 4
    MaxMerges = 1
    BatchSize = 2
    MaxFaults = 1
SPECIFICATION FairSpec
INVARIANTS
    TypeOK
    NothingPassedOver
    RecordedCommitsKept
PROPERTIES
    MergesHaveTheirSource
    SyncedUnlessStuck
\* A service that finds the branch of Main ahead of its database does not start.
CHECK_DEADLOCK FALSE
