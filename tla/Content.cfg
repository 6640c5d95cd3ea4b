CONSTANTS
    Backends = {"pygit2", "cli"}
    Kinds = {"small", "odd"}
    AutoDetect = TRUE
    Replacing = FALSE
    OtherPushes = TRUE
    BatchSize = 1
    MaxCL = 2
    MaxFaults = 1
SPECIFICATION Spec
INVARIANTS
    TypeOK
    TreeIsView
    PublishedPointersResolve
\* Everything may be submitted and pushed, or a commit be refused for ever.
CHECK_DEADLOCK FALSE
