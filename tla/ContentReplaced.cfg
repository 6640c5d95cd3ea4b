CONSTANTS
    Backends = {"pygit2"}
    Kinds = {"small", "odd"}
    AutoDetect = TRUE
    Replacing = TRUE
    OtherPushes = FALSE
    BatchSize = 1
    MaxCL = 3
    MaxFaults = 1
SPECIFICATION Spec
INVARIANTS
    TreeIsView
\* Everything may be submitted and pushed, or a commit be refused for ever.
CHECK_DEADLOCK FALSE
