SPECIFICATION FairSpec
CONSTANTS
    f = f
    q = q
    none = none
    Direction = "git_to_p4"
    Backend = "pygit2"
    Files = {f, q}
    NoFile = none
    Quoted = {q}
    Merges = TRUE
    PushAfterEveryCommit = TRUE
    BatchSize = 2
    LogLimit = 9
    Imported = TRUE
    Faults = TRUE
    MaxUser = 2
    MaxDev = 2
    MaxDeletes = 1
    MaxAccidents = 1
PROPERTIES
    SubmittedUnlessRefused
CHECK_DEADLOCK FALSE
