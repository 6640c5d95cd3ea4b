SPECIFICATION Spec
CONSTANTS
    f = f
    g = g
    none = none
    Direction = "bidirectional"
    Backend = "pygit2"
    Files = {f, g}
    NoFile = none
    Quoted = {}
    Merges = FALSE
    PushAfterEveryCommit = TRUE
    BatchSize = 2
    LogLimit = 2
    Imported = TRUE
    Faults = TRUE
    MaxUser = 3
    MaxDev = 2
    MaxDeletes = 0
    MaxAccidents = 1
INVARIANTS
    TypeOK
    NoEcho
    RepeatsNeedAccidents
    ReverseCheckpointBacked
    RowsJoinSameChange
    ConflictIsOpen
PROPERTIES
    RemoteOnlyGrows
    ConflictStopsBranch
    ReverseImplementsMirror
CHECK_DEADLOCK FALSE
