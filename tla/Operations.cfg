CONSTANTS
    MaxCL = 2
    MaxCommands = 1
    MaxEvents = 2
SPECIFICATION FairSpec
INVARIANTS
    TypeOK
    CutoverIsComplete
    CheckpointIsBehind
PROPERTIES
    RepairWorks
\* Everything may be submitted and mirrored, and nobody runs a command.
CHECK_DEADLOCK FALSE
