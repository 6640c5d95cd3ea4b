CONSTANTS
    MaxCL = 2
    MaxCommands = 1
    MaxEvents = 0
SPECIFICATION FairSpec
PROPERTY CommandsAreRecorded
CHECK_DEADLOCK FALSE
