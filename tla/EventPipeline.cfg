CONSTANTS
    MaxCL = 1
    MaxMessages = 4
    MaxLen = 3
    BatchSize = 1
    ScanFactor = 2
    MaxFaults = 2
SPECIFICATION FairSpec
INVARIANTS
    TypeOK
    NoEventForgotten
PROPERTIES
    EveryEventTried
