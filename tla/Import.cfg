CONSTANTS
    MaxCL = 6
    Workers = 2
    ChunkSize = 2
    Interval = 2
    MaxFaults = 1
SPECIFICATION FairSpec
INVARIANTS
    TypeOK
    WrittenInOrder
    NothingPassedOver
PROPERTIES
    EverythingImported
\* An import that has nothing left to do is over.
CHECK_DEADLOCK FALSE
