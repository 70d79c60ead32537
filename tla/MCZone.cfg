CONSTANTS
    ZoneSize = 392
    ZoneHdr = 56
    BlockHdr = 40
    Head = 8
    MinFragment = 64
    Requests <- MCRequests
SPECIFICATION FairSpec
INVARIANTS
    TypeOK
    HeapSound
    RoverListed
    ErrorOnlyWhenFull
PROPERTIES
    ScanEnds
    ImplementsArena
CHECK_DEADLOCK FALSE
