CONSTANTS
    NURSERY_SIZE = 3
    MAX_SPACES = 3
    RATIO = 2
    Requests <- MCRequests

SPECIFICATION FairSpec

INVARIANTS
    TypeOK
    NeverOverflow
    RoomForNext
    RemsetAssertionHolds
    NurseryLargeEnough
    YoungerEmpty

PROPERTIES
    
    OldestOnlyGrows
    CollectionEnds
