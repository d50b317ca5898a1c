CONSTANTS
    NURSERY_SIZE = 3
    MAX_SPACES = 2
    RATIO = 2
    Requests = {3}
    Ids = {1, 2}
    MaxFrames = 2
    Sizes = {1, 2}
    Kinds = {TRUE, FALSE}
    MayStore <- YoungOrOlder

SPECIFICATION GraphSpec

INVARIANTS
    TypeOK
    SharingPreserved

PROPERTIES
    GraphPreserved
