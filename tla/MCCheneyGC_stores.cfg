CONSTANTS
    NURSERY_SIZE = 3
    MAX_SPACES = 3
    RATIO = 2
    Requests = {3}
    Ids = {1, 2, 3}
    MaxFrames = 1
    Sizes = {1}
    Kinds = {TRUE}
    MayStore <- YoungOrOlder

SPECIFICATION GraphSpec

INVARIANTS
    RememberedSetComplete

PROPERTIES
    PolicyRefined
    GraphPreserved
