CONSTANTS
    NURSERY_SIZE = 3
    MAX_SPACES = 4
    RATIO = 2
    Requests = {3}
    Ids = {1, 2}
    MaxFrames = 1
    Sizes = {1}
    Kinds = {TRUE, FALSE}
    MayStore <- YoungOrOlder

SPECIFICATION ExportFairSpec

INVARIANTS
    ExportIsCopy

PROPERTIES
    CallsEnd
