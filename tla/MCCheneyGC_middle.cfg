CONSTANTS
    NURSERY_SIZE = 2
    MAX_SPACES = 3
    RATIO = 2
    Requests = {2}
    Ids = {1, 2, 3, 4}
    MaxFrames = 1
    Sizes = {1}
    Kinds = {TRUE}
    MayStore <- OlderToMiddle

SPECIFICATION GraphSpec

PROPERTIES
    GraphPreserved
