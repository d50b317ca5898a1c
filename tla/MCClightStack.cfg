CONSTANTS
    Programs <- AllPrograms
    NURSERY = 5
    MaxDepth = 3

SPECIFICATION Spec

INVARIANTS
    TypeOK
    LiveFresh
    FramesLinked
    RootsScannable
    WordsThere
    AllocPublished
