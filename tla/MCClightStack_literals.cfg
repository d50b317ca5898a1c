CONSTANTS
    Programs <- WithLiterals
    NURSERY = 4
    MaxDepth = 3

SPECIFICATION Spec

INVARIANTS
    WithinLimit
