CONSTANTS
    Callers = {c1, c2}
    NoThread = NoThread

SPECIFICATION FairSpec
CHECK_DEADLOCK FALSE

INVARIANTS
    TypeOK
    RuntimeHeld
    InputInPlace
    OwnHeap
    RanOnce

PROPERTIES
    CallReturns
