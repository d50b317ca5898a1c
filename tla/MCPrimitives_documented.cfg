CONSTANTS
    LOG = 2
    EW = 4
    WordBytes = 2
    Shifts <- MCShifts
    Arguments <- MCTogether

SPECIFICATION Spec
CHECK_DEADLOCK FALSE

INVARIANTS
    SomeAsDocumented
