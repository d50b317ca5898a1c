CONSTANTS
    LOG = 2
    EW = 4
    WordBytes = 2
    Shifts <- MCShifts
    Arguments <- MCArguments

SPECIFICATION Spec
CHECK_DEADLOCK FALSE

INVARIANTS
    
    
    FloatsRight
    StringsRight
