CONSTANTS
    Regs <- MCRegs
    Max_long = 1
    Bound = 5
    Exponents <- MCExponents

SPECIFICATION Spec
CHECK_DEADLOCK FALSE

INVARIANTS
    TypeOK


    
