CONSTANTS
    SIZE = 5
    Pow2 <- MCPow2

SPECIFICATION Spec
CHECK_DEADLOCK FALSE

INVARIANTS
    TypeOK
    LoopInvariant
    

PROPERTIES
    ImplementsRuntime
