SPECIFICATION Spec
CONSTANTS
    n1 = n1
    n2 = n2
    n3 = n3
    n4 = n4
    ghost = ghost
    Declared <- MCDeclared
    Graphs <- MCGraphs
INVARIANTS
    OrderRespectsDeps
    VerdictIsExact
CHECK_DEADLOCK FALSE
