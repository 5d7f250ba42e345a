SPECIFICATION Spec
CONSTANTS
    a = a
    b = b
    Orders = {a}
    Old <- NoOld
    PageSize = 1
    Closers = {}
    MaxAge = 1
INVARIANTS
    DivergenceBlocksExecution
