SPECIFICATION Spec
CONSTANTS
    i1 = i1
    r1 = r1
    r2 = r2
    o1 = o1
    o2 = o2
    Intents = {i1}
    Requests = {r1, r2}
    Operators = {o1, o2}
    NoIntent = NoIntent
    MaxStructures = 1
    ReconcilerWired = TRUE
SYMMETRY Symmetry
INVARIANTS
    TypeOK
    HaltStopsOrders
PROPERTIES
    ResumeNeedsReconciliation
