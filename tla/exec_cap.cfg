SPECIFICATION Spec
CONSTANTS
    i1 = i1
    i2 = i2
    r1 = r1
    r2 = r2
    Intents = {i1, i2}
    Requests = {r1, r2}
    Operators = {}
    NoIntent = NoIntent
    MaxStructures = 1
    ReconcilerWired = FALSE
INVARIANTS
    StructureCap
