SPECIFICATION FairSpec
CONSTANTS
    i1 = i1
    r1 = r1
    Intents = {i1}
    Requests = {r1}
    Operators = {}
    NoIntent = NoIntent
    MaxStructures = 1
    ReconcilerWired = FALSE
PROPERTIES
    UncertainIsReconciled
