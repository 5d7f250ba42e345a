SPECIFICATION Spec
CONSTANTS
    a = a
    b = b
    Orders = {a}
    c1 = c1
    Old <- NoOld
    PageSize = 1
    Closers = {c1}
    MaxAge = 0
INVARIANTS
    TypeOK
    StreamFlagHasOwner
    OpenGateIsRecent
PROPERTIES
    ReadmissionNeedsSnapshot
    ImplementsProjection
