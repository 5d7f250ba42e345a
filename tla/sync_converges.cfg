SPECIFICATION FairSpec
CONSTANTS
    a = a
    b = b
    Orders = {a, b}
    Old <- BIsOld
    PageSize = 1
    Closers = {}
    MaxAge = 0
PROPERTIES
    ProjectionConverges
