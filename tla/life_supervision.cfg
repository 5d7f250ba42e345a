SPECIFICATION FairSpec
CONSTANTS
    w1 = w1
    w2 = w2
    c1 = c1
    s1 = s1
    Workspaces = {w1, w2}
    Calls = {c1}
    Secrets = {s1}
    NoSecret = NoSecret
    NoWorkspace = NoWorkspace
    Limit = 1
INVARIANTS
    TypeOK
    ConnectionCap
PROPERTIES
    DeletedIsDisconnected
