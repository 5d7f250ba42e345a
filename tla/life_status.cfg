SPECIFICATION FairSpec
CONSTANTS
    w1 = w1
    c1 = c1
    s1 = s1
    Workspaces = {w1}
    Calls = {c1}
    Secrets = {s1}
    NoSecret = NoSecret
    NoWorkspace = NoWorkspace
    Limit = 1
PROPERTIES
    SavingNeedsNoRestart
