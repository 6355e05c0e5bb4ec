SPECIFICATION FairSpec
CONSTANTS
    Listings = {l1}
    Docs = {d1, d2}
    Workers = {w1, w2}
    None = None
    MaxTasks = 3
    MaxRetry = 1
    l1 = l1
    d1 = d1
    d2 = d2
    w1 = w1
    w2 = w2
INVARIANTS
    TypeOK
    NoSilentStaleness
PROPERTY Converges
CHECK_DEADLOCK FALSE
