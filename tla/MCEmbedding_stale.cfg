SPECIFICATION Spec
CONSTANTS
    Listings = {l1}
    Docs = {d1, d2}
    Workers = {w1, w2}
    None = None
    MaxTasks = 2
    MaxRetry = 1
    l1 = l1
    d1 = d1
    d2 = d2
    w1 = w1
    w2 = w2
INVARIANT ChangedDocumentReembeds
CHECK_DEADLOCK FALSE
