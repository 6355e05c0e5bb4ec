SPECIFICATION Spec
CONSTANTS
    Ids = {l1, l2, l3}
    Photos = {i1}
    Scores = {1, 2}
    None = None
    searchLimit = 2
    ServiceURLExpiry = 1
    MaxTime = 3
    l1 = l1
    l2 = l2
    l3 = l3
    i1 = i1
SYMMETRY MCSymmetry
INVARIANTS
    TypeOK
    SearchRanked
    SearchComplete
PROPERTY
    ServedInTime
CHECK_DEADLOCK FALSE
