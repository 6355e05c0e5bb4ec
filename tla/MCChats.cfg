SPECIFICATION Spec
CONSTANTS
    Users = {owner, hirer}
    Listings = {l1, l2}
    OwnerOf <- MCOwnerOf
    Handlers = {h1, h2}
    None = None
    Seed <- MCNoSeed
    MaxRows = 3
    MaxTime = 3
    l1 = l1
    l2 = l2
    owner = owner
    hirer = hirer
    h1 = h1
    h2 = h2
SYMMETRY MCListingSymmetry
INVARIANTS
    TypeOK
    InboxUpToDate
    InboxNamesMessage
    DuplicatesBounded
    ReadMeansListed
PROPERTIES
    InboxNeverGoesBack
    ReadOnce
CHECK_DEADLOCK FALSE
