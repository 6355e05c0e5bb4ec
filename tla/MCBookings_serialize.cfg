SPECIFICATION Spec
CONSTANTS
    Listings = {l2}
    Users = {owner, hirer}
    OwnerOf <- MCOwnerOf
    BookingIds = {1, 2}
    Handlers = {h1, h2}
    Days = {1, 2}
    Todays = {1, 2}
    Blank = Blank
    NoRequest = NoRequest
    Seed <- MCNoSeed
    l1 = l1
    l2 = l2
    owner = owner
    hirer = hirer
    h1 = h1
    h2 = h2
INVARIANT ConcurrentCreatesSerialize
CHECK_DEADLOCK FALSE
