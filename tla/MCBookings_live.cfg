SPECIFICATION FairSpec
CONSTANTS
    Listings = {l1}
    Users = {owner, hirer}
    OwnerOf <- MCOwnerOf
    BookingIds = {1, 2, 3, 4}
    Handlers = {h1, h2}
    Days = {1, 2}
    Todays = {1}
    Blank = Blank
    NoRequest = NoRequest
    Seed <- MCTwoSeeds
    l1 = l1
    l2 = l2
    owner = owner
    hirer = hirer
    h1 = h1
    h2 = h2
PROPERTY EveryRequestAnswered
INVARIANT WaitsAreDetected
CHECK_DEADLOCK FALSE
