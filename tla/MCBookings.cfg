SPECIFICATION Spec
CONSTANTS
    Listings = {l1, l2}
    Users = {owner, hirer}
    OwnerOf <- MCOwnerOf
    BookingIds = {1, 2, 3}
    Handlers = {h1, h2}
    Days = {1, 2, 3}
    Todays = {1, 2}
    Blank = Blank
    NoRequest = NoRequest
    Seed <- MCSeed
    l1 = l1
    l2 = l2
    owner = owner
    hirer = hirer
    h1 = h1
    h2 = h2
SYMMETRY MCSymmetry
INVARIANTS
    TypeOK
    LockDiscipline
    GuardedBookingsDisjoint
    CheckStaysValid
    BookedListingsSerialize
PROPERTY LedgerSpec
CHECK_DEADLOCK FALSE
