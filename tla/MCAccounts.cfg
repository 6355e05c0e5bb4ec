SPECIFICATION SSpec
CONSTANTS
    Mailboxes = {m1, m2}
    Passwords = {p1, p2}
    Handlers = {h1, h2}
    Window = 1
    MaxUsers = 2
    MaxTokens = 2
    MaxTime = 3
    Clients = {c1}
    JWTExpiry = 1
    MaxJwts = 1
    m1 = m1
    m2 = m2
    p1 = p1
    p2 = p2
    h1 = h1
    h2 = h2
    c1 = c1
SYMMETRY MCSymmetry
INVARIANTS
    OneAccountPerMailbox
    TokenAndTimeTogether
    SessionsTypeOK
PROPERTIES
    AcceptedUnused
    AcceptedInTime
    ErasedOnlyInRaces
    OldSessionsEnd
CHECK_DEADLOCK FALSE
