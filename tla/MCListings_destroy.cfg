SPECIFICATION Spec
CONSTANTS
    Ids = {l1}
    Towns = {coast, bush}
    Rests = {1, 2}
    None = None
    Manifests <- MCManifests
    Planned = {l1}
    Handlers = {h1, h2}
    MaxPhotos = 2
    l1 = l1
    l2 = l2
    h1 = h1
    h2 = h2
    coast = coast
    bush = bush
    r1 = r1
    r2 = r2
INVARIANT DoneInOneTransaction
CHECK_DEADLOCK FALSE
