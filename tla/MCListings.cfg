SPECIFICATION Spec
CONSTANTS
    Ids = {l1}
    Towns = {coast, bush}
    Rests = {1}
    None = None
    Manifests <- MCManifests
    Planned = {}
    Handlers = {h1, h2}
    MaxPhotos = 3
    l1 = l1
    l2 = l2
    h1 = h1
    h2 = h2
    coast = coast
    bush = bush
    r1 = r1
    r2 = r2
SYMMETRY MCSymmetry
INVARIANTS
    TypeOK
    PhotosServable
    FilesAccountedFor
    OrphansOnlyFromRaces
    RegionMatchesTown
    ResolvesByTownOnly
PROPERTIES
    UpdatesLostOnlyInRaces
    ImplementsPhotoStore
CHECK_DEADLOCK FALSE
