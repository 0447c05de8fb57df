SPECIFICATION FairSpec
CONSTANTS
    c1 = c1
    c2 = c2
    o1 = o1
    o2 = o2
    Chunks = {c1, c2}
    Owners = {o1, o2}
    OwnerOf <- MCOwnerOf
    Writers = {w1, w2}
    Admins = {a1, a2}
    Profiles = {p1, p2}
    BatchSize = 1
    None = None
INVARIANTS
    RouteStaysActive
    RebuiltIndexIsUniform
PROPERTIES
    CheckpointsLast
    LeasesAreGranted
    ImplementsIndexLock
