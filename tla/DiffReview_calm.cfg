SPECIFICATION Spec
CONSTANTS
    Docs = {d1, d2}
    NoDoc = NoDoc
    Mods = {m1, m2}
    MaxWrites = 2
    MaxFaults = 1
    Sessions = {TRUE}
INVARIANTS
    NoDiffIsLost
    CrashKeepsReview
PROPERTIES
    DecisionsStand
SYMMETRY Symmetry
CHECK_DEADLOCK FALSE
