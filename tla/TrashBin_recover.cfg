CONSTANTS
    Local = {l}
    Remote = {r}
    None = None
    Torn = Torn
    Bare = Bare
    Marked = Marked
    MaxEntries = 2
    MaxItems = 3
    MaxMishaps = 3
    Recreates = FALSE
SPECIFICATION Spec
INVARIANTS
    NothingIsLost
    ReadyIsWhole
PROPERTIES
    NothingIsOverwritten
    RestoreGivesBack
