CONSTANTS
    Local = {l}
    Remote = {r}
    None = None
    Torn = Torn
    Bare = Bare
    Marked = Marked
    MaxEntries = 2
    MaxItems = 2
    MaxMishaps = 2
    Recreates = TRUE
SPECIFICATION Spec
INVARIANTS
    NothingIsLost
