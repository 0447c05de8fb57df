SPECIFICATION Spec
CONSTANTS
    Docs = {d1, d2}
    NoDoc = NoDoc
    Mods = {m1}
    MaxWrites = 2
    MaxFaults = 1
    Sessions = {FALSE}
INVARIANTS
    DeletedStaysGone
PROPERTIES
    NewestLoadWins
SYMMETRY Symmetry
CHECK_DEADLOCK FALSE
