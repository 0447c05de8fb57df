\* Three steps, extended twice by one; every limit is reached within a few answers.
SPECIFICATION Spec
CONSTANTS
    ls = ls
    rm = rm
    None = None
    Commands = {ls, rm}
    Unsafe = {rm}
    AllowedTools = {"read", "file_write", "exec"}
    Offers <- SomeOffers
    MaxSteps = 3
    Interval = 2
    HardLimit = 5
    MaxToolsPerStep = 2
    MaxExtension = 1
    MaxExtensions = 2
    Remaining = 1
    WarningPercent = 50
    Repeats = 2
    EmptyRetries = 1
    ApiRetries = 1
    TextOnlyEnd = 2
    ResetSteps = 1
    ResetRemaining = 2
INVARIANTS
    WorkIsBounded
    CallsHaveResults
    RiskIsApproved
    TurnsAreLimited
    AbortStopsRequests
PROPERTIES
    RunEnds
CHECK_DEADLOCK FALSE
