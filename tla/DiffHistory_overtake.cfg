SPECIFICATION Spec
CONSTANTS
    MaxOps = 2
    MaxWrites = 2
    MaxDecisions = 1
    MaxAttempts = 3
    MaxDepth = 2
    MaxEvents = 5
INVARIANTS
    DiskFollowsPanel
    AgentTextKept
    HistoryFits
CHECK_DEADLOCK FALSE
