\* Two tasks and three Sub-Agents whose LLM calls may throw.
SPECIFICATION FairSpec
CONSTANTS
    MaxTasks = 2
    MaxAgents = 3
    Instructions = {m1, m2}
    CallsFail = TRUE
    Overtakes = FALSE
INVARIANTS
    StoreFollowsAgents
    InstructionKept
PROPERTIES
    PreResolvedIsConsumed
CHECK_DEADLOCK FALSE
