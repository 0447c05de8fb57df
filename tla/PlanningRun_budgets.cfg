\* An agent whose settings give it twelve rounds; the other constants are those of the code.
SPECIFICATION Spec
CONSTANTS
    FsmBudget = 8
    MbBudget = 12
    MaxIterations = 48
    NoProgressLimit = 2
    MaxSpawnRetries = 1
PROPERTIES
    GovernorDecidesRounds
