\* An agent without a budget of its own.  A step limit just below what eight rounds need
\* cuts the longest runs short, and one more round without progress than the code
\* allows lets runs reach the breaker of handleDispatch.
SPECIFICATION FairSpec
CONSTANTS
    FsmBudget = 8
    MbBudget = 8
    MaxIterations = 40
    NoProgressLimit = 3
    MaxSpawnRetries = 1
INVARIANTS
    CancelIsReported
    DecisionHonoured
PROPERTIES
    CancelSettles
    GovernorStopsOnlyStalledLoops
    ImplementsDecisionRounds
