\* A planning run, a Chat run and a planning run, while the chat view may be unmounted and
\* mounted again.  Fairness: the awaits of a run end, and a loop owes an answer only once it
\* is cancelled.
SPECIFICATION FairSpec
CONSTANTS
    MaxRuns = 3
    ChatRuns = {2}
    MaxViews = 2
INVARIANTS
    LockGuardsSession
    MessagesInOrder
    RunsTakeTurns
PROPERTIES
    NoAnswerAfterWithdrawal
    StopSettles
