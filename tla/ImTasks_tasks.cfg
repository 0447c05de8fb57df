\* Two messages, maybe copies of one, each for either of two bots with an agent of its own, and
\* one act of the desktop.
SPECIFICATION Spec
CONSTANTS
    b1 = b1
    b2 = b2
    a1 = a1
    a2 = a2
    Bots = {b1, b2}
    Agents = {a1, a2}
    AgentOf <- OwnAgents
    Messages = {t1, t2}
    Ids = {x1}
    None = None
    MaxProcessed = 2
    MaxDesktop = 1
INVARIANTS
    RunningIsReported
    BusyBotIsFreed
PROPERTIES
    EndIsFinal
SYMMETRY Symmetry
