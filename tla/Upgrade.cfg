SPECIFICATION Spec
CONSTANTS
    ingester = ingester
    board = board
    m = m
    u1 = u1
    u2 = u2
    Processes <- MCProcesses
    Messages = {m}
    Updaters <- MCUpdaters
    MaxCommits = 2
    MaxTroubles = 2
INVARIANT DecisionsSurvive
INVARIANT SkipMeansDeployed
PROPERTY DatabasesOpen
CHECK_DEADLOCK FALSE
