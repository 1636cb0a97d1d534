SPECIFICATION BoardSpec
CONSTANTS
    b1 = b1
    i1 = i1
    q1 = q1
    c1 = c1
    r1 = r1
    r2 = r2
    l1 = l1
    l2 = l2
    t1 = t1
    t2 = t2
    t3 = t3
    None = None
    Mids <- MCMids
    Actions <- MCActions
    AgentActions <- MCAgentActions
    Boards = {b1}
    Ingesters = {}
    Requests = {q1}
    Composers = {c1}
    Reconcilers = {r1}
    MaxDrafts = 1
    MaxMoves = 1
    MaxDeletes = 1
    MaxForces = 1
    MaxFaults = 1
    MaxRestarts = 1
    Job = "batch"
    Launchers = {l1, l2}
    Threads = {t1, t2}
    Loops = {}
    MaxReboots = 2
    MaxErrors = 1
INVARIANT TypeOK
INVARIANT NoFalseArchive
INVARIANT FlightTypeOK
INVARIANT OverlapExplained
INVARIANT FlagExplained
PROPERTY BoardRules
PROPERTY SentIsNoticed
PROPERTY FlagsRecover
CHECK_DEADLOCK FALSE
