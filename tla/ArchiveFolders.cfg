SPECIFICATION Spec
CONSTANTS
    None = None
    agent = agent
    cleaner = cleaner
    h1 = h1
    h2 = h2
    Mids = {"m1", "m2"}
    Handlers = {h1, h2}
    Agent = agent
    Cleaner = cleaner
    Threads = {h1, h2, agent, cleaner}
    Inbox <- MCInbox
    Root <- MCRoot
    Subfolders <- MCSubfolders
    Targets <- MCTargets
    InitialMail <- MCInitialMail
    Proposals <- MCProposals
    Rule <- MCRule
    RootWords = {"mail-archive"}
    ActionWords = {"TO_DELETE"}
    MaxRequests = 2
    MaxUid = 4
    MaxMade = 2
    MaxTroubles = 1
INVARIANT TypeOK
INVARIANT NothingLost
INVARIANT ActsOnNamed
INVARIANT SpareCopiesExplained
INVARIANT CleanupComplete
SYMMETRY Interchangeable
CHECK_DEADLOCK FALSE
