SPECIFICATION Spec
CONSTANTS
    a = a
    b = b
    w1 = w1
    w2 = w2
    None = None
    Blank = Blank
    Mask = Mask
    Ids = {a, b}
    Kinds = 2
    Settings = {1, 2}
    Default = 1
    Writers = {w1, w2}
    Retention = 2
    Ops = {"get", "put", "rollback", "add", "delete"}
    FaultKinds = {"save", "log", "seed", "mirror"}
    MaxWrites = 2
    MaxFaults = 1
    MaxRestarts = 1
    MaxEdits = 1
    MaxListed = 2
INVARIANT TypeOK
INVARIANT SecretsStayWithTheirAccount
INVARIANT HistoryConsecutive
INVARIANT CacheFollowsFile
INVARIANT RecoveryIsCurrent
PROPERTY UnsubmittedKept
PROPERTY HistoryOnlyGrows
CONSTRAINT Bounded
SYMMETRY Symmetry
CHECK_DEADLOCK FALSE
