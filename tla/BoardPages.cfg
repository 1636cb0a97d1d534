SPECIFICATION PagesSpec
CONSTANTS
    a = a
    b = b
    m1 = m1
    p1 = p1
    p2 = p2
    None = None
    AllMailboxes = AllMailboxes
    Broken = Broken
    Accounts = {a, b}
    FirstAccounts <- First
    Mail = {m1}
    Pages = {p1, p2}
    MaxEvents = 3
INVARIANT ActsWhereShown
SYMMETRY Symmetry
CHECK_DEADLOCK FALSE
