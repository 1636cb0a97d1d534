SPECIFICATION SpecRenumbering
CONSTANTS
    m1 = m1
    m2 = m2
    h1 = h1
    h2 = h2
    b1 = b1
    None = None
    Mids = {m1, m2}
    UidOf <- MCUidOf
    Handlers = {h1}
    Batches = {}
    MaxUid = 3
    ChunkSize = 1
    MaxRequests = 1
    MaxFaults = 0
    MaxMoves = 0
    MaxRenumbers = 1
INVARIANT NothingLostUnasked
CHECK_DEADLOCK FALSE
