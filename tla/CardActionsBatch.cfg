SPECIFICATION Spec
CONSTANTS
    m1 = m1
    m2 = m2
    h1 = h1
    h2 = h2
    b1 = b1
    None = None
    Mids = {m1, m2}
    UidOf <- MCUidOf
    Handlers = {h1}
    Batches = {b1}
    MaxUid = 4
    ChunkSize = 1
    MaxRequests = 2
    MaxFaults = 1
    MaxMoves = 1
    MaxRenumbers = 0
INVARIANT TypeOK
INVARIANT NothingLostUnasked
INVARIANT DropJustified
CHECK_DEADLOCK FALSE
