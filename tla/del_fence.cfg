\* Two executors, and a relay node whose writes may land behind the fence.
SPECIFICATION Spec
CHECK_DEADLOCK FALSE

CONSTANTS
    e1 = e1
    e2 = e2
    w1 = w1
    o1 = o1
    c1 = c1
    None = None
    Executors = {e1, e2}
    Writers = {w1}
    Objects = {o1}
    CacheKeys = {c1}
    MaxRetries = 2
    MaxRequests = 1
    MaxFaults = 1

SYMMETRY MCSymmetry

INVARIANT FenceExcludes
INVARIANT RowsStayPurged
INVARIANT FrozenChunksExact
INVARIANT RemovedStaysRemoved
INVARIANT VerifiedIsEmpty
PROPERTY RefinesLifecycle
