\* One executor, one fault, two requests.
SPECIFICATION LiveSpec
CHECK_DEADLOCK FALSE

CONSTANTS
    e1 = e1
    w1 = w1
    o1 = o1
    None = None
    Executors = {e1}
    Writers = {w1}
    Objects = {o1}
    CacheKeys = {}
    MaxRetries = 2
    MaxRequests = 2
    MaxFaults = 1

PROPERTY EventuallySettled
INVARIANT ArchivedRestored
