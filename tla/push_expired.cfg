\* A lease expires, and its author submits again.
SPECIFICATION Spec
CHECK_DEADLOCK FALSE

CONSTANTS
    i1 = i1
    e1 = e1
    m1 = m1
    d1 = d1
    None = None
    Installs = {i1}
    Events = {e1}
    Matchers = {m1}
    Deliverers = {d1}
    MaxEpoch = 1
    MaxGrants = 1
    MaxQuota = 1
    MaxLeases = 1
    Versions <- MCTwoVersions
    MaxMatchAttempts = 1
    MaxAttempts = 1
    MaxFaults = 0
    MaxChanges = 1

INVARIANT ExpiredNeverBlocks
