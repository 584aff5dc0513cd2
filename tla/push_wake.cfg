\* One device that rotates and revokes, one event, two delivery workers.
SPECIFICATION Spec
CHECK_DEADLOCK FALSE

CONSTANTS
    i1 = i1
    e1 = e1
    m1 = m1
    d1 = d1
    d2 = d2
    None = None
    Installs = {i1}
    Events = {e1}
    Matchers = {m1}
    Deliverers = {d1, d2}
    MaxEpoch = 2
    MaxGrants = 2
    MaxQuota = 1
    MaxLeases = 1
    Versions <- MCTwoVersions
    MaxMatchAttempts = 2
    MaxAttempts = 2
    MaxFaults = 1
    MaxChanges = 1

SYMMETRY MCSymmetry

INVARIANT NoLostWake
INVARIANT ClaimsExclusive
INVARIANT OneSendPerRequest
INVARIANT NothingAfterAccepted
INVARIANT DisabledWasInvalid
PROPERTY NoStaleSend
