\* A merged batch that fails.
SPECIFICATION Spec

CONSTANTS
    c1 = c1
    a1 = a1
    a2 = a2
    NoChannel = NoChannel
    Events <- MCEvents
    CreatedAt <- MCCreatedAt
    Channels = {c1}
    Agents = {a1, a2}
    NumEvents = 2
    MaxPending = 2
    MaxBatch = 2
    MaxRetries = 1
    DedupMode = "Queue"
    Handling = "Steer"
    Lazy = FALSE
    Heartbeats = FALSE
    Timers = TRUE
    Controls = {}
    CrashThreshold = 2
    MaxFaults = 1
    MaxControls = 0
    MaxChanges = 0
    MaxHangs = 0
    MaxTroubles = 1

SYMMETRY MCSymmetry

INVARIANT Conserved
