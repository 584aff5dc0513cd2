\* Queue handling: two agents, two channels, membership changes and faults.
SPECIFICATION Spec

CONSTANTS
    c1 = c1
    c2 = c2
    a1 = a1
    a2 = a2
    NoChannel = NoChannel
    Events <- MCEvents
    CreatedAt <- MCCreatedAt
    Channels = {c1, c2}
    Agents = {a1, a2}
    NumEvents = 3
    MaxPending = 2
    MaxBatch = 2
    MaxRetries = 1
    DedupMode = "Queue"
    Handling = "Queue"
    Lazy = FALSE
    Heartbeats = FALSE
    Timers = TRUE
    Controls = {}
    CrashThreshold = 2
    MaxFaults = 2
    MaxControls = 0
    MaxChanges = 2
    MaxHangs = 0
    MaxTroubles = 2

SYMMETRY MCSymmetry

INVARIANT SlotExclusive
INVARIANT OneTurnPerChannel
INVARIANT InFlightExact
INVARIANT Conserved
INVARIANT NoResurrection
INVARIANT NoStaleSessions
