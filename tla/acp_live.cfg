\* A lazy pool that sleeps and wakes, and heartbeats: every event is finished.
SPECIFICATION FairSpec

CONSTANTS
    c1 = c1
    a1 = a1
    NoChannel = NoChannel
    Events <- MCEvents
    CreatedAt <- MCCreatedAt
    Channels = {c1}
    Agents = {a1}
    NumEvents = 2
    MaxPending = 2
    MaxBatch = 2
    MaxRetries = 1
    DedupMode = "Queue"
    Handling = "Queue"
    Lazy = TRUE
    Heartbeats = TRUE
    Timers = TRUE
    Controls = {}
    CrashThreshold = 2
    MaxFaults = 2
    MaxControls = 0
    MaxChanges = 0
    MaxHangs = 0
    MaxTroubles = 2

PROPERTY EventuallySettled
INVARIANT HeartbeatExact
