\* Steering: native steers, their acks, cancel+merge, and turns that outlive
\* their in-flight deadline.
SPECIFICATION Spec

CONSTANTS
    c1 = c1
    a1 = a1
    a2 = a2
    NoChannel = NoChannel
    Events <- MCEvents
    CreatedAt <- MCCreatedAt
    Channels = {c1}
    Agents = {a1, a2}
    NumEvents = 3
    MaxPending = 2
    MaxBatch = 2
    MaxRetries = 1
    DedupMode = "Queue"
    Handling = "Steer"
    Lazy = FALSE
    Heartbeats = FALSE
    Timers = TRUE
    Controls = {"Cancel", "Rotate", "SwitchModel"}
    CrashThreshold = 2
    MaxFaults = 2
    MaxControls = 1
    MaxChanges = 0
    MaxHangs = 1
    MaxTroubles = 2

SYMMETRY MCSymmetry

INVARIANT TriggersConserved
INVARIANT NoResurrection
INVARIANT NoDoubleHold
INVARIANT WithheldHasAck
