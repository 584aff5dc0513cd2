\* Clients of one huddle on two pods: three of them, or two with a drain and
\* one fault of any kind.
SPECIFICATION LiveSpec
CHECK_DEADLOCK FALSE

CONSTANTS
    p1 = p1
    p2 = p2
    None = None
    Pods = {p1, p2}
    Home = p1
    NumConns = 3
    MaxGen <- MCMaxGen
    MaxAttempts = 2
    MaxRooms = 2
    MaxFaults = 1
    MaxDrains = 1
    MaxBusy = 2

INVARIANT DrainComplete
INVARIANT NoLossWithoutFault
PROPERTY JoinsSettle
