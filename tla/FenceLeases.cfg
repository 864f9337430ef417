CONSTANTS
    l1 = l1
    l2 = l2
    NoRecord = NoRecord
    Leases <- TwoLeases
    Ttl = 5
    Heartbeat <- AllBeat
    Missed = 3
    Margin = 0
    Horizons <- ShortAndLong
    MaxTime = 6
    MaxFaults = 1
    MaxAborts = 1
    MaxPauses = 1
SPECIFICATION Spec
CHECK_DEADLOCK FALSE
SYMMETRY Swap
INVARIANTS
    TypeOK
    UndisturbedFenced
PROPERTIES
    OnlyLapsedReclaimed
    PeerSafeRelease
