SPECIFICATION Spec
CONSTANTS
    MaxCounter = 11
    Peer = {p1}
    Limits = {5, NoLimit}
    Expiries = {Never}
    LastDay = 0
    Bursts <- BothWays
    MaxForwarded = 5
    MaxUnread = 8
    MaxSlop = 0
    Faults = {}
    NoRow = NoRow
    NoLimit = NoLimit
    Never = Never
    TrafficJob = {t1, t2}
    ExpireJob = {}
    ResetCall = {r1}
    NoThread = NoThread
    NoPeer = NoPeer
INVARIANT AlertedOnce
INVARIANT TotalExact
CHECK_DEADLOCK FALSE
