SPECIFICATION FairPanelSpec
CONSTANTS
    MaxCounter = 11
    Peer = {p1}
    Limits = {2}
    Expiries = {1}
    LastDay = 1
    Bursts = {}
    MaxForwarded = 3
    MaxUnread = 6
    MaxSlop = 0
    Faults = {}
    NoRow = NoRow
    NoLimit = NoLimit
    Never = Never
    TrafficJob = {}
    ExpireJob = {e1}
    ResetCall = {}
    NoThread = NoThread
    NoPeer = NoPeer
    Request = {q1}
    Updates <- Extend
    Unset = Unset
    Old = {p1}
PROPERTY ExpiredCut
CHECK_DEADLOCK FALSE
