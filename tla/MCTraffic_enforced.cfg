SPECIFICATION FairSpec
CONSTANTS
    MaxCounter = 11
    Peer = {p1}
    Limits = {2, NoLimit}
    Expiries = {1, Never}
    LastDay = 1
    Bursts <- Bulk
    MaxForwarded = 6
    MaxUnread = 6
    MaxSlop = 0
    Faults = {"router"}
    NoRow = NoRow
    NoLimit = NoLimit
    Never = Never
    TrafficJob = {t1}
    ExpireJob = {e1}
    ResetCall = {}
    NoThread = NoThread
    NoPeer = NoPeer
PROPERTY OverLimitCut
PROPERTY ExpiredCut
CHECK_DEADLOCK FALSE
