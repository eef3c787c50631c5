SPECIFICATION PanelSpec
CONSTANTS
    MaxCounter = 11
    Peer = {p1}
    Limits = {2}
    Expiries = {1, Never}
    LastDay = 1
    Bursts <- Step3
    MaxForwarded = 3
    MaxUnread = 6
    MaxSlop = 0
    Faults = {}
    NoRow = NoRow
    NoLimit = NoLimit
    Never = Never
    TrafficJob = {t1}
    ExpireJob = {e1}
    ResetCall = {}
    NoThread = NoThread
    NoPeer = NoPeer
    Request = {q1}
    Updates <- Several
    Unset = Unset
    Old = {}
VIEW PanelView
INVARIANT TableMatchesRouter
CHECK_DEADLOCK FALSE
