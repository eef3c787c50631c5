SPECIFICATION PanelSpec
CONSTANTS
    MaxCounter = 11
    Peer = {p1}
    Limits = {2}
    Expiries = {0, 1, Never}
    LastDay = 0
    Bursts <- Step3
    MaxForwarded = 3
    MaxUnread = 6
    MaxSlop = 0
    Faults = {"router", "db", "files", "crash"}
    NoRow = NoRow
    NoLimit = NoLimit
    Never = Never
    TrafficJob = {}
    ExpireJob = {}
    ResetCall = {}
    NoThread = NoThread
    NoPeer = NoPeer
    Request = {q1}
    Updates <- Partial
    Unset = Unset
    Old = {}
VIEW PanelView
INVARIANT PanelTypeOK
INVARIANT SuccessMeansApplied
CHECK_DEADLOCK FALSE
