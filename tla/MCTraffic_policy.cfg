SPECIFICATION Spec
CONSTANTS
    MaxCounter = 7
    Peer = {p1}
    Limits = {3}
    Expiries = {1}
    LastDay = 1
    Bursts <- Bulk
    MaxForwarded = 9
    MaxUnread = 6
    MaxSlop = 3
    Faults = {"router", "db", "notify", "crash", "restart"}
    NoRow = NoRow
    NoLimit = NoLimit
    Never = Never
    TrafficJob = {t1,t2}
    ExpireJob = {e1}
    ResetCall = {r1}
    NoThread = NoThread
    NoPeer = NoPeer
VIEW WithoutTotal
INVARIANT TypeOK
INVARIANT NeverOvercharged
INVARIANT FlagMeansAlerted
INVARIANT OverLimitIsOff
PROPERTY NeverReenables
CHECK_DEADLOCK FALSE
