SPECIFICATION Spec
CONSTANTS
    MaxCounter = 7
    Peer = {p1, p2}
    Limits = {NoLimit}
    Expiries = {Never}
    LastDay = 0
    Bursts <- OneWay
    MaxForwarded = 8
    MaxUnread = 3
    MaxSlop = 0
    Faults = {"router", "db", "crash"}
    NoRow = NoRow
    NoLimit = NoLimit
    Never = Never
    TrafficJob = {t1}
    ExpireJob = {}
    ResetCall = {r1}
    NoThread = NoThread
    NoPeer = NoPeer
VIEW WithoutTotal
PROPERTY MeteringIsALedger
CHECK_DEADLOCK FALSE
