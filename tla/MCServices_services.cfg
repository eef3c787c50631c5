SPECIFICATION ServicesSpec
CONSTANTS
    c1 = c1
    c2 = c2
    p1 = p1
    p2 = p2
    Chat = {c1, c2}
    Peer = {p1, p2}
    Limited = {p1}
    Update <- Updates
    MaxUpdates = 2
    MaxCrashes = 1
    MaxAlerts = 1
    NoAnswer = NoAnswer
    Name = {s1, s2}
    Address = {r1, r2}
    Request = {q1}
    LastId = 2
    MaxStarts = 1
    NoServer = NoServer
    Base = 3
    Width = 2
    Mask = {"32", "24"}
    Owner = {o1, o2}
    Interface = {f1, f2}
    Given <- GivenInUse
    Pools <- PoolsInUse
    MaxEdits = 2
    Many = Many
    NoAddress = NoAddress
    Nothing = Nothing
    i1 = i1
    w1 = w1
    w2 = w2
    n1 = n1
    n2 = n2
    a1 = a1
    a2 = a2
    port = port
    Iface = {i1}
    WgPeer = {w1, w2}
    IfaceName = {n1, n2}
    PeerAddress = {a1, a2}
    Port = {port}
    FirstIface <- Ifaces
    FirstPeer <- Peers
    MaxSyncs = 1
    MaxRouterEdits = 2
    None = None
INVARIANT FlaggedWasReceived
INVARIANT ServersAreDialled
PROPERTY HandledOnce
PROPERTY OfferIsNext
PROPERTY SyncAgrees
CHECK_DEADLOCK FALSE
