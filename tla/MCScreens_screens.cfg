SPECIFICATION ScreensSpec
CONSTANTS
    Null = Null
    Iface = {"wg1", "wg2"}
    MaxQuestions = 3
    Amount = {1, 20}
    Day = {0, 1}
    Zone <- Zones
    EntityId = {1, 2}
    MaxReads = 2
    Peer = {1, 2}
    MaxEdits = 1
    ShareDay = {1}
    ShareSlot = {1, 2}
    MaxToggles = 2
    RouterPeer = {1, 2}
    RouterIface = {"wg1", "wg2"}
    InterfaceOf <- InterfaceOf_Two
    MaxClock = 2
    MaxSessions = 2
    SessionPass = {1, 2}
    OnlineTimeout = 1
    HistoryLimit = 1
    TickSeconds = 43205
    MaxRows = 3
    Address <- Address_Three
    PageSize = 2
    Named = {{2, 3}}
    ChartRange = {7, 30, 90}
    MaxTotal = 1
    MaxOpens = 2
    Font = {"inter", "manrope"}
    FirstFont = "inter"
INVARIANT AddressOfInterface
INVARIANT FieldsAreSent
INVARIANT ConfigOfRow
INVARIANT SessionsDoNotOverlap
INVARIANT TableShows
INVARIANT RevokedIsHidden
INVARIANT ChartOfRange
PROPERTY ChoicesStay
PROPERTY EditMakesNoRow
PROPERTY ClicksDoAsShown
PROPERTY HistoryIsRight
PROPERTY ResetsAsAsked
PROPERTY LooksAsChosen
CHECK_DEADLOCK FALSE
