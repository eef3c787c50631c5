SPECIFICATION AnswersSpec
CONSTANTS
    MaxId = 2
    Slot = {1, 2}
    MaxChanges = 2
    MaxTokens = 2
    MaxFades = 1
    Tours <- FewTours
    Null = Null
    c1 = c1
    c2 = c2
    p1 = p1
    Chat = {c1, c2}
    Peer = {p1}
    Limited = {p1}
    Update <- Subscriptions
    MaxUpdates = 2
    MaxCrashes = 1
    MaxAlerts = 1
    NoAnswer = NoAnswer
PROPERTY NothingHangs
PROPERTY UpdatesAreHandled
PROPERTY AlertGetsThrough
CHECK_DEADLOCK FALSE
