SPECIFICATION ConsoleSpec
CONSTANTS
    MaxId = 2
    Slot = {1, 2}
    MaxChanges = 2
    MaxTokens = 2
    MaxFades = 1
    Tours <- AllTours
    Null = Null
INVARIANT ConsoleTypeOK
INVARIANT OwnWritesShown
INVARIANT OpenIsShown
INVARIANT DeleteIsConfirmed
PROPERTY ClosesForAReason
PROPERTY SessionEndsForAReason
CHECK_DEADLOCK FALSE
