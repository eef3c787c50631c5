SPECIFICATION Spec
CONSTANTS
    Interface = {i1}
    Bursts = {1, 2}
    MaxBytes = 4
    MaxDays = 4
INVARIANT RowIsSinceTheLast
CHECK_DEADLOCK FALSE
