SPECIFICATION Spec
CONSTANTS
    HTLC = {1, 2}
    MaxIndex = 2
    None = None
    Expiring = {}
    Prompt = FALSE
    MaxCrashes = 0
    MaxStopsI = 1
    MaxStopsO = 0
INVARIANTS NeverTwice
CHECK_DEADLOCK FALSE
