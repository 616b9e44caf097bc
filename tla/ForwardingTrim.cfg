SPECIFICATION Spec
CONSTANTS
    HTLC = {1, 2}
    MaxIndex = 2
    None = None
    Expiring = {1}
    Prompt = TRUE
    MaxCrashes = 1
    MaxStopsI = 0
    MaxStopsO = 1
INVARIANTS NoGaps
CHECK_DEADLOCK FALSE
