SPECIFICATION FairSpec
CONSTANTS
    HTLC = {1}
    MaxIndex = 1
    None = None
    Expiring = {}
    Prompt = TRUE
    MaxCrashes = 0
    MaxStopsI = 1
    MaxStopsO = 0
PROPERTIES Resolved
CHECK_DEADLOCK FALSE
