SPECIFICATION FairSpec
CONSTANTS
    HTLC = {1, 2}
    MaxIndex = 2
    None = None
    Expiring = {1, 2}
    Prompt = TRUE
    MaxCrashes = 1
    MaxStopsI = 1
    MaxStopsO = 1
INVARIANTS ForwardedOnce NoLoss CircuitKept
PROPERTIES ResolvedUnlessDropped CircuitsGo
CHECK_DEADLOCK FALSE
