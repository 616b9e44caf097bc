SPECIFICATION StoreSpec
CONSTANTS
    MaxResult = 2
    MaxRecords = {2}
    InitialMax = 2
    Stoppers = {}
    AddTwice = FALSE
    ClearAllowed = TRUE
INVARIANTS ClearedStaysCleared
CHECK_DEADLOCK FALSE
