SPECIFICATION StoreSpec
CONSTANTS
    MaxResult = 2
    MaxRecords = {2}
    InitialMax = 2
    Stoppers = {}
    AddTwice = TRUE
    ClearAllowed = FALSE
INVARIANTS NoKeyTwice
CHECK_DEADLOCK FALSE
