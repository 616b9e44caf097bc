SPECIFICATION FairSpec
CONSTANTS
    MaxResult = 1
    MaxRecords = {1}
    InitialMax = 1
    Stoppers = {s1}
    AddTwice = FALSE
    ClearAllowed = FALSE
PROPERTIES StopReturns
CHECK_DEADLOCK FALSE
