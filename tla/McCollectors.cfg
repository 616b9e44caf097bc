SPECIFICATION Spec
CONSTANTS
    s = s
    a = a
    b = b
    c = c
    Nodes = {s, a, b}
    Routes <- TwoRoutes
    Messages = {"TemporaryChannelFailure", "Policy"}
    Reporters = {r1, r2}
    MinSecondChanceInterval = 1
    RelaxIntervals = {0, 2}
    Snapshots <- SomeSnapshots
    ResetAllowed = TRUE
    RestartAllowed = TRUE
    MaxTime = 2
INVARIANTS RangesConsistent Grounded
PROPERTIES ImportKeepsFresher
CHECK_DEADLOCK FALSE
