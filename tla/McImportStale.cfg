SPECIFICATION Spec
CONSTANTS
    s = s
    a = a
    b = b
    c = c
    Nodes = {s, a, b}
    Routes <- OneRoute
    Messages = {"TemporaryChannelFailure", "other"}
    Reporters = {r1}
    MinSecondChanceInterval = 1
    RelaxIntervals = {0, 2}
    Snapshots <- SomeSnapshots
    ResetAllowed = FALSE
    RestartAllowed = FALSE
    MaxTime = 2
PROPERTIES StaleImportIgnored
CHECK_DEADLOCK FALSE
