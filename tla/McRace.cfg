SPECIFICATION Spec
CONSTANTS
    s = s
    a = a
    b = b
    c = c
    Nodes = {s, a, b}
    Routes <- TwoRoutes
    Messages = {"TemporaryChannelFailure", "Policy", "other"}
    Reporters = {r1, r2}
    MinSecondChanceInterval = 1
    RelaxIntervals = {2}
    Snapshots = {}
    ResetAllowed = FALSE
    RestartAllowed = FALSE
    MaxTime = 2
INVARIANTS Rederivable
CHECK_DEADLOCK FALSE
