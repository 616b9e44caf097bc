SPECIFICATION Spec
CONSTANTS
    s = s
    a = a
    b = b
    c = c
    Nodes = {s, a, b, c}
    Routes <- AllRoutes
    Messages <- AllMessages
    Reporters = {r1}
    MinSecondChanceInterval = 1
    RelaxIntervals = {2}
    Snapshots = {}
    ResetAllowed = FALSE
    RestartAllowed = TRUE
    MaxTime = 2
PROPERTIES FailurePenalised SuccessKept
CHECK_DEADLOCK FALSE
