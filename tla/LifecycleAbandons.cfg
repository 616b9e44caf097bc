SPECIFICATION FairSpec
CONSTANTS
    AttemptIds = {1, 2}
    Lifecycles = {1}
    Value = 2
    Mpp = m1
    KeepFailedPaymentAttempts = TRUE
    MaxInits = 1
    MaxCrashes = 0
    AllowDelete = FALSE
    CriticalErrors = FALSE
    Reasons = {failed}
    FailureReasonTimeout = failed
    FailureReasonNoRoute = failed
    FailureReasonError = failed
    NoReason = NoReason
    Mpps = {m1}
    NoMpp = NoMpp
    NoHtlc = NoHtlc
    NoPayment = NoPayment
PROPERTIES AttemptsResolve
CHECK_DEADLOCK FALSE
