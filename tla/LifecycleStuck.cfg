SPECIFICATION FairSpec
CONSTANTS
    AttemptIds = {1}
    Lifecycles = {1, 2}
    Value = 1
    Mpp = m1
    KeepFailedPaymentAttempts = TRUE
    MaxInits = 1
    MaxCrashes = 1
    AllowDelete = FALSE
    CriticalErrors = FALSE
    Reasons = {failed}
    FailureReasonTimeout = failed
    FailureReasonNoRoute = failed
    FailureReasonError = failed
    NoReason = NoReason
    Mpps = {m1}
    NoMpp = NoMpp
    NoHtlc = NoHtlc
    NoPayment = NoPayment
PROPERTIES LifecycleEnds
CHECK_DEADLOCK FALSE
