SPECIFICATION LifecycleSpec
CONSTANTS
    AttemptIds = {1, 2, 3}
    Lifecycles = {1, 2}
    Value = 1
    Mpp = m1
    KeepFailedPaymentAttempts = TRUE
    MaxInits = 2
    MaxCrashes = 0
    AllowDelete = FALSE
    CriticalErrors = TRUE
    Reasons = {failed}
    FailureReasonTimeout = failed
    FailureReasonNoRoute = failed
    FailureReasonError = failed
    NoReason = NoReason
    Mpps = {m1}
    NoMpp = NoMpp
    NoHtlc = NoHtlc
    NoPayment = NoPayment
INVARIANTS NoOverpay
CHECK_DEADLOCK FALSE
