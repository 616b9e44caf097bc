SPECIFICATION LifecycleSpec
CONSTANTS
    AttemptIds = {1, 2}
    Lifecycles = {1, 2}
    Value = 2
    Mpp = m1
    KeepFailedPaymentAttempts = TRUE
    MaxInits = 1
    MaxCrashes = 1
    AllowDelete = TRUE
    CriticalErrors = TRUE
    Reasons = {timeout, noroute, failed}
    FailureReasonTimeout = timeout
    FailureReasonNoRoute = noroute
    FailureReasonError = failed
    NoReason = NoReason
    Mpps = {m1}
    NoMpp = NoMpp
    NoHtlc = NoHtlc
    NoPayment = NoPayment
INVARIANTS NoOverpay RecordsTrue OutcomeTrue WaitHasCollector
PROPERTIES ImplementsIdeal NoRetryAfterTerminal
CHECK_DEADLOCK FALSE
