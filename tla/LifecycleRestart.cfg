SPECIFICATION FairSpec
CONSTANTS
    AttemptIds = {1, 2}
    Lifecycles = {1, 2}
    Value = 1
    Mpp = NoMpp
    KeepFailedPaymentAttempts = TRUE
    MaxInits = 1
    MaxCrashes = 1
    AllowDelete = FALSE
    CriticalErrors = TRUE
    Reasons = {failed}
    FailureReasonTimeout = failed
    FailureReasonNoRoute = failed
    FailureReasonError = failed
    NoReason = NoReason
    Mpps = {m1}
    NoMpp = NoMpp
    NoHtlc = NoHtlc
    NoPayment = NoPayment
PROPERTIES PaidRecorded EndsUnlessLost
CHECK_DEADLOCK FALSE
