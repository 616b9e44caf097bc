SPECIFICATION Spec
CONSTANTS
    AttemptIds = {a1, a2, a3}
    Reasons = {timeout}
    NoReason = NoReason
    Mpps = {m1, m2}
    NoMpp = NoMpp
    NoHtlc = NoHtlc
    Hashes = {h1, h2}
    NoPayment = NoPayment
    Callers = {c1, c2}
    NoInit = NoInit
    Values = {2}
    Amounts = {1, 2}
    PaymentSeqBlockSize = 2
    MaxSequence = 3
    KeepFailedPaymentAttempts = FALSE
SYMMETRY Symmetry
INVARIANTS SentWithinValue ShardsAgree IndexConsistent
PROPERTIES AttemptsAccounted
