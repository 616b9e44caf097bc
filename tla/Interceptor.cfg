SPECIFICATION InterceptSpec
CONSTANTS
  Htlc = {h1, h2}
  Expiry <- MCExpiry
  ExpiryHeight = 3
  CltvRejectDelta = 1
  CltvInterceptDelta = 2
  CltvForwardDelta = 1
  Consistent = TRUE
  Mistakes = FALSE
  MayClose = TRUE
  NoHtlc = NoHtlc
  MaxHeight = 2
  MaxFlaps = 1
  MaxRestarts = 1
  MaxSessions = 2
SYMMETRY Symmetry
INVARIANTS NothingForgotten HeldInTime ClientKnows EveryForwardIntercepted
PROPERTIES SeenNotFailedBack
CHECK_DEADLOCK FALSE
