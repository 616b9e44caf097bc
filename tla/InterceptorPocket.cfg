SPECIFICATION InterceptSpec
CONSTANTS
  Htlc = {h1}
  Expiry <- MCExpiry
  ExpiryHeight = 3
  CltvRejectDelta = 1
  CltvInterceptDelta = 2
  CltvForwardDelta = 1
  Consistent = TRUE
  Mistakes = FALSE
  MayClose = FALSE
  NoHtlc = NoHtlc
  MaxHeight = 2
  MaxFlaps = 1
  MaxRestarts = 1
  MaxSessions = 2
INVARIANTS NeverOutOfPocket
CHECK_DEADLOCK FALSE
