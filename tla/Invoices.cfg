SPECIFICATION Spec
CONSTANTS
  a = a
  b = b
  c = c
  L1 = L1
  L2 = L2
  Htlc = {a, b, c}
  Link = {L1, L2}
  LinkOf <- MCLinkOf
  Payloads <- MCPayloads
  Value = 2
  FinalCltvDelta = 2
  ExpiryDelta = 1
  GcOnTheFly = TRUE
  MaxHeight = 1
  MaxFlaps = 1
  MaxFaults = 1
  None = None
INVARIANTS PreimageOnlyForPayment AnswersFollowInvoice HeldReleased HeldHears
CHECK_DEADLOCK FALSE
