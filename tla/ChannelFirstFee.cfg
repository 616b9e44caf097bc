SPECIFICATION ChannelSpec
CONSTANTS
  Initiator = A
  Responder = B
  Fresh0 = TRUE
  FeeRates = {2}
  InitialFee = 1
  Balance = 5
  MaxHtlcs = 1
  MaxUpdates = 2
  MaxDisconnects = 1
  NoDiff = NoDiff
INVARIANTS NeverFails

CHECK_DEADLOCK FALSE
