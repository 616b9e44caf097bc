SPECIFICATION ChannelSpec
CONSTANTS
  Initiator = A
  Responder = B
  Fresh0 = TRUE
  FeeRates = {}
  InitialFee = 1
  Balance = 5
  MaxHtlcs = 1
  MaxUpdates = 2
  MaxDisconnects = 1
  NoDiff = NoDiff
PROPERTY Converges

CHECK_DEADLOCK FALSE
