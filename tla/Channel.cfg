SPECIFICATION ChannelSpec
CONSTANTS
  Initiator = A
  Responder = B
  Fresh0 = FALSE
  FeeRates = {2}
  InitialFee = 1
  Balance = 5
  MaxHtlcs = 1
  MaxUpdates = 3
  MaxDisconnects = 2
  NoDiff = NoDiff
INVARIANTS NeverFails LockedInOnce RevokedNeverHeld MoneyFollowsSettles NobodyWaits

CHECK_DEADLOCK FALSE
