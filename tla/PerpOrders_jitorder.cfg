SPECIFICATION Spec
CONSTANTS
  Users = {u1, u2}
  Prices = {1, 2}
  MaxOrders = 2
  min_order_size = 1
  min_auction_duration = 1
  TriggerAuction = 1
  MarketOrderLifetime = 2
  ExpiryBuffer = 1
  Params <- JitParams
  Changes <- NoChanges
  InitialPositions <- Flat
  AmmDepths <- SomeDepths
  JitAmounts = {0, 1}
  MaxOracleDiff = 1
  Statuses = {"Active"}
  MaxSlot = 2
  MaxTime = 2
  MaxTransactions = 3
SYMMETRY UserSymmetry
INVARIANTS
  PlaceAndMakeUsesJitOrder
CHECK_DEADLOCK FALSE
