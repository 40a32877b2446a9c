SPECIFICATION Spec
CONSTANTS
  Users = {u1, u2, u3}
  Prices = {1, 2}
  MaxOrders = 2
  min_order_size = 1
  min_auction_duration = 1
  TriggerAuction = 1
  MarketOrderLifetime = 2
  ExpiryBuffer = 1
  Params <- MatchParams
  Changes <- NoChanges
  InitialPositions <- Positions
  AmmDepths <- SomeDepths
  JitAmounts = {0, 1}
  MaxOracleDiff = 2
  Statuses = {"Active"}
  MaxSlot = 2
  MaxTime = 0
  MaxTransactions = 3
SYMMETRY UserSymmetry
PROPERTIES
  ReduceOnlyReduces
  BestPriceFirst
CHECK_DEADLOCK FALSE
