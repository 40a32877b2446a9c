SPECIFICATION Spec
CONSTANTS
  Users = {u1, u2}
  Pools = {revenue_pool}
  RevenuePool = revenue_pool
  TokenPrecision = 200
  InterestPrecision = 100
  SPOT_UTILIZATION_PRECISION = 10
  RatePeriod = 100
  optimal_utilization = 5
  optimal_borrow_rate = 5
  max_borrow_rate = 10
  TwapWindow = 4
  IF_FACTOR_PRECISION = 4
  total_factor = 1
  withdraw_guard_threshold = 12
  max_token_deposits = 25
  Amounts = {10}
  WithdrawFee = 1
  LiquidationFee = 1
  InitialInsurance = 4
  revenue_settle_period = 3
  APR_PRECISION = 2
  Statuses = {"Active"}
  MaxTime = 5
  MaxTransactions = 4
SYMMETRY UserSymmetry
INVARIANT
  InterestIsPaidByBorrowers
PROPERTY
  InterestIsNotSkipped
CHECK_DEADLOCK FALSE
