SPECIFICATION Spec
CONSTANTS
  Users = {u1, u2}
  Pools = {revenue_pool, pnl_pool}
  RevenuePool = revenue_pool
  TokenPrecision = 20
  InterestPrecision = 10
  SPOT_UTILIZATION_PRECISION = 10
  RatePeriod = 40
  optimal_utilization = 5
  optimal_borrow_rate = 5
  max_borrow_rate = 10
  TwapWindow = 4
  IF_FACTOR_PRECISION = 4
  total_factor = 1
  withdraw_guard_threshold = 2
  max_token_deposits = 6
  Amounts = {1, 4}
  WithdrawFee = 1
  LiquidationFee = 1
  InitialInsurance = 4
  revenue_settle_period = 1
  APR_PRECISION = 2
  Statuses = {"Active", "ReduceOnly"}
  MaxTime = 1
  MaxTransactions = 4
SYMMETRY UserSymmetry
INVARIANTS
  TypeOK
  LedgerConserved
  DepositsCovered
  VaultCoversClaims
PROPERTIES
  InsurancePaysFirst
  LimitsNeedTime
CHECK_DEADLOCK FALSE
