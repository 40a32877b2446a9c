SPECIFICATION Spec
CONSTANTS
  Users = {u1, u2}
  NoUser = NoUser
  Scenarios <- SideScenarios
  ExpoDiffs = {1}
  LpSizes = {110}
  FundingRates <- SomeFundingRates
  Quotes <- CalmAndWild
  Pegs = {450}
  ConcentrationScales = {4}
  FeePoolDeposits = {50}
  ExpiryDelays = {1}
  InitialSqrtK = 1000
  InitialPeg = 500
  InitialFeePool = 40
  InitialRevenuePool = 30
  InitialTokens = 100
  lp_cooldown_time = 0
  settlement_duration = 1
  TWENTY_FOUR_HOUR = 2
  MAX_UPDATE_K_PRICE_CHANGE = 20
  MaxPerLpBase = 3
  MaxRounding = 2
  AMM_RESERVE_PRECISION = 1000
  PEG_PRECISION = 10
  BID_ASK_SPREAD_PRECISION = 1000
  CONCENTRATION_PRECISION = 100
  MAX_CONCENTRATION_COEFFICIENT = 141
  K_BPS_UPDATE_SCALE = 100
  MAX_K_BPS_INCREASE = 10
  K_DECREASE_FRACTION = 100
  MAX_SQRT_K = 4000
  FeeShareDenominator = 2
  order_step_size = 10
  min_order_size = 10
  base_spread = 20
  max_spread = 200
  curve_update_intensity = 100
  max_fill_reserve_fraction = 1
  FUNDING_RATE_BUFFER = 10
  MAX_BASE_ASSET_AMOUNT_WITH_AMM = 100000
  LP_FEE_SLICE_NUMERATOR = 8
  LP_FEE_SLICE_DENOMINATOR = 10
  amm_jit_intensity = 200
  target_base_asset_amount_per_lp = 0
  referrer_reward_epoch_upper_bound = 100
  FEE_POOL_TO_REVENUE_POOL_THRESHOLD = 25
  max_revenue_withdraw_per_period = 10
  quote_max_insurance = 100
  BorrowLimit = 5
  ExpiryKScale = 2
  MaxRoundingDiff = 15
  fee_numerator = 1
  fee_denominator = 20
  maker_rebate_numerator = 1
  maker_rebate_denominator = 50
  referee_fee_numerator = 1
  referee_fee_denominator = 10
  referrer_reward_numerator = 1
  referrer_reward_denominator = 10
  reward_numerator = 1
  reward_denominator = 10
  time_based_reward_lower_bound = 1
  FEE_ADJUSTMENT_MAX = 100
  fee_adjustment = 0
SYMMETRY UserSymmetry
INVARIANT
  OpenInterestIsPositions
CHECK_DEADLOCK FALSE
