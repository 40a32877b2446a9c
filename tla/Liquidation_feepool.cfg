SPECIFICATION Spec
CONSTANTS
  Users = {u1, u2}
  NoUser = NoUser
  Setups <- LossOnly
  Prices <- FallAndRise
  InitialAssetPrice = 10
  MaxBases = {100000}
  MaxTransfers = {100000}
  Deposits <- QuoteDeposit
  Withdrawals <- QuoteDeposit
  NewOrders <- ShortOrder
  MaxOrders = 1
  InitialInsurance <- LittleInsurance
  lp_cooldown_time = 0
  PnlAsSafeAsBorrows = FALSE
  PaceRounding = 3
  MaxRounding = 3
  MaxSlot = 1
  MaxTransactions = 3
  QUOTE_PRECISION = 1
  PRICE_PRECISION = 10
  MARGIN_PRECISION = 100
  SPOT_WEIGHT_PRECISION = 100
  SPOT_IMF_PRECISION = 100
  SqrtUnit = 100
  LIQUIDATION_FEE_PRECISION = 100
  LIQUIDATION_PCT_PRECISION = 100
  OPEN_ORDER_MARGIN_REQUIREMENT = 1
  MAX_POSITIVE_UPNL_FOR_INITIAL_MARGIN = 500
  margin_ratio_initial = 20
  margin_ratio_maintenance = 10
  imf_factor = 0
  unrealized_pnl_initial_asset_weight = 80
  unrealized_pnl_maintenance_asset_weight = 100
  unrealized_pnl_max_imbalance = 20
  unrealized_pnl_imf_factor = 0
  spot_imf_factor <- NoSpotImf
  initial_asset_weight <- InitialAssetWeights
  maintenance_asset_weight <- MaintenanceAssetWeights
  initial_liability_weight <- InitialLiabilityWeights
  maintenance_liability_weight <- MaintenanceLiabilityWeights
  spot_liquidator_fee <- SpotFees
  spot_if_liquidation_fee <- SpotIfFees
  perp_liquidator_fee = 2
  perp_if_liquidation_fee = 2
  liquidation_margin_buffer_ratio = 5
  initial_pct_to_liquidate = 20
  liquidation_duration = 2
  SmallShortage = 4
  SmallPosition = 30
  SmallLiability = 8
  Unlimited = 1000000
  InitialSqrtK = 20000
  InitialPeg = 500
  InitialFeePool = 40
  AMM_RESERVE_PRECISION = 1000
  PEG_PRECISION = 10
  BID_ASK_SPREAD_PRECISION = 1000
  CONCENTRATION_PRECISION = 100
  MAX_CONCENTRATION_COEFFICIENT = 141
  K_BPS_UPDATE_SCALE = 100
  MAX_K_BPS_INCREASE = 10
  K_DECREASE_FRACTION = 100
  MAX_SQRT_K = 40000
  FeeShareDenominator = 2
  order_step_size = 10
  min_order_size = 10
  base_spread = 0
  max_spread = 200
  curve_update_intensity = 0
  max_fill_reserve_fraction = 1
  FUNDING_RATE_BUFFER = 10
  MAX_BASE_ASSET_AMOUNT_WITH_AMM = 100000
  LP_FEE_SLICE_NUMERATOR = 8
  LP_FEE_SLICE_DENOMINATOR = 10
  amm_jit_intensity = 0
  target_base_asset_amount_per_lp = 0
  referrer_reward_epoch_upper_bound = 100
  FEE_POOL_TO_REVENUE_POOL_THRESHOLD = 25
  max_revenue_withdraw_per_period = 10
  quote_max_insurance = 100
  BorrowLimit = 100
  ExpiryKScale = 2
  MaxRoundingDiff = 200
  fee_numerator = 1
  fee_denominator = 100
  maker_rebate_numerator = 1
  maker_rebate_denominator = 500
  referee_fee_numerator = 1
  referee_fee_denominator = 10
  referrer_reward_numerator = 1
  referrer_reward_denominator = 10
  reward_numerator = 1
  reward_denominator = 10
  time_based_reward_lower_bound = 1
  FEE_ADJUSTMENT_MAX = 100
  fee_adjustment = 0
SYMMETRY UserSymmetry
PROPERTY SurplusCountsWithdrawals
CHECK_DEADLOCK FALSE
