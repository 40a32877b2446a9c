-------------------------------- MODULE Margin --------------------------------
(***************************************************************************)
(* What a user's deposits, borrows and perp position are worth, and what   *)
(* is required of them (math/margin.rs, state/margin_calculation.rs,       *)
(* state/perp_market.rs, state/spot_market.rs); and what follows for a     *)
(* liquidation: how much may be taken over, and for how much               *)
(* (math/liquidation.rs, math/bankruptcy.rs).                              *)
(*                                                                         *)
(* A user has a balance of tokens in each spot market, negative when it    *)
(* borrows, a perp position and perp orders.  Both tokens have the         *)
(* decimals of the quote; the quote's price is one.  The averages that a   *)
(* strict price is bounded by are equal to the price.                      *)
(***************************************************************************)
EXTENDS PerpPools

CONSTANTS
  QUOTE_PRECISION, PRICE_PRECISION, MARGIN_PRECISION, SPOT_WEIGHT_PRECISION,
  SPOT_IMF_PRECISION, SqrtUnit,
  LIQUIDATION_FEE_PRECISION, LIQUIDATION_PCT_PRECISION,
  OPEN_ORDER_MARGIN_REQUIREMENT, MAX_POSITIVE_UPNL_FOR_INITIAL_MARGIN,
  margin_ratio_initial, margin_ratio_maintenance, imf_factor,
  unrealized_pnl_initial_asset_weight, unrealized_pnl_maintenance_asset_weight,
  unrealized_pnl_max_imbalance, unrealized_pnl_imf_factor,
  spot_imf_factor, initial_asset_weight, maintenance_asset_weight,
  initial_liability_weight, maintenance_liability_weight,
  spot_liquidator_fee, spot_if_liquidation_fee,    \* of each spot market
  perp_liquidator_fee, perp_if_liquidation_fee,
  liquidation_margin_buffer_ratio, initial_pct_to_liquidate, liquidation_duration,
  SmallShortage,           \* a smaller shortage may be covered at once
  SmallPosition,           \* a smaller position may be taken whole
  SmallLiability,          \* a smaller liability may be taken whole
  Unlimited                \* stands for u128::MAX

SpotMarkets == {"quote", "asset"}

NoOrders == [open_orders |-> 0, open_bids |-> 0, open_asks |-> 0]

----------------------------------------------------------------------------
(* Weights grow, or shrink, with the square root of the size.              *)

nth_root(n) == CHOOSE r \in 0 .. n : r * r <= n /\ (r + 1) * (r + 1) > n
SizeSqrt(size) == nth_root(size * 10 + 1)

calculate_size_premium_liability_weight(size, imf, weight, precision) ==
  IF imf = 0 THEN weight
  ELSE Greatest(weight, weight - weight \div 5
                          + (SizeSqrt(size) * imf) \div ((SqrtUnit * SPOT_IMF_PRECISION) \div precision))

calculate_size_discount_asset_weight(size, imf, weight) ==
  IF imf = 0 THEN weight
  ELSE Least(weight, ((SPOT_IMF_PRECISION + SPOT_IMF_PRECISION \div 10) * SPOT_WEIGHT_PRECISION)
                       \div (SPOT_IMF_PRECISION + (SizeSqrt(size) * imf) \div SqrtUnit))

get_margin_ratio(m, size, margin_type) ==
  LET ratio == IF margin_type = "Initial" THEN margin_ratio_initial ELSE margin_ratio_maintenance
  IN  IF m.status = "Settlement" THEN 0
      ELSE calculate_size_premium_liability_weight(size, imf_factor, ratio, MARGIN_PRECISION)

(* Unsettled profit counts for less than a deposit, and for less still     *)
(* when all users together are owed more than the market may owe.          *)
InitialPnlWeight(m, last_oracle_price) ==
  LET net_unsettled_pnl == calculate_net_user_pnl(m, last_oracle_price)
  IN  IF unrealized_pnl_max_imbalance > 0 /\ net_unsettled_pnl > unrealized_pnl_max_imbalance
        THEN (unrealized_pnl_initial_asset_weight * unrealized_pnl_max_imbalance)
                \div net_unsettled_pnl
        ELSE unrealized_pnl_initial_asset_weight

get_unrealized_asset_weight(m, unrealized_pnl, margin_type, last_oracle_price) ==
  IF unrealized_pnl <= 0 THEN SPOT_WEIGHT_PRECISION
  ELSE IF margin_type = "Maintenance" THEN unrealized_pnl_maintenance_asset_weight
  ELSE calculate_size_discount_asset_weight(unrealized_pnl * AMM_TO_QUOTE_PRECISION_RATIO,
                                            unrealized_pnl_imf_factor,
                                            InitialPnlWeight(m, last_oracle_price))

(* A token has PRICE_PRECISION units.                                      *)
SizeInAmmReservePrecision(amount) == (amount * AMM_RESERVE_PRECISION) \div PRICE_PRECISION

get_asset_weight(market, amount, margin_type) ==
  calculate_size_discount_asset_weight(
    SizeInAmmReservePrecision(amount), spot_imf_factor[market],
    IF margin_type = "Initial" THEN initial_asset_weight[market] ELSE maintenance_asset_weight[market])

get_liability_weight(market, amount, margin_type) ==
  calculate_size_premium_liability_weight(
    SizeInAmmReservePrecision(amount), spot_imf_factor[market],
    IF margin_type = "Initial" THEN initial_liability_weight[market]
      ELSE maintenance_liability_weight[market],
    SPOT_WEIGHT_PRECISION)

(* Rounded down, also when it is negative.                                 *)
get_token_value(token_amount, price) == (token_amount * price) \div PRICE_PRECISION

----------------------------------------------------------------------------
(* What is required of a perp position and what it adds to the collateral. *)

ValuationPrice(m, oracle_price) == IF m.status = "Settlement" THEN m.expiry_price ELSE oracle_price

(* Every order may fill, and every share of an LP.                         *)
worst_case_base_asset_amount(base, open_bids, open_asks) ==
  IF Abs(base + open_bids) > Abs(base + open_asks) THEN base + open_bids ELSE base + open_asks

WorstCaseSettled(m, settled, o) ==
  worst_case_base_asset_amount(settled.base_asset_amount,
                               o.open_bids + calculate_lp_open_bids(m, settled),
                               o.open_asks + calculate_lp_open_asks(m, settled))

margin_requirement_for_lp_shares(p, valuation_price) ==
  IF p.lp_shares = 0 THEN 0
  ELSE Greatest(QUOTE_PRECISION, (order_step_size * valuation_price) \div AMM_RESERVE_PRECISION)

PositionMargin(m, settled, o, worst_case, price, margin_type) ==
  (IF m.status = "Settlement" THEN 0
   ELSE (calculate_base_asset_value_with_oracle_price(worst_case, price)
           * get_margin_ratio(m, Abs(worst_case), margin_type)) \div MARGIN_PRECISION)
  + o.open_orders * OPEN_ORDER_MARGIN_REQUIREMENT
  + margin_requirement_for_lp_shares(settled, price)

WeightedPnl(m, pnl, margin_type, last_oracle_price) ==
  Least(Quot(pnl * get_unrealized_asset_weight(m, pnl, margin_type, last_oracle_price),
             SPOT_WEIGHT_PRECISION),
        IF margin_type = "Initial" THEN MAX_POSITIVE_UPNL_FOR_INITIAL_MARGIN ELSE Unlimited)

UnsettledFunding(m, p) == IF p.base_asset_amount = 0 THEN 0 ELSE calculate_funding_payment(m, p)

(* A part of a user's margin is [collateral, requirement, value]: the      *)
(* margin buffer is a part of the value of the liabilities.                *)
PerpMargin(m, settled, o, worst_case, price, pnl) ==
  [ collateral |-> pnl.weighted,
    requirement |-> PositionMargin(m, settled, o, worst_case, price, pnl.margin_type),
    value |-> calculate_base_asset_value_with_oracle_price(worst_case, price) ]

SettledMargin(m, settled, o, funding, price, last_perp, margin_type) ==
  PerpMargin(m, settled, o, WorstCaseSettled(m, settled, o), price,
             [ weighted |-> WeightedPnl(m, get_unrealized_pnl(settled, price) + funding,
                                        margin_type, last_perp),
               margin_type |-> margin_type ])

calculate_perp_position_value_and_pnl(m, p, o, prices, margin_type) ==
  LET price == ValuationPrice(m, prices.perp)
  IN  SettledMargin(m, simulate_settled_lp_position(m, p, price), o, UnsettledFunding(m, p), price,
                    prices.last_perp, margin_type)

----------------------------------------------------------------------------
(* The margin of a user.                                                   *)

SpotPart(market, amount, price, margin_type) ==
  LET value == get_token_value(amount, price)
  IN  IF value >= 0
        THEN [ collateral |-> Quot(value * get_asset_weight(market, amount, margin_type),
                                   SPOT_WEIGHT_PRECISION),
               requirement |-> 0, value |-> 0 ]
        ELSE [ collateral |-> 0,
               requirement |-> Abs(Quot(value * get_liability_weight(market, -amount, margin_type),
                                        SPOT_WEIGHT_PRECISION)),
               value |-> -value ]

PerpPart(m, p, o, prices, margin_type) ==
  IF is_available(p) /\ o.open_orders = 0
    THEN [collateral |-> 0, requirement |-> 0, value |-> 0]
    ELSE calculate_perp_position_value_and_pnl(m, p, o, prices, margin_type)

WithBuffer(part, margin_buffer) ==
  part.requirement + (part.value * margin_buffer) \div MARGIN_PRECISION

Combined(parts, margin_buffer) ==
  [ total_collateral |-> parts.quote.collateral + parts.asset.collateral + parts.perp.collateral,
    margin_requirement |->
      parts.quote.requirement + parts.asset.requirement + parts.perp.requirement,
    plus_buffer |-> WithBuffer(parts.quote, margin_buffer) + WithBuffer(parts.asset, margin_buffer)
                      + WithBuffer(parts.perp, margin_buffer),
    tracked |-> [market \in {"quote", "asset", "perp"} |-> parts[market].requirement] ]

(* The margin of user u in a state s of the handlers.                      *)
MarginParts(s, u, margin_type) ==
  [ quote |-> SpotPart("quote", s.spot[u].quote, PRICE_PRECISION, margin_type),
    asset |-> SpotPart("asset", s.spot[u].asset, s.prices.asset, margin_type),
    perp |-> PerpPart(s.m, s.positions[u], s.orders[u], s.prices, margin_type) ]

MarginCalculation(s, u, margin_type) ==
  Combined(MarginParts(s, u, margin_type), liquidation_margin_buffer_ratio)

meets_margin_requirement(calc) == calc.total_collateral >= calc.margin_requirement
can_exit_liquidation(calc) == calc.total_collateral >= calc.plus_buffer
margin_shortage(calc) == Abs(calc.plus_buffer - calc.total_collateral)
tracked_market_margin_shortage(calc, shortage, market) ==
  IF calc.margin_requirement = 0 THEN 0
  ELSE (shortage * calc.tracked[market]) \div calc.margin_requirement

meets_initial_margin_requirement(s, u) ==
  meets_margin_requirement(MarginCalculation(s, u, "Initial"))
meets_maintenance_margin_requirement(s, u) ==
  meets_margin_requirement(MarginCalculation(s, u, "Maintenance"))
is_user_being_liquidated(s, u) ==
  ~can_exit_liquidation(MarginCalculation(s, u, "Maintenance"))

(* A user with a loss or a borrow and nothing to pay it with.              *)
HasLiability(s, u) ==
  s.positions[u].quote_asset_amount < 0 \/ \E market \in SpotMarkets : s.spot[u][market] < 0

HasAsset(s, u) ==
  \/ \E market \in SpotMarkets : s.spot[u][market] > 0
  \/ s.positions[u].base_asset_amount # 0
  \/ s.positions[u].quote_asset_amount > 0
  \/ s.orders[u].open_orders > 0
  \/ s.positions[u].lp_shares > 0

is_user_bankrupt(s, u) == HasLiability(s, u) /\ ~HasAsset(s, u)

----------------------------------------------------------------------------
(* How much of a liability a liquidator may take over.                     *)

(* A share of the shortage that grows from slot to slot, less what was     *)
(* freed before.                                                           *)
calculate_max_pct_to_liquidate(status, shortage, slot) ==
  LET pct_freeable == Least(((slot - status.last_active_slot) * LIQUIDATION_PCT_PRECISION)
                               \div liquidation_duration + initial_pct_to_liquidate,
                            LIQUIDATION_PCT_PRECISION)
      max_margin_freed == ((shortage + status.margin_freed) * pct_freeable)
                             \div LIQUIDATION_PCT_PRECISION
  IN  IF shortage < SmallShortage THEN LIQUIDATION_PCT_PRECISION
      ELSE (Greatest(0, max_margin_freed - status.margin_freed) * LIQUIDATION_PCT_PRECISION)
              \div shortage

PctOf(amount, pct) == (amount * pct) \div LIQUIDATION_PCT_PRECISION

calculate_perp_if_fee(shortage, base, margin_ratio, oracle_price) ==
  LET implied == Greatest(0, margin_ratio - perp_liquidator_fee
                               - (((shortage * AMM_RESERVE_PRECISION) \div base)
                                     * LIQUIDATION_FEE_PRECISION) \div oracle_price)
  IN  IF margin_ratio <= perp_liquidator_fee THEN 0
      ELSE Least(perp_if_liquidation_fee, (implied * 19) \div 20)

(* What closing one unit of base frees.  Where it frees nothing the code   *)
(* fails: it would round up the largest number there is.                   *)
FreedPerBase(margin_ratio, if_fee, oracle_price) ==
  (oracle_price * (margin_ratio - perp_liquidator_fee)) \div LIQUIDATION_FEE_PRECISION
    - (oracle_price * if_fee) \div LIQUIDATION_FEE_PRECISION

BaseCoverValid(margin_ratio, if_fee, oracle_price) ==
  margin_ratio > perp_liquidator_fee /\ FreedPerBase(margin_ratio, if_fee, oracle_price) > 0

calculate_base_asset_amount_to_cover_margin_shortage(shortage, margin_ratio, if_fee, oracle_price) ==
  (shortage * AMM_RESERVE_PRECISION) \div FreedPerBase(margin_ratio, if_fee, oracle_price)

(* A spot liability, or a perp profit or loss that is treated like one, is *)
(* [amount, price, weight, multiplier].                                    *)
Premium(fee) == LIQUIDATION_FEE_PRECISION + fee
Discount(fee) == LIQUIDATION_FEE_PRECISION - fee

calculate_spot_if_fee(shortage, asset, liability, max_if_fee) ==
  LET implied == Greatest(0, Greatest(0, liability.weight
                                           - (asset.weight * asset.multiplier)
                                               \div liability.multiplier)
                               - ((shortage * LIQUIDATION_FEE_PRECISION * PRICE_PRECISION)
                                    \div liability.amount) \div liability.price)
  IN  IF asset.weight >= liability.weight THEN 0
      ELSE Least(max_if_fee, (implied * LIQUIDATION_FEE_PRECISION) \div liability.weight)

AssetWeightComponent(asset, liability) ==
  (asset.weight * 10 * asset.multiplier) \div liability.multiplier

FreedPerLiability(asset, liability, if_fee) ==
  liability.price * (liability.weight * 10 - AssetWeightComponent(asset, liability))
    - ((liability.price * if_fee) \div LIQUIDATION_FEE_PRECISION) * liability.weight * 10

NothingFreed(asset, liability) ==
  \/ asset.weight >= liability.weight
  \/ AssetWeightComponent(asset, liability) >= liability.weight * 10

LiabilityCoverValid(asset, liability, if_fee) ==
  NothingFreed(asset, liability) \/ FreedPerLiability(asset, liability, if_fee) > 0

calculate_liability_transfer_to_cover_margin_shortage(shortage, asset, liability, if_fee) ==
  IF NothingFreed(asset, liability) THEN Unlimited
  ELSE (shortage * PRICE_PRECISION * SPOT_WEIGHT_PRECISION * 10)
          \div FreedPerLiability(asset, liability, if_fee)

calculate_liability_transfer_implied_by_asset_amount(asset, liability) ==
  QuotCeil(asset.amount * asset.price * liability.multiplier, liability.price * asset.multiplier)

(* Less than a dollar of the asset is not left behind.                     *)
calculate_asset_transfer_for_liability_transfer(asset, liability, liability_transfer) ==
  LET transfer == Greatest(1, (liability_transfer * liability.price * asset.multiplier)
                                \div (asset.price * liability.multiplier))
  IN  IF (Abs(asset.amount - transfer) * asset.price) \div PRICE_PRECISION < QUOTE_PRECISION
        THEN asset.amount ELSE transfer

LiabilityTransfer(asset, liability, max_transfer, allowed) ==
  LET minimum == IF get_token_value(liability.amount, liability.price) > SmallLiability THEN 0
                 ELSE liability.amount
  IN  Least(Least(Least(max_transfer, liability.amount), Greatest(allowed, minimum)),
            calculate_liability_transfer_implied_by_asset_amount(asset, liability))

----------------------------------------------------------------------------
(* What others lose by a bankruptcy.                                       *)

calculate_funding_rate_deltas_to_resolve_bankruptcy(m, loss) ==
  QuotCeil(Abs(loss) * AMM_RESERVE_PRECISION,
           Abs(m.base_asset_amount_long) + Abs(m.base_asset_amount_short)) * FUNDING_RATE_BUFFER

(* Each deposit is left with its part of what remains: the index of        *)
(* deposits is lowered and every balance reads through it.                 *)
calculate_cumulative_deposit_interest_delta_to_resolve_bankruptcy(deposit, loss, total_deposits) ==
  IF deposit > 0 /\ total_deposits # 0
    THEN (deposit * Greatest(0, total_deposits - loss)) \div total_deposits ELSE deposit
===============================================================================
