------------------------------- MODULE AmmCurve -------------------------------
(***************************************************************************)
(* The constant-product curve behind a perp market: what a swap costs, how *)
(* k and the peg are moved and what moving them costs the market           *)
(* (math/amm.rs, math/cp_curve.rs, math/repeg.rs, math/amm_spread.rs,      *)
(* controller/amm.rs, controller/repeg.rs).                                *)
(*                                                                         *)
(* The market and its AMM are one record `m'; every operation is a         *)
(* function from such records to such records.  A checked operation that   *)
(* fails aborts the transaction: the ...Valid operators state when it does *)
(* not, and every action that uses the operation has them as guards.       *)
(***************************************************************************)
EXTENDS Signed

CONSTANTS
  AMM_RESERVE_PRECISION,          \* one unit of base
  PEG_PRECISION,                  \* a peg of 1.0, a price of 1.0 and one unit of quote
  BID_ASK_SPREAD_PRECISION,       \* a spread of 100%
  CONCENTRATION_PRECISION,
  MAX_CONCENTRATION_COEFFICIENT,
  K_BPS_UPDATE_SCALE,             \* a k scale of 1.0
  MAX_K_BPS_INCREASE,             \* how far one funding update may scale k
  K_DECREASE_FRACTION,            \* a repeg over budget lowers k by this fraction
  MAX_SQRT_K,
  FeeShareDenominator,            \* the share of exchange fees the protocol keeps is 1 / this
  order_step_size,
  min_order_size,
  base_spread,
  max_spread,
  curve_update_intensity,
  max_fill_reserve_fraction

AMM_TO_QUOTE_PRECISION_RATIO == AMM_RESERVE_PRECISION \div PEG_PRECISION

ASSUME CurveAssumption ==
  /\ PEG_PRECISION \in Nat \ {0}
  /\ AMM_RESERVE_PRECISION = AMM_TO_QUOTE_PRECISION_RATIO * PEG_PRECISION
  /\ order_step_size \in Nat \ {0}
  /\ {AMM_RESERVE_PRECISION, BID_ASK_SPREAD_PRECISION, CONCENTRATION_PRECISION, K_BPS_UPDATE_SCALE,
      K_DECREASE_FRACTION, FeeShareDenominator, max_fill_reserve_fraction} \subseteq Nat \ {0}
  /\ {MAX_SQRT_K, MAX_K_BPS_INCREASE, min_order_size, MAX_CONCENTRATION_COEFFICIENT} \subseteq Nat
  /\ curve_update_intensity \in 0 .. 100
  /\ max_spread \in 0 .. BID_ASK_SPREAD_PRECISION
  /\ base_spread \in 0 .. max_spread
  /\ CONCENTRATION_PRECISION < MAX_CONCENTRATION_COEFFICIENT

----------------------------------------------------------------------------
(* Swaps along the curve.                                                  *)

calculate_price(quote_asset_reserve, base_asset_reserve, peg) ==
  (quote_asset_reserve * peg) \div base_asset_reserve

reserve_price(m) == calculate_price(m.quote_asset_reserve, m.base_asset_reserve, m.peg_multiplier)
bid_price(m) ==
  (reserve_price(m) * (BID_ASK_SPREAD_PRECISION - m.short_spread)) \div BID_ASK_SPREAD_PRECISION
ask_price(m) ==
  (reserve_price(m) * (BID_ASK_SPREAD_PRECISION + m.long_spread)) \div BID_ASK_SPREAD_PRECISION

(* A reserve change in quote tokens.                                       *)
reserve_to_asset_amount(reserve, peg) == (reserve * peg) \div AMM_RESERVE_PRECISION

SwapInput(swap_amount, input_asset_reserve, direction) ==
  IF direction = "Add" THEN input_asset_reserve + swap_amount ELSE input_asset_reserve - swap_amount

SwapValid(swap_amount, input_asset_reserve, direction) ==
  SwapInput(swap_amount, input_asset_reserve, direction) > 0

calculate_swap_output(swap_amount, input_asset_reserve, direction, invariant_sqrt) ==
  (invariant_sqrt * invariant_sqrt) \div SwapInput(swap_amount, input_asset_reserve, direction)

(* What the user pays or gets.  Removing base costs one unit of reserve    *)
(* and one unit of quote more.                                             *)
calculate_quote_asset_amount_swapped(quote_before, quote_after, direction, peg) ==
  IF direction = "Remove"
    THEN reserve_to_asset_amount(quote_after - quote_before + 1, peg) + 1
    ELSE reserve_to_asset_amount(quote_before - quote_after, peg)

(* The side of the AMM that a user's order meets.                          *)
get_spread_reserves(m, direction) ==
  IF direction = "Remove"
    THEN [base |-> m.ask_base_asset_reserve, quote |-> m.ask_quote_asset_reserve]
    ELSE [base |-> m.bid_base_asset_reserve, quote |-> m.bid_quote_asset_reserve]

(* How far the price with the spread is from the price without it.         *)
calculate_quote_asset_amount_surplus(m, quote_after, direction, quote_asset_amount) ==
  LET change == IF direction = "Remove" THEN quote_after - m.quote_asset_reserve
                ELSE m.quote_asset_reserve - quote_after
      actual == reserve_to_asset_amount(change, m.peg_multiplier)
                + (IF direction = "Remove" THEN 1 ELSE 0)
  IN  Abs(actual - quote_asset_amount)

(* A swap at the side's reserves, and the reserves it leaves.              *)
calculate_base_swap_output_with_spread(m, amount, direction) ==
  LET side == get_spread_reserves(m, direction)
      quote_asset_amount ==
        calculate_quote_asset_amount_swapped(
          side.quote, calculate_swap_output(amount, side.base, direction, m.sqrt_k),
          direction, m.peg_multiplier)
      quote_after == calculate_swap_output(amount, m.base_asset_reserve, direction, m.sqrt_k)
  IN  [ base_asset_reserve |-> SwapInput(amount, m.base_asset_reserve, direction),
        quote_asset_reserve |-> quote_after,
        quote_asset_amount |-> quote_asset_amount,
        surplus |-> calculate_quote_asset_amount_surplus(m, quote_after, direction, quote_asset_amount) ]

SwapBaseAssetValid(m, amount, direction) ==
  /\ SwapValid(amount, get_spread_reserves(m, direction).base, direction)
  /\ SwapValid(amount, m.base_asset_reserve, direction)
  /\ calculate_swap_output(amount, m.base_asset_reserve, direction, m.sqrt_k) > 0

swap_base_asset(m, amount, direction) ==
  LET out == calculate_base_swap_output_with_spread(m, amount, direction)
  IN  [m EXCEPT !.base_asset_reserve = out.base_asset_reserve,
                !.quote_asset_reserve = out.quote_asset_reserve]

----------------------------------------------------------------------------
(* The state of the curve once every user has closed against it, and the   *)
(* bounds of the reserves around that state.                               *)

calculate_terminal_reserves(m) ==
  LET direction == IF m.base_asset_amount_with_amm > 0 THEN "Add" ELSE "Remove"
      amount == Abs(m.base_asset_amount_with_amm)
  IN  [ base |-> SwapInput(amount, m.base_asset_reserve, direction),
        quote |-> calculate_swap_output(amount, m.base_asset_reserve, direction, m.sqrt_k) ]

(* There is such a state only while the curve holds the base they close.   *)
TerminalValid(m) == m.base_asset_reserve + m.base_asset_amount_with_amm > 0

calculate_terminal_price(m) ==
  LET terminal == calculate_terminal_reserves(m)
  IN  calculate_price(terminal.quote, terminal.base, m.peg_multiplier)

MinBase(concentration_coef, base) ==
  get_proportion_u128(base, CONCENTRATION_PRECISION, concentration_coef)
MaxBase(concentration_coef, base) ==
  get_proportion_u128(base, concentration_coef, CONCENTRATION_PRECISION)

(* The reserves may move between the bounds around the terminal reserves.  *)
calculate_bid_ask_bounds(m, terminal_base) ==
  [m EXCEPT !.min_base_asset_reserve = MinBase(m.concentration_coef, terminal_base),
            !.max_base_asset_reserve = MaxBase(m.concentration_coef, terminal_base)]

max_bids(m) == Greatest(0, m.base_asset_reserve - m.min_base_asset_reserve)
max_asks(m) == -Greatest(0, m.max_base_asset_reserve - m.base_asset_reserve)

(* What a user may take from one side in one fill.                         *)
calculate_amm_available_liquidity(m, direction) ==
  LET side == IF direction = "Long" THEN max_bids(m) \div 2 ELSE (-max_asks(m)) \div 2
  IN  standardize_base_asset_amount(
        Least(m.base_asset_reserve \div max_fill_reserve_fraction, side), order_step_size)

----------------------------------------------------------------------------
(* Spreads.  Their size follows from averages, volatility and volume that  *)
(* the model leaves to its environment: m.spread_inputs is what            *)
(* calculate_spread makes of them.                                         *)

calculate_spread(m) == m.spread_inputs

calculate_spread_reserves(m, direction) ==
  LET spread == IF direction = "Long" THEN m.long_spread ELSE m.short_spread
      delta == IF spread > 1
                 THEN m.quote_asset_reserve \div (BID_ASK_SPREAD_PRECISION \div (spread \div 2))
                 ELSE 0
      quote == IF direction = "Long" THEN m.quote_asset_reserve + delta
               ELSE m.quote_asset_reserve - delta
  IN  [base |-> (m.sqrt_k * m.sqrt_k) \div quote, quote |-> quote]

update_spread_reserves(m) ==
  LET ask == calculate_spread_reserves(m, "Long")
      bid == calculate_spread_reserves(m, "Short")
  IN  [m EXCEPT !.ask_base_asset_reserve = Least(ask.base, m.base_asset_reserve),
                !.bid_base_asset_reserve = Greatest(bid.base, m.base_asset_reserve),
                !.ask_quote_asset_reserve = Greatest(ask.quote, m.quote_asset_reserve),
                !.bid_quote_asset_reserve = Least(bid.quote, m.quote_asset_reserve)]

update_spreads(m) ==
  LET spread == IF curve_update_intensity > 0 THEN calculate_spread(m)
                ELSE [long |-> base_spread \div 2, short |-> base_spread \div 2]
  IN  update_spread_reserves([m EXCEPT !.long_spread = spread.long,
                                       !.short_spread = spread.short])

(* The terminal quote reserve, the bounds and the spreads follow the       *)
(* reserves whenever the curve is moved.                                   *)
RefreshTerminal(m) ==
  LET terminal == calculate_terminal_reserves(m)
  IN  calculate_bid_ask_bounds([m EXCEPT !.terminal_quote_asset_reserve = terminal.quote],
                               terminal.base)

----------------------------------------------------------------------------
(* Moving k.                                                               *)

(* The value of the net position on the protocol's part of the curve.      *)
swap_direction_to_close_position(base_asset_amount) ==
  IF base_asset_amount >= 0 THEN "Add" ELSE "Remove"

calculate_base_asset_value(m) ==
  LET amount == m.base_asset_amount_with_amm
      direction == swap_direction_to_close_position(amount)
      amm_lp_shares == m.sqrt_k - m.user_lp_shares
      base == get_proportion_u128(m.base_asset_reserve, amm_lp_shares, m.sqrt_k)
      quote == get_proportion_u128(m.quote_asset_reserve, amm_lp_shares, m.sqrt_k)
  IN  IF amount = 0 THEN 0
      ELSE calculate_quote_asset_amount_swapped(
             quote, calculate_swap_output(Abs(amount), base, direction, amm_lp_shares),
             direction, m.peg_multiplier)

NetPositionClosable(m) ==
  m.base_asset_amount_with_amm = 0
    \/ SwapValid(Abs(m.base_asset_amount_with_amm),
                 get_proportion_u128(m.base_asset_reserve, m.sqrt_k - m.user_lp_shares, m.sqrt_k),
                 swap_direction_to_close_position(m.base_asset_amount_with_amm))

(* What a change of the curve costs the market: the value users would get  *)
(* more by closing afterwards.                                             *)
ValueGiven(m, changed) ==
  LET gain == calculate_base_asset_value(changed) - calculate_base_asset_value(m)
  IN  IF m.base_asset_amount_with_amm = 0 THEN 0
      ELSE IF m.base_asset_amount_with_amm > 0 THEN gain ELSE -gain

KRatio(m, new_sqrt_k) == (new_sqrt_k * AMM_RESERVE_PRECISION) \div m.sqrt_k

get_update_k_result(m, new_sqrt_k) ==
  LET ratio == KRatio(m, new_sqrt_k)
      base == (m.base_asset_reserve * (IF ratio < AMM_RESERVE_PRECISION THEN ratio + 1 ELSE ratio))
                \div AMM_RESERVE_PRECISION
  IN  [sqrt_k |-> new_sqrt_k, base |-> base, quote |-> (new_sqrt_k * new_sqrt_k) \div base]

(* The reserves that a change of k leaves, with which the spreads and the  *)
(* terminal reserves are computed anew.                                    *)
KResultValid(m, result) ==
  /\ result.base > 0
  /\ result.quote > 0
  /\ result.base + m.base_asset_amount_with_amm > 0

UpdateKValid(m, new_sqrt_k, bound_update) ==
  /\ new_sqrt_k > 0
  /\ bound_update => KRatio(m, new_sqrt_k) >= AMM_RESERVE_PRECISION \div 2
  /\ KRatio(m, new_sqrt_k) < AMM_RESERVE_PRECISION - 1 \/ new_sqrt_k <= MAX_SQRT_K
  /\ (m.status # "ReduceOnly" /\ new_sqrt_k < m.sqrt_k)
       => Abs(m.base_asset_amount_with_amm) <= new_sqrt_k
  /\ KResultValid(m, get_update_k_result(m, new_sqrt_k))

(* Mutant: a change of k keeps the terminal reserves of a net position.    *)
update_k_only(m, result) ==
  LET moved == [m EXCEPT !.sqrt_k = result.sqrt_k, !.base_asset_reserve = result.base,
                         !.quote_asset_reserve = result.quote]
  IN  update_spreads(IF m.base_asset_amount_with_amm = 0 THEN RefreshTerminal(moved) ELSE moved)

update_k(m, result) ==
  update_spreads(RefreshTerminal([m EXCEPT !.sqrt_k = result.sqrt_k,
                                           !.base_asset_reserve = result.base,
                                           !.quote_asset_reserve = result.quote]))

adjust_k_cost(m, result) == ValueGiven(m, update_k(m, result))

can_lower_k(m) ==
  LET amount == Abs(m.base_asset_amount_with_amm)
  IN  /\ amount < Least(max_bids(m), Abs(max_asks(m)))
      /\ amount < m.sqrt_k - m.user_lp_shares

get_lower_bound_sqrt_k(m) ==
  Least(m.sqrt_k,
        Greatest(Greatest(m.user_lp_shares + m.user_lp_shares \div 1000, min_order_size),
                 Abs(m.base_asset_amount_with_amm)))

(* The scale of k that spends the budget, before it is bounded.            *)
KScaleParts(m, budget) ==
  LET c == Abs(budget)
      c_sign == IF budget < 0 THEN 1 ELSE -1
      d == m.base_asset_amount_with_amm
      x_d == m.base_asset_reserve + d
      x_x_d_c == (((m.base_asset_reserve * x_d) \div AMM_RESERVE_PRECISION) * c) \div PEG_PRECISION
      c_x_d_d == (((c * Abs(x_d)) \div PEG_PRECISION) * Abs(d)) \div AMM_RESERVE_PRECISION
      pegged == (((((m.quote_asset_reserve * Abs(d)) \div AMM_RESERVE_PRECISION) * Abs(d))
                    \div AMM_RESERVE_PRECISION) * m.peg_multiplier) \div PEG_PRECISION
  IN  [ numerator |-> Quot(pegged - c_x_d_d * c_sign * (IF d > 0 THEN 1 ELSE -1),
                           AMM_TO_QUOTE_PRECISION_RATIO),
        denominator |-> Quot(x_x_d_c * c_sign + pegged, AMM_TO_QUOTE_PRECISION_RATIO),
        unstable |-> c_sign < 0 /\ x_x_d_c > pegged ]

(* The code asserts that both parts of the scale are positive.             *)
BudgetedKScaleValid(m, budget) ==
  LET parts == KScaleParts(m, budget)
  IN  parts.unstable \/ parts.numerator * parts.denominator > 0

calculate_budgeted_k_scale(m, budget, k_pct_upper_bound, k_pct_lower_bound) ==
  LET parts == KScaleParts(m, budget)
      scale == (Abs(parts.numerator) * K_BPS_UPDATE_SCALE) \div Abs(parts.denominator)
  IN  IF parts.unstable THEN k_pct_upper_bound
      ELSE IF Abs(parts.numerator) > Abs(parts.denominator)
        THEN Least(scale, k_pct_upper_bound)
        ELSE Greatest(scale, k_pct_lower_bound)

----------------------------------------------------------------------------
(* What the market has earned, what of it is kept for the protocol, and    *)
(* what is left to spend on the curve and on funding.                      *)

get_total_fee_lower_bound(m) == m.total_exchange_fee \div FeeShareDenominator

FeeReservedForProtocol(m) ==
  get_total_fee_lower_bound(m) + m.total_liquidation_fee - m.total_fee_withdrawn

calculate_fee_pool(m) == Greatest(0, m.total_fee_minus_distributions - FeeReservedForProtocol(m))

(* A cost may only be charged if the protocol's part of the fees stays;    *)
(* a negative cost is revenue.                                             *)
CostApplied(m, cost, check_lower_bound) ==
  (cost > 0 /\ check_lower_bound)
    => m.total_fee_minus_distributions - cost >= FeeReservedForProtocol(m)

apply_cost_to_market(m, cost) ==
  [m EXCEPT !.total_fee_minus_distributions = @ - cost,
            !.net_revenue_since_last_funding = @ - cost]

----------------------------------------------------------------------------
(* Moving the peg.                                                         *)

calculate_peg_from_target_price(m, target_price) ==
  Greatest(1, (target_price * m.base_asset_reserve) \div m.quote_asset_reserve)

calculate_repeg_cost(m, new_peg) ==
  Quot((m.quote_asset_reserve - m.terminal_quote_asset_reserve) * (new_peg - m.peg_multiplier),
       AMM_RESERVE_PRECISION)

(* The cost of moving the peg by one, its magnitude rounded up twice.      *)
calculate_per_peg_cost(m) ==
  LET cost == QuotCeil(m.quote_asset_reserve - m.terminal_quote_asset_reserve,
                       AMM_TO_QUOTE_PRECISION_RATIO)
  IN  cost + Sign(cost)

(* The peg that brings the price to the oracle's, and what may be spent on *)
(* it.  When the fees do not pay for it, the peg only has to bring the     *)
(* price within half the maximal spread, at any cost.                      *)
calculate_optimal_peg_and_budget(m, oracle_price) ==
  LET fee_budget == calculate_fee_pool(m)
      optimal_peg == calculate_peg_from_target_price(m, oracle_price)
      short_of_budget == fee_budget < Greatest(0, calculate_repeg_cost(m, optimal_peg))
      half_max_price_spread == (oracle_price * (max_spread \div 2)) \div BID_ASK_SPREAD_PRECISION
      gap == reserve_price(m) - oracle_price
      near_peg == calculate_peg_from_target_price(
                    m, reserve_price(m) - Sign(gap) * (Abs(gap) - half_max_price_spread))
  IN  IF short_of_budget /\ Abs(gap) > half_max_price_spread
        THEN [ peg |-> near_peg, budget |-> calculate_repeg_cost(m, near_peg),
               check_lower_bound |-> FALSE ]
        ELSE [ peg |-> optimal_peg, budget |-> fee_budget,
               check_lower_bound |-> ~(short_of_budget /\ fee_budget = 0) ]

(* How far the budget moves the peg.                                       *)
BudgetDeltaPeg(m, budget) == Quot(budget * PEG_PRECISION, calculate_per_peg_cost(m))

UseOptimalPeg(m, optimal_peg, budget) ==
  LET delta_peg == optimal_peg - m.peg_multiplier
      per_peg_cost == calculate_per_peg_cost(m)
  IN  \/ per_peg_cost * delta_peg <= 0
      \/ Abs(BudgetDeltaPeg(m, budget)) > Abs(delta_peg)

(* Over budget, k is lowered first, and what that earns is spent as well.  *)
LoweredK(m) ==
  Greatest(m.sqrt_k - m.sqrt_k \div K_DECREASE_FRACTION, get_lower_bound_sqrt_k(m))

LowerK(m) == update_k(m, get_update_k_result(m, LoweredK(m)))

MovePegBy(m, delta) ==
  LET new_peg == IF delta > 0 THEN m.peg_multiplier + delta
                 ELSE Greatest(1, m.peg_multiplier - Abs(delta))
  IN  [ market |-> [m EXCEPT !.peg_multiplier = new_peg],
        cost |-> calculate_repeg_cost(m, new_peg) ]

SpendOnPeg(m, budget) == MovePegBy(m, BudgetDeltaPeg(m, budget))
SpendGain(m, lowered, budget) == SpendOnPeg(lowered, budget + Abs(ValueGiven(m, lowered)))

FullBudgetAmm(m, budget) ==
  IF can_lower_k(m) THEN SpendGain(m, LowerK(m), budget) ELSE SpendOnPeg(m, budget)

adjust_amm(m, optimal_peg, budget) ==
  IF optimal_peg = m.peg_multiplier
    THEN [market |-> m, cost |-> 0]
    ELSE IF UseOptimalPeg(m, optimal_peg, budget)
      THEN [ market |-> [m EXCEPT !.peg_multiplier = optimal_peg],
             cost |-> calculate_repeg_cost(m, optimal_peg) ]
      ELSE FullBudgetAmm(m, budget)

(* Lowering k must leave a curve on which the peg has a price.             *)
AdjustAmmValid(m, optimal_peg, budget) ==
  (optimal_peg # m.peg_multiplier /\ ~UseOptimalPeg(m, optimal_peg, budget) /\ can_lower_k(m))
    => /\ UpdateKValid(m, LoweredK(m), TRUE)
       /\ NetPositionClosable(m)
       /\ NetPositionClosable(LowerK(m))
       /\ calculate_per_peg_cost(LowerK(m)) # 0

(* The update that precedes every fill: the curve is moved toward the      *)
(* oracle and the spreads follow.                                          *)
MoveCurve(m, repegged, check_lower_bound) ==
  LET moved == update_k(apply_cost_to_market(m, repegged.cost),
                        [ sqrt_k |-> repegged.market.sqrt_k,
                          base |-> repegged.market.base_asset_reserve,
                          quote |-> repegged.market.quote_asset_reserve ])
  IN  IF CostApplied(m, repegged.cost, check_lower_bound)
        THEN [moved EXCEPT !.peg_multiplier = repegged.market.peg_multiplier]
        ELSE m

AdjustTo(m, optimal) ==
  MoveCurve(m, adjust_amm(m, optimal.peg, optimal.budget), optimal.check_lower_bound)

AdjustToValid(m, optimal) ==
  /\ AdjustAmmValid(m, optimal.peg, optimal.budget)
  /\ \E repegged \in {adjust_amm(m, optimal.peg, optimal.budget)} :
       CostApplied(m, repegged.cost, optimal.check_lower_bound) => TerminalValid(repegged.market)

UpdateCurve(m, oracle_price) == AdjustTo(m, calculate_optimal_peg_and_budget(m, oracle_price))

_update_amm(m, oracle_price) ==
  IF m.status \in {"Settlement", "Delisted"} THEN m
  ELSE update_spreads(IF curve_update_intensity > 0 THEN UpdateCurve(m, oracle_price) ELSE m)

UpdateAmmValid(m, oracle_price) ==
  (m.status \notin {"Settlement", "Delisted"} /\ curve_update_intensity > 0)
    => AdjustToValid(m, calculate_optimal_peg_and_budget(m, oracle_price))

(* The repeg an admin asks for: only toward the oracle, and never so far   *)
(* that the terminal price crosses it.                                     *)
calculate_repeg_validity(m, repegged, oracle_price, oracle_conf) ==
  LET before == calculate_terminal_price(m)
      after == calculate_terminal_price(repegged)
  IN  /\ oracle_price > after =>
           /\ after >= before
           /\ oracle_price - oracle_conf >= after
           /\ reserve_price(repegged) <= oracle_price + oracle_conf
      /\ oracle_price < after =>
           /\ after <= before
           /\ oracle_price + oracle_conf <= after
           /\ reserve_price(repegged) >= oracle_price - oracle_conf

adjust_peg_cost(m, new_peg) == ValueGiven(m, [m EXCEPT !.peg_multiplier = new_peg])

RepegValid(m, new_peg, oracle_price, oracle_conf) ==
  /\ new_peg # m.peg_multiplier
  /\ TerminalValid(m)
  /\ NetPositionClosable(m)
  /\ calculate_repeg_validity(m, [m EXCEPT !.peg_multiplier = new_peg], oracle_price, oracle_conf)
  /\ CostApplied(m, adjust_peg_cost(m, new_peg), TRUE)

(* Mutant: the peg is moved at no cost.                                    *)
repeg_for_free(m, new_peg) == [m EXCEPT !.peg_multiplier = new_peg]

repeg(m, new_peg) ==
  [apply_cost_to_market(m, adjust_peg_cost(m, new_peg)) EXCEPT !.peg_multiplier = new_peg]

(* k follows the funding the market pays or receives: half of a period's   *)
(* revenue is given back, half of a loss is taken from the depth.          *)
KBudget(m, funding_imbalance_cost) ==
  IF funding_imbalance_cost < 0
    THEN IF Greatest(m.long_spread, m.short_spread) <= base_spread
           THEN (-funding_imbalance_cost) \div 2 ELSE 0
    ELSE IF m.net_revenue_since_last_funding < funding_imbalance_cost
      THEN Quot(Greatest(0, m.net_revenue_since_last_funding) - funding_imbalance_cost, 2)
      ELSE 0

KMoves(m, budget) ==
  (budget > 0 /\ m.sqrt_k < MAX_SQRT_K) \/ (budget < 0 /\ can_lower_k(m))

FormulaicK(m, budget) ==
  LET bound == (MAX_K_BPS_INCREASE * curve_update_intensity) \div 100
      scale == calculate_budgeted_k_scale(m, budget, K_BPS_UPDATE_SCALE + bound,
                                          K_BPS_UPDATE_SCALE - bound)
  IN  Greatest((m.sqrt_k * scale) \div K_BPS_UPDATE_SCALE, m.user_lp_shares + 1)

FormulaicUpdateKValid(m, funding_imbalance_cost) ==
  LET budget == KBudget(m, funding_imbalance_cost)
  IN  KMoves(m, budget) =>
        /\ BudgetedKScaleValid(m, budget)
        /\ UpdateKValid(m, FormulaicK(m, budget), TRUE)
        /\ NetPositionClosable(m)
        /\ NetPositionClosable(update_k(m, get_update_k_result(m, FormulaicK(m, budget))))

UpdateKAtCost(m, result, cost) ==
  IF CostApplied(m, cost, TRUE) THEN update_k(apply_cost_to_market(m, cost), result) ELSE m

MoveK(m, result) == UpdateKAtCost(m, result, adjust_k_cost(m, result))

formulaic_update_k(m, funding_imbalance_cost) ==
  LET budget == KBudget(m, funding_imbalance_cost)
  IN  IF KMoves(m, budget) THEN MoveK(m, get_update_k_result(m, FormulaicK(m, budget))) ELSE m

----------------------------------------------------------------------------
(* The moves of the curve that are an admin's, and are not charged.        *)

MovePriceValid(m, base, quote, sqrt_k) ==
  /\ base > 0
  /\ (sqrt_k * sqrt_k) \div base > 0
  /\ Abs(quote - (sqrt_k * sqrt_k) \div base) < 100
  /\ base + m.base_asset_amount_with_amm > 0

move_price(m, base, sqrt_k) ==
  update_spreads(RefreshTerminal([m EXCEPT !.base_asset_reserve = base,
                                           !.quote_asset_reserve = (sqrt_k * sqrt_k) \div base,
                                           !.sqrt_k = sqrt_k]))

(* Reserves that are balanced once everybody has closed.                   *)
RecenterValid(m, sqrt_k) ==
  LET base == sqrt_k - m.base_asset_amount_with_amm
  IN  base > 0 /\ (sqrt_k * sqrt_k) \div base > 0

recenter_perp_market_amm(m, peg, sqrt_k) ==
  move_price([m EXCEPT !.peg_multiplier = peg], sqrt_k - m.base_asset_amount_with_amm, sqrt_k)

ConcentrationCoef(scale) ==
  CONCENTRATION_PRECISION + (MAX_CONCENTRATION_COEFFICIENT - CONCENTRATION_PRECISION) \div scale

update_concentration_coef(m, scale) ==
  LET changed == [m EXCEPT !.concentration_coef = ConcentrationCoef(scale)]
  IN  update_spreads(calculate_bid_ask_bounds(changed, calculate_terminal_reserves(changed).base))

ConcentrationValid(m, scale) ==
  /\ scale > 0
  /\ ConcentrationCoef(scale) > CONCENTRATION_PRECISION
  /\ TerminalValid(m)
  /\ calculate_terminal_reserves(m).quote = m.terminal_quote_asset_reserve
  /\ max_bids(update_concentration_coef(m, scale)) > m.base_asset_amount_with_amm
  /\ max_asks(update_concentration_coef(m, scale)) < m.base_asset_amount_with_amm

===============================================================================
