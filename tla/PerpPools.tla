------------------------------- MODULE PerpPools -------------------------------
(***************************************************************************)
(* Where the money of a perp market is: its fee pool, its pnl pool, the    *)
(* revenue pool of the quote spot market, and how pnl is paid into and out *)
(* of them, while the market trades and when it is wound down              *)
(* (controller/amm.rs, controller/pnl.rs, controller/repeg.rs, math/amm.rs,*)
(* validation/perp_market.rs).                                             *)
(*                                                                         *)
(* Pools and deposits are amounts of tokens: the interest they earn is     *)
(* SpotMarket's.                                                           *)
(***************************************************************************)
EXTENDS PerpFills

CONSTANTS
  InitialSqrtK, InitialPeg, InitialFeePool,
  FEE_POOL_TO_REVENUE_POOL_THRESHOLD,
  max_revenue_withdraw_per_period,
  quote_max_insurance,
  BorrowLimit,             \* what a user may borrow to pay a loss
  ExpiryKScale,            \* how far k is raised with a budget left at expiry
  MaxRoundingDiff          \* how far validate_perp_market lets k and the reserves be apart

ASSUME PoolsAssumption ==
  /\ {InitialSqrtK, InitialPeg, ExpiryKScale} \subseteq Nat \ {0}
  /\ {InitialFeePool, FEE_POOL_TO_REVENUE_POOL_THRESHOLD, max_revenue_withdraw_per_period,
      quote_max_insurance, BorrowLimit, MaxRoundingDiff} \subseteq Nat

----------------------------------------------------------------------------
(* What the program checks of a market after most changes.                 *)

NetBaseMatches(m) ==
  m.base_asset_amount_long + m.base_asset_amount_short
    = m.base_asset_amount_with_amm + m.base_asset_amount_with_unsettled_lp

CurveMatchesK(m) ==
  /\ m.sqrt_k >= m.base_asset_reserve \/ m.sqrt_k >= m.quote_asset_reserve
  /\ m.sqrt_k >= m.user_lp_shares
  /\ m.status # "ReduceOnly" => m.sqrt_k > Abs(m.base_asset_amount_with_amm)
  /\ Abs((m.sqrt_k * m.sqrt_k) \div m.base_asset_reserve - m.quote_asset_reserve) <= MaxRoundingDiff

SpreadsMatchReserves(m) ==
  /\ base_spread > 0 =>
       /\ m.bid_base_asset_reserve >= m.base_asset_reserve
       /\ m.bid_quote_asset_reserve <= m.quote_asset_reserve
       /\ m.ask_base_asset_reserve <= m.base_asset_reserve
       /\ m.ask_quote_asset_reserve >= m.quote_asset_reserve
  /\ m.long_spread + m.short_spread \in base_spread .. BID_ASK_SPREAD_PRECISION

TerminalMatchesNet(m) ==
  /\ m.base_asset_amount_with_amm > 0 => m.terminal_quote_asset_reserve <= m.quote_asset_reserve
  /\ m.base_asset_amount_with_amm < 0 => m.terminal_quote_asset_reserve >= m.quote_asset_reserve
  /\ m.base_asset_amount_with_amm = 0 => m.terminal_quote_asset_reserve = m.quote_asset_reserve

validate_perp_market(m) ==
  /\ is_multiple_of_step_size(m.base_asset_amount_long, order_step_size)
  /\ is_multiple_of_step_size(m.base_asset_amount_short, order_step_size)
  /\ NetBaseMatches(m)
  /\ m.base_asset_amount_with_amm <= MAX_BASE_ASSET_AMOUNT_WITH_AMM
  /\ m.peg_multiplier > 0
  /\ CurveMatchesK(m)
  /\ SpreadsMatchReserves(m)
  /\ TerminalMatchesNet(m)
  /\ Abs(m.revenue_withdraw_since_last_settle) <= max_revenue_withdraw_per_period
  /\ m.base_asset_amount_per_lp < MAX_BASE_ASSET_AMOUNT_WITH_AMM
  /\ m.quote_asset_amount_per_lp < MAX_BASE_ASSET_AMOUNT_WITH_AMM

----------------------------------------------------------------------------
(* What users are owed.                                                    *)

calculate_net_user_cost_basis(m) ==
  m.quote_asset_amount + m.quote_asset_amount_with_unsettled_lp + m.net_unsettled_funding_pnl

calculate_net_user_pnl(m, oracle_price) ==
  Quot((m.base_asset_amount_with_amm + m.base_asset_amount_with_unsettled_lp) * oracle_price,
       AMM_RESERVE_PRECISION) + calculate_net_user_cost_basis(m)

(* The market's surplus as it follows from the pools instead of from the   *)
(* running total, which rounding lets drift.                               *)
calculate_perp_market_amm_summary_stats(m, oracle_price) ==
  m.pnl_pool + m.fee_pool - calculate_net_user_pnl(m, oracle_price)

get_unrealized_pnl(p, oracle_price) ==
  Quot(p.base_asset_amount * oracle_price, AMM_RESERVE_PRECISION) + p.quote_asset_amount

(* Beyond what its reductions realized, a user is only paid from what the  *)
(* pool does not owe to others.                                            *)
get_claimable_pnl(p, oracle_price, pnl_pool_excess) ==
  LET pnl == get_unrealized_pnl(p, oracle_price)
  IN  IF pnl > 0
        THEN Least(pnl, Greatest(0, p.quote_asset_amount - p.quote_entry_amount)
                        + Greatest(0, pnl_pool_excess))
        ELSE pnl

max_pnl_pool_excess(m, oracle_price) ==
  LET available == m.pnl_pool + m.fee_pool \div 5
      net_user_pnl == calculate_net_user_pnl(m, oracle_price)
  IN  IF net_user_pnl < available THEN available - Greatest(net_user_pnl, 0) ELSE 0

----------------------------------------------------------------------------
(* Settling with the pools.  A state `q' is [m, revenue_pool].             *)

FeePoolTarget(m) ==
  m.total_fee_minus_distributions + m.total_liquidation_fee - m.total_fee_withdrawn

(* The fee pool gives what it holds beyond the market's surplus to the pnl *)
(* pool, and takes from it what the protocol is owed.                      *)
FeePoolToPnlPool(m) ==
  LET excess == IF FeePoolTarget(m) <= m.fee_pool THEN m.fee_pool - Greatest(0, FeePoolTarget(m)) ELSE 0
  IN  [m EXCEPT !.fee_pool = @ - excess, !.pnl_pool = @ + excess]

PnlPoolToFeePool(m) ==
  LET missing == Greatest(0, Least(FeeReservedForProtocol(m) - m.fee_pool, m.pnl_pool))
  IN  [m EXCEPT !.fee_pool = @ + missing, !.pnl_pool = @ - missing]

(* A new period of the insurance fund renews what may be withdrawn.        *)
RenewRevenueWithdraw(m, last_revenue_settle_ts) ==
  IF last_revenue_settle_ts > m.last_revenue_withdraw_ts
    THEN [m EXCEPT !.revenue_withdraw_since_last_settle = 0] ELSE m

RevenueToPool(m) ==
  LET threshold == Greatest(0, m.fee_pool - (FEE_POOL_TO_REVENUE_POOL_THRESHOLD + m.total_social_loss))
      liquidation_fees == Least(m.total_liquidation_fee,
                                m.quote_settled_insurance + quote_max_insurance)
      max_revenue == Greatest(0, Least(m.revenue_withdraw_since_last_settle
                                         + max_revenue_withdraw_per_period,
                                       m.net_revenue_since_last_funding))
      owed == Greatest(0, get_total_fee_lower_bound(m) + liquidation_fees - m.total_fee_withdrawn)
  IN  Least(Least(owed, threshold), max_revenue)

RevenueFromPool(q, shortfall) ==
  Least(shortfall,
        Least(Least(Greatest(0, max_revenue_withdraw_per_period
                                  - q.m.revenue_withdraw_since_last_settle),
                    q.revenue_pool),
              max_revenue_withdraw_per_period))

(* Positive: fees go to the revenue pool.  Negative: a market in deficit   *)
(* draws on it.                                                            *)
calculate_revenue_pool_transfer(q) ==
  LET surplus == q.m.total_fee_minus_distributions - q.m.total_fee_withdrawn
                   - FEE_POOL_TO_REVENUE_POOL_THRESHOLD
  IN  IF surplus > 0 THEN RevenueToPool(q.m)
      ELSE IF surplus < 0 THEN -RevenueFromPool(q, -surplus)
      ELSE 0

(* Mutant: the market's side of the transfer only.                         *)
TransferRevenueOneSided(q, now) ==
  LET transfer == calculate_revenue_pool_transfer(q)
  IN  [q EXCEPT !.m.fee_pool = @ - transfer,
                !.m.total_fee_withdrawn = @ + Greatest(transfer, 0),
                !.m.total_fee_minus_distributions = @ - transfer,
                !.m.revenue_withdraw_since_last_settle = @ - transfer,
                !.m.last_revenue_withdraw_ts = now]

TransferRevenue(q, now) ==
  LET transfer == calculate_revenue_pool_transfer(q)
      moved == [q.m EXCEPT !.fee_pool = @ - transfer,
                           !.total_fee_withdrawn = @ + Greatest(transfer, 0),
                           !.total_fee_minus_distributions = @ - transfer,
                           !.revenue_withdraw_since_last_settle = @ - transfer,
                           !.last_revenue_withdraw_ts = now]
  IN  IF transfer = 0 THEN q
      ELSE [m |-> moved, revenue_pool |-> q.revenue_pool + transfer]

PoolsBeforeUser(q, last_revenue_settle_ts, now) ==
  TransferRevenue([q EXCEPT !.m = RenewRevenueWithdraw(PnlPoolToFeePool(FeePoolToPnlPool(@)),
                                                       last_revenue_settle_ts)], now)

(* A winner gets at most the pnl pool, a loser pays at most what it has    *)
(* and may borrow.  One hundredth of a loss goes to a fee pool that is     *)
(* short of its target.                                                    *)
PnlToSettle(m, user_unsettled_pnl, token_amount) ==
  IF user_unsettled_pnl > 0 THEN Least(user_unsettled_pnl, m.pnl_pool)
  ELSE Greatest(user_unsettled_pnl, -Greatest(0, token_amount + BorrowLimit))

update_pool_balances(q, user_unsettled_pnl, token_amount, last_revenue_settle_ts, now) ==
  LET before == PoolsBeforeUser(q, last_revenue_settle_ts, now)
      pnl == PnlToSettle(before.m, user_unsettled_pnl, token_amount)
      for_amm == IF FeePoolTarget(q.m) > q.m.fee_pool /\ pnl < 0 THEN (-pnl) \div 100 ELSE 0
  IN  [ q |-> [before EXCEPT !.m.fee_pool = @ + for_amm, !.m.pnl_pool = @ - pnl - for_amm],
        pnl |-> pnl ]

----------------------------------------------------------------------------
(* Winding a market down.                                                  *)

(* Mutant: the average price, whatever the pool can pay.                   *)
expiry_price_is_target(m, target_price) == target_price

(* The price at which the pool can pay everybody, no better than the       *)
(* oracle's average.                                                       *)
calculate_expiry_price(m, target_price) ==
  LET best == -Quot((m.quote_asset_amount - m.pnl_pool) * AMM_RESERVE_PRECISION,
                    m.base_asset_amount_with_amm)
  IN  IF m.base_asset_amount_with_amm = 0 THEN target_price
      ELSE IF m.base_asset_amount_with_amm > 0 THEN Least(best, target_price) - 1
      ELSE Greatest(best, target_price) + 1

ExpiryBudget(m) == calculate_fee_pool(m)

(* The surplus goes to the users: as tokens to the pnl pool, and as depth, *)
(* which lets the net position close at a better price.                    *)
ReleaseFeePool(m) ==
  LET transfer == Least(ExpiryBudget(m), Greatest(0, m.fee_pool - FeeReservedForProtocol(m)))
  IN  [m EXCEPT !.fee_pool = @ - transfer, !.pnl_pool = @ + transfer]

ExpiryK(m) ==
  Least((m.sqrt_k * calculate_budgeted_k_scale(m, ExpiryBudget(m), K_BPS_UPDATE_SCALE * ExpiryKScale,
                                               K_BPS_UPDATE_SCALE)) \div K_BPS_UPDATE_SCALE,
        MAX_SQRT_K)

ExpiryKValid(m) ==
  /\ BudgetedKScaleValid(m, ExpiryBudget(m))
  /\ UpdateKValid(m, ExpiryK(m), TRUE)
  /\ NetPositionClosable(m)
  /\ NetPositionClosable(update_k(m, get_update_k_result(m, ExpiryK(m))))
  /\ CostApplied(m, adjust_k_cost(m, get_update_k_result(m, ExpiryK(m))), TRUE)

SpendBudgetOnK(m) ==
  LET result == get_update_k_result(m, ExpiryK(m))
  IN  IF ExpiryBudget(m) > 0
        THEN update_k(apply_cost_to_market(m, adjust_k_cost(m, result)), result)
        ELSE m

SettleExpiredMarketValid(m, now) ==
  /\ m.expiry_ts # 0
  /\ m.expiry_ts <= now
  /\ m.base_asset_amount_with_unsettled_lp = 0
  /\ m.user_lp_shares = 0
  /\ FeeReservedForProtocol(m) >= 0
  /\ ExpiryBudget(m) > 0 => ExpiryKValid(ReleaseFeePool(m))

settle_expired_market(m, target_expiry_price) ==
  LET deepened == SpendBudgetOnK(ReleaseFeePool(m))
  IN  [deepened EXCEPT !.expiry_price = calculate_expiry_price(deepened, target_expiry_price),
                       !.status = "Settlement"]

(* A position is closed at the expiry price, for a fee.                    *)
calculate_base_asset_value_with_expiry_price(p, expiry_price) ==
  Quot(p.base_asset_amount * expiry_price, AMM_RESERVE_PRECISION)

ChargeClosingFee(r, value) ==
  update_quote_asset_and_break_even_amount(
    r.m, r.p, -Abs(Quot(value * fee_numerator, fee_denominator)))

ClosedAtExpiry(m, p) ==
  LET value == calculate_base_asset_value_with_expiry_price(p, m.expiry_price)
  IN  ChargeClosingFee(
        update_position_and_market(
          m, p, [base |-> -p.base_asset_amount, quote |-> value, remainder |-> 0, lp |-> FALSE]),
        value)

CloseFunded(r) == ClosedAtExpiry(r.m, r.p)

(* What the position is worth once its funding is settled and it is closed.*)
ExpiredPnl(m, p) == CloseFunded(settle_funding_payment(m, p)).p.quote_asset_amount

is_available(p) == p.base_asset_amount = 0 /\ p.quote_asset_amount = 0 /\ p.lp_shares = 0

PayOut(r, pnl) == update_quote_asset_amount([r.m EXCEPT !.pnl_pool = @ - pnl], r.p, -pnl)
PayClosed(r) == PayOut(r, r.p.quote_asset_amount)

settle_expired_position(m, p) ==
  [PayClosed(CloseFunded(settle_funding_payment(m, p)))
     EXCEPT !.m.base_asset_amount_with_amm = @ - p.base_asset_amount]

(* The pool must be able to pay, or nothing is settled.                    *)
SettleExpiredPositionValid(m, p, now, settlement_duration) ==
  /\ m.status = "Settlement"
  /\ now > m.expiry_ts + settlement_duration
  /\ p.lp_shares = 0
  /\ ExpiredPnl(m, p) <= m.pnl_pool
  /\ is_available(settle_expired_position(m, p).p)

(* What is left once everybody is paid goes to the revenue pool.           *)
PoolsToRevenuePoolValid(m, now, settlement_duration, TWENTY_FOUR_HOUR) ==
  /\ m.status = "Settlement"
  /\ m.base_asset_amount_long = 0
  /\ m.base_asset_amount_short = 0
  /\ m.number_of_users_with_base = 0
  /\ calculate_net_user_cost_basis(m) = 0
  /\ settlement_duration # 0
  /\ now > m.expiry_ts + (IF settlement_duration > 1
                            THEN TWENTY_FOUR_HOUR + settlement_duration - 1 ELSE settlement_duration)

PoolsToRevenuePool(q) ==
  [ m |-> [q.m EXCEPT !.fee_pool = 0, !.pnl_pool = 0, !.status = "Delisted"],
    revenue_pool |-> q.revenue_pool + q.m.fee_pool + q.m.pnl_pool ]
----------------------------------------------------------------------------
(* A market as it opens, and with a first LP.                              *)

EmptyPerpMarket ==
  [ status |-> "Active", expiry_ts |-> 0, expiry_price |-> 0,
    base_asset_reserve |-> InitialSqrtK, quote_asset_reserve |-> InitialSqrtK,
    sqrt_k |-> InitialSqrtK, peg_multiplier |-> InitialPeg,
    terminal_quote_asset_reserve |-> InitialSqrtK,
    min_base_asset_reserve |-> 0, max_base_asset_reserve |-> 0,
    concentration_coef |-> MAX_CONCENTRATION_COEFFICIENT,
    long_spread |-> 0, short_spread |-> 0,
    ask_base_asset_reserve |-> 0, ask_quote_asset_reserve |-> 0,
    bid_base_asset_reserve |-> 0, bid_quote_asset_reserve |-> 0,
    spread_inputs |-> [long |-> base_spread \div 2, short |-> base_spread \div 2],
    user_lp_shares |-> 0,
    base_asset_amount_with_amm |-> 0, base_asset_amount_with_unsettled_lp |-> 0,
    quote_asset_amount_with_unsettled_lp |-> 0,
    base_asset_amount_long |-> 0, base_asset_amount_short |-> 0, quote_asset_amount |-> 0,
    quote_entry_amount_long |-> 0, quote_entry_amount_short |-> 0,
    quote_break_even_amount_long |-> 0, quote_break_even_amount_short |-> 0,
    base_asset_amount_per_lp |-> 0, quote_asset_amount_per_lp |-> 0, per_lp_base |-> 0,
    cumulative_funding_rate_long |-> 0, cumulative_funding_rate_short |-> 0,
    net_unsettled_funding_pnl |-> 0, last_funding_rate_ts |-> 0,
    total_fee_minus_distributions |-> InitialFeePool, total_exchange_fee |-> 0,
    total_liquidation_fee |-> 0, total_fee_withdrawn |-> 0,
    net_revenue_since_last_funding |-> 0, total_social_loss |-> 0,
    quote_settled_insurance |-> 0, revenue_withdraw_since_last_settle |-> 0,
    last_revenue_withdraw_ts |-> 0,
    number_of_users |-> 0, number_of_users_with_base |-> 0,
    pnl_pool |-> 0, fee_pool |-> InitialFeePool ]

NewMarket == update_spreads(RefreshTerminal(EmptyPerpMarket))
FirstLp(shares) == mint_lp_shares(NewMarket, EmptyPosition, shares)

(* What the net position of all users would be paid by the curve.          *)
SignedCurveValue(m) == Sign(m.base_asset_amount_with_amm) * calculate_base_asset_value(m)
================================================================================
