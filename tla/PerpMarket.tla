------------------------------ MODULE PerpMarket ------------------------------
(***************************************************************************)
(* One perp market from its first fill to its delisting: users trade with  *)
(* the AMM and with each other, provide liquidity, pay funding and settle  *)
(* pnl; keepers and the admin move the curve; the market expires and is    *)
(* wound down.  One action per instruction handler (instructions/keeper.rs,*)
(* instructions/user.rs, instructions/admin.rs); every step of a handler   *)
(* is in its action.                                                       *)
(*                                                                         *)
(* The oracle, the averages that funding rates and spreads follow from and *)
(* the insurance fund's periods are the environment's.  Margin is          *)
(* Liquidation's: here users are allowed what they ask for.                *)
(***************************************************************************)
EXTENDS PerpPools, Sums

CONSTANTS
  Users,
  Scenarios,             \* see ScenarioAssumption
  LpSizes,               \* LP shares added or removed at a time
  ExpoDiffs,             \* changes of the unit of the totals per share, -1 or 1
  FundingRates,          \* the rates that the price averages may ask for
  Quotes,                \* prices with the spreads that averages and volatility then ask for
  Pegs, ConcentrationScales, FeePoolDeposits, ExpiryDelays,
  InitialRevenuePool, InitialTokens,
  lp_cooldown_time, settlement_duration, TWENTY_FOUR_HOUR,
  MAX_UPDATE_K_PRICE_CHANGE,
  MaxPerLpBase,          \* how far the unit of the totals per share may be moved
  MaxRounding            \* what the divisions of one transaction may lose

(* The groups of handlers.                                                 *)
Operations == {"trade", "match", "lp", "funding", "curve", "admin", "pnl", "expiry", "oracle"}

(* What a behaviour is about: the handlers that are called, the referrers  *)
(* of users and who fills orders, NoUser for nobody, the base of orders and*)
(* the prices of makers, what the first LP, if any, has added, the k and   *)
(* the prices at expiry that may be asked for, the length of a funding     *)
(* period, and the bounds on time and on transactions.                     *)
ASSUME ScenarioAssumption ==
  \A x \in Scenarios :
    /\ x.operations \subseteq Operations
    /\ x.referrer \in [Users -> Users \cup {NoUser}]
    /\ x.fillers \subseteq Users \cup {NoUser}
    /\ x.order_sizes \cup x.limit_prices \cup x.sqrt_ks \cup x.oracle_prices \subseteq Nat \ {0}
    /\ \A base \in x.order_sizes : is_multiple_of_step_size(base, order_step_size)
    /\ x.initial_lp_shares \subseteq Nat
    /\ x.funding_period \in Nat \ {0}
    /\ x.max_time \in Nat /\ x.max_transactions \in Nat

(* What the environment may ask for, and what the accounts start with.  The*)
(* unit of the totals per share never gets smaller than one.               *)
ASSUME EnvironmentAssumption ==
  /\ IsFiniteSet(Users) /\ NoUser \notin Users
  /\ LpSizes \cup FeePoolDeposits \subseteq Nat
  /\ Pegs \cup ConcentrationScales \cup ExpiryDelays \subseteq Nat \ {0}
  /\ ExpoDiffs \subseteq {-1, 1} /\ FundingRates \subseteq Int
  /\ \A quote \in Quotes :
       /\ quote.price \in Nat \ {0}
       /\ quote.spreads \in [{"long", "short"} -> 0 .. BID_ASK_SPREAD_PRECISION]
  /\ InitialRevenuePool \in Nat /\ InitialTokens \in Int
  /\ {lp_cooldown_time, settlement_duration, TWENTY_FOUR_HOUR, MaxPerLpBase} \subseteq Nat
  /\ \A n \in 0 .. MaxPerLpBase : Pow10[n] <= AMM_RESERVE_PRECISION

VARIABLES
  scenario,
  market,
  positions,
  tokens,                      \* each user's quote deposit; negative is a borrow
  last_add_perp_lp_shares_ts,
  revenue_pool,
  last_revenue_settle_ts,      \* the insurance fund's last period
  oracle_price,
  now,
  transactions,
  funding_due,                 \* history: rate times base that a position has not paid yet
  deposited                    \* history: what admins put into the fee pool

vars == <<scenario, market, positions, tokens, last_add_perp_lp_shares_ts, revenue_pool,
          last_revenue_settle_ts, oracle_price, now, transactions, funding_due, deposited>>

s0 == [m |-> market, positions |-> positions]

Directions == {"Long", "Short"}

Init ==
  /\ scenario \in Scenarios
  /\ \E u \in Users, shares \in scenario.initial_lp_shares :
       IF shares = 0
         THEN market = NewMarket /\ positions = [v \in Users |-> EmptyPosition]
         ELSE /\ UpdateKValid(NewMarket, InitialSqrtK + shares, TRUE)
              /\ market = FirstLp(shares).m
              /\ positions = [v \in Users |-> IF v = u THEN FirstLp(shares).p ELSE EmptyPosition]
  /\ tokens = [u \in Users |-> InitialTokens]
  /\ last_add_perp_lp_shares_ts = [u \in Users |-> 0]
  /\ revenue_pool = InitialRevenuePool
  /\ last_revenue_settle_ts = 0
  /\ oracle_price = InitialPeg
  /\ now = 0
  /\ transactions = 0
  /\ funding_due = [u \in Users |-> 0]
  /\ deposited = 0

----------------------------------------------------------------------------

(* A transaction of one of the groups of handlers that are called.         *)
Call(operation) == operation \in scenario.operations /\ transactions < scenario.max_transactions

(* What every handler does to the market and to positions.  The users in   *)
(* `settled' paid their funding first; a rate that the handler adds at its *)
(* end is owed on the positions it leaves.                                 *)
Commit(s, settled) ==
  /\ transactions' = transactions + 1
  /\ market' = s.m
  /\ positions' = s.positions
  /\ funding_due' =
       [u \in Users |->
          LET base == s.positions[u].base_asset_amount
          IN  (IF u \in settled THEN 0 ELSE funding_due[u])
                + (CumulativeFundingRate(s.m, base) - CumulativeFundingRate(market, base)) * base]

CommitMarket(m) == Commit([m |-> m, positions |-> positions], {})

PoolsUnchanged == UNCHANGED <<tokens, revenue_pool, last_revenue_settle_ts, deposited>>
EnvironmentUnchanged == UNCHANGED <<scenario, oracle_price, now, last_add_perp_lp_shares_ts>>

update_amm(s) == [s EXCEPT !.m = _update_amm(@, oracle_price)]

FundingIsDue(m) == on_the_hour_update(now, m.last_funding_rate_ts, scenario.funding_period) = 0

(* The markets that an update of the funding rate may leave.               *)
FundingUpdates(m) ==
  {update_funding_rate(m, rate, now) : rate \in {r \in FundingRates : UpdateFundingRateValid(m, r)}}

(* Every fill tries to update the funding rate at its end.                 *)
CommitFill(s, settled) ==
  IF FundingIsDue(s.m)
    THEN \E m \in FundingUpdates(s.m) : Commit([s EXCEPT !.m = m], settled)
    ELSE Commit(s, settled)

----------------------------------------------------------------------------
(* Trading.                                                                *)

MarketFills == market.status \in {"Active", "ReduceOnly"}
is_in_settlement(m) ==
  m.status \in {"Settlement", "Delisted"} \/ (m.expiry_ts # 0 /\ now >= m.expiry_ts)

(* In a market that only reduces, an order fills no more than it reduces.  *)
OrderBase(m, p, base, direction) ==
  IF m.status # "ReduceOnly" THEN base
  ELSE IF (direction = "Long") = (p.base_asset_amount < 0) /\ p.base_asset_amount # 0
    THEN Least(base, Abs(p.base_asset_amount)) ELSE 0

ReadyToFill(taker) ==
  SettleFundingThenLp(update_amm(s0), taker)

CanFill(s, taker) ==
  /\ MarketFills
  /\ ~is_in_settlement(market)
  /\ UpdateAmmValid(market, oracle_price)
  /\ SettleFundingThenLpValid(update_amm(s0), taker)
  /\ validate_perp_market(s.m)

AmmFill(s, taker, base, direction, price, filler) ==
  [ taker |-> taker,
    base |-> Least(OrderBase(s.m, s.positions[taker], base, direction),
                   calculate_amm_available_liquidity(s.m, direction)),
    direction |-> direction, fill_price |-> price, post_only |-> price # 0, split |-> "Shared",
    filler |-> filler, referrer |-> scenario.referrer[taker] ]

FillWithAmm(taker, base, direction, price, filler) ==
  /\ Call("trade")
  /\ filler # taker
  /\ \E s \in {ReadyToFill(taker)} :
       /\ CanFill(s, taker)
       /\ \E f \in {AmmFill(s, taker, base, direction, price, filler)} :
            /\ f.base >= AmmSizeThreshold(s.m, s.positions[taker])
            /\ FillWithAmmValid(s, f)
            /\ \E filled \in {fulfill_perp_order_with_amm(s, f)} : CommitFill(filled, {taker})
  /\ PoolsUnchanged
  /\ EnvironmentUnchanged

Match(s, taker, maker, taker_base, maker_base, direction, price, filler) ==
  LET taken == OrderBase(s.m, s.positions[taker], taker_base, direction)
      made == OrderBase(s.m, s.positions[maker], maker_base, Opposite(direction))
  IN  [ taker |-> taker, maker |-> maker, base |-> Least(taken, made), taker_base |-> taken,
        maker_base |-> made, direction |-> direction, price |-> price, filler |-> filler,
        referrer |-> scenario.referrer[taker] ]

(* A maker's funding is settled as its orders are collected; its LP shares *)
(* are not.  A taker without a limit price goes on to the AMM.             *)
FillWithMatch(taker, maker, taker_base, maker_base, direction, price, has_limit_price, filler) ==
  /\ Call("match")
  /\ taker # maker
  /\ filler \notin {taker, maker}
  /\ \E s \in {SettleFunding(ReadyToFill(taker), maker)} :
       /\ CanFill(s, taker)
       /\ \E t \in {Match(s, taker, maker, taker_base, maker_base, direction, price, filler)} :
            LET amm_fills_next == ~has_limit_price /\ t.maker_base < t.taker_base
            IN  /\ t.base > 0
                /\ FillWithMatchValid(s, t, oracle_price, amm_fills_next)
                /\ \E filled \in {fulfill_perp_order_with_match(s, t, oracle_price, amm_fills_next)} :
                     CommitFill(filled, {taker, maker})
  /\ PoolsUnchanged
  /\ EnvironmentUnchanged

----------------------------------------------------------------------------
(* Liquidity providers.                                                    *)

AddPerpLpShares(u, n_shares) ==
  LET shares == standardize_base_asset_amount(n_shares, order_step_size)
  IN  /\ Call("lp")
      /\ market.status = "Active"
      /\ n_shares >= order_step_size
      /\ \E s \in {SettleFunding(s0, u)} :
           /\ s.positions[u].lp_shares > 0 => SettleLpValid(s.m, s.positions[u])
           /\ UpdateKValid(s.m, s.m.sqrt_k + shares, TRUE)
           /\ \E minted \in {With(s, u, mint_lp_shares(s.m, s.positions[u], shares))} :
                /\ validate_perp_market(minted.m)
                /\ Commit(minted, {u})
      /\ last_add_perp_lp_shares_ts' = [last_add_perp_lp_shares_ts EXCEPT ![u] = now]
      /\ PoolsUnchanged
      /\ UNCHANGED <<scenario, oracle_price, now>>

SharesToBurn(u, shares) ==
  IF shares = positions[u].lp_shares THEN shares
  ELSE standardize_base_asset_amount(shares, order_step_size)

(* The owner removes shares; in a market that only reduces anybody may.    *)
RemovePerpLpShares(u, shares) ==
  /\ Call("lp")
  /\ SharesToBurn(u, shares) \in 1 .. positions[u].lp_shares
  /\ now - last_add_perp_lp_shares_ts[u] >= lp_cooldown_time
  /\ \E s \in {SettleFunding(s0, u)} :
       /\ BurnValid(s.m, s.positions[u], SharesToBurn(u, shares), oracle_price)
       /\ \E burnt \in {With(s, u, burn_lp_shares(s.m, s.positions[u], SharesToBurn(u, shares),
                                                 oracle_price))} :
            /\ validate_perp_market(burnt.m)
            /\ Commit(burnt, {u})
  /\ PoolsUnchanged
  /\ EnvironmentUnchanged

SettleLp(u) ==
  /\ Call("lp")
  /\ positions[u].lp_shares > 0
  /\ SettleFundingThenLpValid(s0, u)
  /\ \E s \in {SettleFundingThenLp(s0, u)} :
       /\ validate_perp_market(s.m)
       /\ Commit(s, {u})
  /\ PoolsUnchanged
  /\ EnvironmentUnchanged

(* The admin keeps the totals per share in a unit they fit in.             *)
UpdatePerLpBase(expo_diff) ==
  LET m == apply_lp_rebase_to_perp_market(market, expo_diff)
  IN  /\ Call("lp")
      /\ Abs(m.per_lp_base) <= MaxPerLpBase
      /\ validate_perp_market(m)
      /\ CommitMarket(m)
      /\ PoolsUnchanged
      /\ EnvironmentUnchanged

----------------------------------------------------------------------------
(* Funding.                                                                *)

UpdateFundingRate ==
  /\ Call("funding")
  /\ MarketFills
  /\ UpdateAmmValid(market, oracle_price)
  /\ \E m \in {_update_amm(market, oracle_price)} :
       /\ FundingIsDue(m)
       /\ \E updated \in FundingUpdates(m) : CommitMarket(updated)
  /\ PoolsUnchanged
  /\ EnvironmentUnchanged

SettleFundingPayment(u) ==
  /\ Call("funding")
  /\ positions[u].base_asset_amount # 0
  /\ ~FundingUpToDate(market, positions[u])
  /\ \E s \in {SettleFunding(s0, u)} : Commit(s, {u})
  /\ PoolsUnchanged
  /\ EnvironmentUnchanged

----------------------------------------------------------------------------
(* The curve.                                                              *)

UpdateAmms ==
  /\ Call("curve")
  /\ UpdateAmmValid(market, oracle_price)
  /\ \E m \in {_update_amm(market, oracle_price)} : market # m /\ CommitMarket(m)
  /\ PoolsUnchanged
  /\ EnvironmentUnchanged

RepegAmmCurve(new_peg) ==
  /\ Call("curve")
  /\ RepegValid(market, new_peg, oracle_price, 0)
  /\ CommitMarket(repeg(market, new_peg))
  /\ PoolsUnchanged
  /\ EnvironmentUnchanged

(* The admin's k: the cost is charged, and must be one.                    *)
UpdateK(new_sqrt_k) ==
  LET result == get_update_k_result(market, new_sqrt_k)
      cost == adjust_k_cost(market, result)
      m == update_k(market, result)
  IN  /\ Call("curve")
      /\ new_sqrt_k # market.sqrt_k
      /\ UpdateKValid(market, new_sqrt_k, TRUE)
      /\ NetPositionClosable(market)
      /\ NetPositionClosable(m)
      /\ IF new_sqrt_k > market.sqrt_k THEN cost >= 0 ELSE cost <= 0
      /\ cost <= Greatest(0, market.total_fee_minus_distributions - get_total_fee_lower_bound(market)
                               - market.total_fee_withdrawn)
      /\ new_sqrt_k > market.sqrt_k => new_sqrt_k < MAX_SQRT_K
      /\ new_sqrt_k > market.user_lp_shares
      /\ Abs(reserve_price(m) - reserve_price(market)) <= MAX_UPDATE_K_PRICE_CHANGE
      /\ CommitMarket(apply_cost_to_market(m, cost))
      /\ PoolsUnchanged
      /\ EnvironmentUnchanged

MoveAmmPrice(base, sqrt_k) ==
  LET m == move_price(market, base, sqrt_k)
  IN  /\ Call("admin")
      /\ MovePriceValid(market, base, (sqrt_k * sqrt_k) \div base, sqrt_k)
      /\ validate_perp_market(m)
      /\ CommitMarket(m)
      /\ PoolsUnchanged
      /\ EnvironmentUnchanged

RecenterPerpMarketAmm(peg, sqrt_k) ==
  LET m == recenter_perp_market_amm(market, peg, sqrt_k)
  IN  /\ Call("admin")
      /\ RecenterValid(market, sqrt_k)
      /\ validate_perp_market(m)
      /\ CommitMarket(m)
      /\ PoolsUnchanged
      /\ EnvironmentUnchanged

UpdateConcentrationCoef(scale) ==
  /\ Call("curve")
  /\ ConcentrationValid(market, scale)
  /\ CommitMarket(update_concentration_coef(market, scale))
  /\ PoolsUnchanged
  /\ EnvironmentUnchanged

----------------------------------------------------------------------------
(* Pnl.                                                                    *)

(* The authority of the user calls it, or anybody when the pool has more   *)
(* than it owes.  A user whom the pool cannot pay has its funding and LP   *)
(* shares settled all the same.                                            *)
SettleWithPools(s, u) ==
  update_pool_balances(
    [m |-> s.m, revenue_pool |-> revenue_pool],
    get_claimable_pnl(s.positions[u], oracle_price, max_pnl_pool_excess(s.m, oracle_price)),
    tokens[u], last_revenue_settle_ts, now)

SettlePnl(u) ==
  /\ Call("pnl")
  /\ ~is_available(positions[u])
  /\ UpdateAmmValid(market, oracle_price)
  /\ SettleFundingThenLpValid(update_amm(s0), u)
  /\ \E s \in {SettleFundingThenLp(update_amm(s0), u)} :
       /\ IF s.positions[u].base_asset_amount # 0 THEN market.status = "Active" ELSE MarketFills
       /\ \E settled \in {SettleWithPools(s, u)} :
            /\ \E paid \in {Pay([s EXCEPT !.m = settled.q.m], u, -settled.pnl)} :
                 /\ settled.pnl # 0 => validate_perp_market(paid.m)
                 /\ Commit(paid, {u})
            /\ tokens' = [tokens EXCEPT ![u] = @ + settled.pnl]
            /\ revenue_pool' = settled.q.revenue_pool
  /\ UNCHANGED <<last_revenue_settle_ts, deposited>>
  /\ EnvironmentUnchanged

DepositIntoPerpMarketFeePool(amount) ==
  /\ Call("pnl")
  /\ CommitMarket([market EXCEPT !.total_fee_minus_distributions = @ + amount,
                                 !.fee_pool = @ + amount])
  /\ deposited' = deposited + amount
  /\ UNCHANGED <<tokens, revenue_pool, last_revenue_settle_ts>>
  /\ EnvironmentUnchanged

UpdateAmmSummaryStats ==
  LET m == [market EXCEPT !.total_fee_minus_distributions =
                            calculate_perp_market_amm_summary_stats(market, oracle_price)]
  IN  /\ Call("admin")
      /\ m # market
      /\ validate_perp_market(m)
      /\ CommitMarket(m)
      /\ PoolsUnchanged
      /\ EnvironmentUnchanged

----------------------------------------------------------------------------
(* Winding the market down.                                                *)

UpdatePerpMarketExpiry(expiry_ts) ==
  /\ Call("expiry")
  /\ now < expiry_ts
  /\ market.status # "Delisted"
  /\ CommitMarket([market EXCEPT !.status = "ReduceOnly", !.expiry_ts = expiry_ts])
  /\ PoolsUnchanged
  /\ EnvironmentUnchanged

SettleExpiredMarket(target_expiry_price) ==
  /\ Call("expiry")
  /\ market.expiry_ts # 0
  /\ UpdateAmmValid(market, oracle_price)
  /\ \E m \in {_update_amm(market, oracle_price)} :
       /\ SettleExpiredMarketValid(m, now)
       /\ CommitMarket(settle_expired_market(m, target_expiry_price))
  /\ PoolsUnchanged
  /\ EnvironmentUnchanged

SettleExpiredPosition(u) ==
  /\ Call("expiry")
  /\ ~is_available(positions[u])
  /\ SettleExpiredPositionValid(market, positions[u], now, settlement_duration)
  /\ \E s \in {With(s0, u, settle_expired_position(market, positions[u]))} : Commit(s, {u})
  /\ tokens' = [tokens EXCEPT ![u] = @ + ExpiredPnl(market, positions[u])]
  /\ UNCHANGED <<revenue_pool, last_revenue_settle_ts, deposited>>
  /\ EnvironmentUnchanged

SettleExpiredMarketPoolsToRevenuePool ==
  LET q == PoolsToRevenuePool([m |-> market, revenue_pool |-> revenue_pool])
  IN  /\ Call("expiry")
      /\ PoolsToRevenuePoolValid(market, now, settlement_duration, TWENTY_FOUR_HOUR)
      /\ CommitMarket(q.m)
      /\ revenue_pool' = q.revenue_pool
      /\ UNCHANGED <<tokens, last_revenue_settle_ts, deposited>>
      /\ EnvironmentUnchanged

----------------------------------------------------------------------------
(* The environment.                                                        *)

LedgerUnchanged == UNCHANGED <<scenario, positions, tokens, last_add_perp_lp_shares_ts, transactions,
                               funding_due, deposited>>

(* Spreads follow when the AMM is next updated.                            *)
OracleMoves(quote) ==
  /\ Call("oracle")
  /\ quote.price # oracle_price
  /\ oracle_price' = quote.price
  /\ market' = [market EXCEPT !.spread_inputs = quote.spreads]
  /\ UNCHANGED <<revenue_pool, last_revenue_settle_ts, now>>
  /\ LedgerUnchanged

Tick ==
  /\ now < scenario.max_time
  /\ now' = now + 1
  /\ UNCHANGED <<market, revenue_pool, last_revenue_settle_ts, oracle_price>>
  /\ LedgerUnchanged

(* The insurance fund settles its revenue: a new period for every market.  *)
InsurancePeriodPasses ==
  /\ Call("pnl")
  /\ last_revenue_settle_ts < now
  /\ last_revenue_settle_ts' = now
  /\ UNCHANGED <<market, revenue_pool, oracle_price, now>>
  /\ LedgerUnchanged

Next ==
  \/ \E taker \in Users, filler \in scenario.fillers, base \in scenario.order_sizes, direction \in Directions,
        price \in scenario.limit_prices \cup {0} :
       FillWithAmm(taker, base, direction, price, filler)
  \/ \E taker, maker \in Users, filler \in scenario.fillers, base, maker_base \in scenario.order_sizes,
        direction \in Directions, price \in scenario.limit_prices, has_limit_price \in BOOLEAN :
       FillWithMatch(taker, maker, base, maker_base, direction, price, has_limit_price, filler)
  \/ \E u \in Users, shares \in LpSizes : AddPerpLpShares(u, shares)
  \/ \E u \in Users, shares \in LpSizes : RemovePerpLpShares(u, shares)
  \/ \E u \in Users : SettleLp(u)
  \/ \E expo_diff \in ExpoDiffs : UpdatePerLpBase(expo_diff)
  \/ UpdateFundingRate
  \/ \E u \in Users : SettleFundingPayment(u)
  \/ UpdateAmms
  \/ \E peg \in Pegs : RepegAmmCurve(peg)
  \/ \E k \in scenario.sqrt_ks : UpdateK(k)
  \/ \E scale \in ConcentrationScales : UpdateConcentrationCoef(scale)
  \/ \E base, k \in scenario.sqrt_ks : MoveAmmPrice(base, k)
  \/ \E peg \in Pegs, k \in scenario.sqrt_ks : RecenterPerpMarketAmm(peg, k)
  \/ UpdateAmmSummaryStats
  \/ \E u \in Users : SettlePnl(u)
  \/ \E amount \in FeePoolDeposits : DepositIntoPerpMarketFeePool(amount)
  \/ \E delay \in ExpiryDelays : UpdatePerpMarketExpiry(now + delay)
  \/ \E price \in scenario.oracle_prices : SettleExpiredMarket(price)
  \/ \E u \in Users : SettleExpiredPosition(u)
  \/ SettleExpiredMarketPoolsToRevenuePool
  \/ \E quote \in Quotes : OracleMoves(quote)
  \/ InsurancePeriodPasses
  \/ Tick

Spec == Init /\ [][Next]_vars

----------------------------------------------------------------------------
(* Properties.                                                             *)

(* The program may be in these states.                                     *)
TypeOK ==
  /\ market.status \in {"Active", "ReduceOnly", "Settlement", "Delisted"}
  /\ \A u \in Users : /\ positions[u].lp_shares \in Nat
                      /\ is_multiple_of_step_size(positions[u].base_asset_amount, order_step_size)
                      /\ Abs(positions[u].remainder_base_asset_amount) < order_step_size
  /\ now \in 0 .. scenario.max_time
  /\ transactions \in 0 .. scenario.max_transactions
  /\ market.pnl_pool \in Nat /\ revenue_pool \in Nat /\ market.number_of_users_with_base \in Nat

(* The totals a market keeps about its positions add up, whatever mix of   *)
(* fills, flips, LP settlements, burns and fees changed the positions      *)
(* (controller/position.rs update_position_and_market,                     *)
(* update_quote_asset_amount, update_quote_break_even_amount).             *)
PositionTotalsMatch ==
  /\ market.base_asset_amount_long + market.base_asset_amount_short
       = TotalOf([u \in Users |-> positions[u].base_asset_amount])
  /\ market.quote_asset_amount = TotalOf([u \in Users |-> positions[u].quote_asset_amount])
  /\ market.quote_entry_amount_long + market.quote_entry_amount_short
       = TotalOf([u \in Users |-> positions[u].quote_entry_amount])
  /\ market.quote_break_even_amount_long + market.quote_break_even_amount_short
       = TotalOf([u \in Users |-> positions[u].quote_break_even_amount])
  /\ market.user_lp_shares = TotalOf([u \in Users |-> positions[u].lp_shares])

(* Each side's open interest is what the positions on that side hold, as   *)
(* the fields of AMM are documented (state/perp_market.rs).                *)
OpenInterestIsPositions ==
  /\ market.base_asset_amount_long
       = TotalOf([u \in Users |-> Greatest(positions[u].base_asset_amount, 0)])
  /\ market.base_asset_amount_short
       = TotalOf([u \in Users |-> Least(positions[u].base_asset_amount, 0)])

(* No sequence of calls leaves a market that validate_perp_market refuses: *)
(* every later handler would abort on it (validation/perp_market.rs).  Once*)
(* the market was settled the curve is not kept any more, and an admin who *)
(* sets a new expiry reopens it as it is.                                  *)
MarketStaysValid ==
  (market.status \in {"Active", "ReduceOnly"} /\ market.expiry_price = 0)
    => validate_perp_market(market)

(* A position owes the rates that were added while it was held, each once  *)
(* (controller/funding.rs settle_funding_payment).                         *)
FundingOwedOnce ==
  \A u \in Users :
    (CumulativeFundingRate(market, positions[u].base_asset_amount)
       - positions[u].last_cumulative_funding_rate) * positions[u].base_asset_amount = funding_due[u]

UnpaidFunding == TotalOf([u \in Users |-> calculate_funding_payment(market, positions[u])])

(* What the market records as its surplus, total_fee_minus_distributions,  *)
(* is what would be left of its pools if every position closed against the *)
(* curve, up to a rounding error per transaction: no fill, repeg, change   *)
(* of k or funding payment gives away quote that is not charged            *)
(* (controller/amm.rs, controller/repeg.rs, controller/funding.rs).        *)
SurplusIsReal ==
  (market.status = "Active" /\ market.user_lp_shares = 0)
    => Abs(market.pnl_pool + market.fee_pool - market.quote_asset_amount - UnpaidFunding
             - SignedCurveValue(market) - market.total_fee_minus_distributions)
         <= MaxRounding * (transactions + 1)

(* Tokens only move between users and pools                                *)
(* (controller/amm.rs update_pool_balances, controller/pnl.rs).            *)
TokensConserved ==
  market.pnl_pool + market.fee_pool + revenue_pool + TotalOf(tokens)
    = InitialFeePool + InitialRevenuePool + Cardinality(Users) * InitialTokens + deposited

(* The last LP can always leave: what rounding left over stays within the  *)
(* step that burn_lp_shares allows (controller/lp.rs).                     *)
LastLpCanLeave ==
  \A u \in Users :
    (positions[u].lp_shares > 0 /\ positions[u].lp_shares = market.user_lp_shares)
      => LET settled == SettleFundingThenLp(s0, u)
         IN  Abs(UnsettledRemainder(settled.m, settled.positions[u])) <= order_step_size

(* At the expiry price the pool can pay every position that is left        *)
(* (math/amm.rs calculate_expiry_price).                                   *)
SettlementAffordable ==
  market.status = "Settlement"
    => TotalOf([u \in Users |-> ExpiredPnl(market, positions[u])]) <= market.pnl_pool
===============================================================================
