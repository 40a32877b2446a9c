----------------------------- MODULE PerpPositions -----------------------------
(***************************************************************************)
(* A user's position in a perp market and the totals the market keeps      *)
(* about all of them (controller/position.rs, math/position.rs), the       *)
(* shares of liquidity providers (controller/lp.rs, math/lp.rs) and        *)
(* funding (controller/funding.rs, math/funding.rs).                       *)
(*                                                                         *)
(* An operation takes the market `m' and the position `p' and returns both *)
(* as the record [m, p].  A delta is [base, quote, remainder, lp]: lp says *)
(* that remainder_base_asset_amount is Some(remainder), which is how the   *)
(* code marks the settlement of an LP.                                     *)
(***************************************************************************)
EXTENDS AmmCurve

CONSTANTS
  FUNDING_RATE_BUFFER,
  MAX_BASE_ASSET_AMOUNT_WITH_AMM,
  LP_FEE_SLICE_NUMERATOR,
  LP_FEE_SLICE_DENOMINATOR

ASSUME PositionsAssumption ==
  /\ {FUNDING_RATE_BUFFER, LP_FEE_SLICE_DENOMINATOR} \subseteq Nat \ {0}
  /\ LP_FEE_SLICE_NUMERATOR \in 0 .. LP_FEE_SLICE_DENOMINATOR
  /\ MAX_BASE_ASSET_AMOUNT_WITH_AMM \in Nat

EmptyPosition ==
  [ base_asset_amount |-> 0, quote_asset_amount |-> 0, quote_entry_amount |-> 0,
    quote_break_even_amount |-> 0, remainder_base_asset_amount |-> 0,
    last_cumulative_funding_rate |-> 0, lp_shares |-> 0, last_base_asset_amount_per_lp |-> 0,
    last_quote_asset_amount_per_lp |-> 0, per_lp_base |-> 0 ]

get_position_delta_for_fill(base_asset_amount, quote_asset_amount, direction) ==
  IF direction = "Long"
    THEN [base |-> base_asset_amount, quote |-> -quote_asset_amount, remainder |-> 0, lp |-> FALSE]
    ELSE [base |-> -base_asset_amount, quote |-> quote_asset_amount, remainder |-> 0, lp |-> FALSE]

(* The quote of a fill at a given price, rounded against the user.         *)
calculate_quote_asset_amount_for_maker_order(base_asset_amount, fill_price, direction) ==
  IF direction = "Long" THEN (base_asset_amount * fill_price) \div AMM_RESERVE_PRECISION
  ELSE QuotCeil(base_asset_amount * fill_price, AMM_RESERVE_PRECISION)

BaseWithRemainder(p) == p.base_asset_amount + p.remainder_base_asset_amount
NoBase(p) == p.base_asset_amount = 0 /\ p.remainder_base_asset_amount = 0

get_position_update_type(p, delta) ==
  LET position == BaseWithRemainder(p)
      change == delta.base + delta.remainder
  IN  IF NoBase(p) THEN "Open"
      ELSE IF Sign(position) = Sign(change) THEN "Increase"
      ELSE IF Abs(position) > Abs(change) THEN "Reduce"
      ELSE IF Abs(position) = Abs(change) THEN "Close"
      ELSE "Flip"

(* Mutant: whole steps stay in the remainder.                              *)
amounts_never_carried(p, delta) ==
  [ base |-> p.base_asset_amount + delta.base, settled |-> delta.base,
    quote |-> p.quote_asset_amount + delta.quote,
    remainder |-> p.remainder_base_asset_amount + delta.remainder ]

(* The remainder of an LP settlement that adds up to a step becomes base.  *)
get_new_position_amounts(p, delta) ==
  LET remainder == p.remainder_base_asset_amount + delta.remainder
      carried == IF delta.lp /\ Abs(remainder) >= order_step_size
                   THEN standardize_base_asset_amount(remainder, order_step_size) ELSE 0
  IN  [ base |-> p.base_asset_amount + delta.base + carried,
        settled |-> delta.base + carried,
        quote |-> p.quote_asset_amount + delta.quote,
        remainder |-> remainder - carried ]

(* The entry or break-even amount that the part of a position keeps.       *)
PartKept(amount, p, delta) ==
  amount - Quot(amount * Abs(delta.base + delta.remainder), Abs(BaseWithRemainder(p)))

NewEntryAmount(amount, p, delta, update_type) ==
  CASE update_type \in {"Open", "Increase"} -> amount + delta.quote
    [] update_type \in {"Reduce", "Close"} -> PartKept(amount, p, delta)
    [] update_type = "Flip" ->
         delta.quote - Quot(delta.quote * Abs(BaseWithRemainder(p)),
                            Abs(delta.base + delta.remainder))

(* Mutant: a step carried over from the remainder is not counted.          *)
counterparty_without_carried(m, delta, settled) ==
  IF delta.lp
    THEN [m EXCEPT !.base_asset_amount_with_unsettled_lp = @ + delta.base,
                   !.quote_asset_amount_with_unsettled_lp = @ + delta.quote]
    ELSE m

update_market_with_counterparty(m, delta, settled) ==
  IF delta.lp
    THEN [m EXCEPT !.base_asset_amount_with_unsettled_lp = @ + settled,
                   !.quote_asset_amount_with_unsettled_lp = @ + delta.quote]
    ELSE m

(* Who holds a position, and who holds base.                               *)
CountUsers(m, p, new, update_type) ==
  CASE update_type = "Open" ->
         [m EXCEPT !.number_of_users =
                      @ + (IF p.quote_asset_amount = 0 /\ p.base_asset_amount = 0 THEN 1 ELSE 0),
                   !.number_of_users_with_base = @ + 1]
    [] update_type = "Close" ->
         [m EXCEPT !.number_of_users = @ - (IF new.base = 0 /\ new.quote = 0 THEN 1 ELSE 0),
                   !.number_of_users_with_base = @ - 1]
    [] OTHER -> m

AddLong(m, base, entry, break_even) ==
  [m EXCEPT !.base_asset_amount_long = @ + base, !.quote_entry_amount_long = @ + entry,
            !.quote_break_even_amount_long = @ + break_even]

AddShort(m, base, entry, break_even) ==
  [m EXCEPT !.base_asset_amount_short = @ + base, !.quote_entry_amount_short = @ + entry,
            !.quote_break_even_amount_short = @ + break_even]

(* The open interest of both sides.  A position that flips leaves one side *)
(* whole and joins the other.                                              *)
UpdateOpenInterest(m, p, new, entry, break_even, update_type) ==
  LET entry_delta == entry - p.quote_entry_amount
      break_even_delta == break_even - p.quote_break_even_amount
      long == IF update_type \in {"Reduce", "Close"} THEN p.base_asset_amount > 0 ELSE new.base > 0
  IN  IF update_type # "Flip"
        THEN IF long THEN AddLong(m, new.settled, entry_delta, break_even_delta)
             ELSE AddShort(m, new.settled, entry_delta, break_even_delta)
        ELSE IF long
          THEN AddLong(AddShort(m, -p.base_asset_amount, -p.quote_entry_amount,
                                -p.quote_break_even_amount), new.base, entry, break_even)
          ELSE AddShort(AddLong(m, -p.base_asset_amount, -p.quote_entry_amount,
                                -p.quote_break_even_amount), new.base, entry, break_even)

CumulativeFundingRate(m, base_asset_amount) ==
  IF base_asset_amount > 0 THEN m.cumulative_funding_rate_long ELSE m.cumulative_funding_rate_short

(* A position may only change once its funding is settled.                 *)
FundingUpToDate(m, p) ==
  p.base_asset_amount # 0
    => p.last_cumulative_funding_rate = CumulativeFundingRate(m, p.base_asset_amount)

LastFundingRate(m, p, new, update_type) ==
  CASE update_type = "Close" -> 0
    [] update_type = "Reduce" -> p.last_cumulative_funding_rate
    [] OTHER -> CumulativeFundingRate(m, new.base + new.remainder)

(* Quote alone: fees, funding, settled pnl, liquidations.                  *)
Vacant(p) == p.quote_asset_amount = 0 /\ NoBase(p)

(* Mutant: the market's total forgets a change that empties the position.  *)
update_quote_until_vacant(m, p, delta) ==
  [ m |-> IF p.quote_asset_amount + delta = 0 THEN m
          ELSE [m EXCEPT !.quote_asset_amount = @ + delta],
    p |-> [p EXCEPT !.quote_asset_amount = @ + delta] ]

update_quote_asset_amount(m, p, delta) ==
  LET changed == [p EXCEPT !.quote_asset_amount = @ + delta]
  IN  IF delta = 0 THEN [m |-> m, p |-> p]
      ELSE [ m |-> [m EXCEPT !.quote_asset_amount = @ + delta,
                             !.number_of_users = @ + (IF Vacant(p) THEN 1 ELSE 0)
                                                   - (IF Vacant(changed) THEN 1 ELSE 0)],
             p |-> changed ]

update_quote_break_even_amount(m, p, delta) ==
  IF p.base_asset_amount = 0 THEN [m |-> m, p |-> p]
  ELSE [ m |-> IF p.base_asset_amount > 0 THEN AddLong(m, 0, 0, delta) ELSE AddShort(m, 0, 0, delta),
         p |-> [p EXCEPT !.quote_break_even_amount = @ + delta] ]

update_quote_asset_and_break_even_amount(m, p, delta) ==
  LET quote == update_quote_asset_amount(m, p, delta)
  IN  update_quote_break_even_amount(quote.m, quote.p, delta)

(* A fill, a liquidation or the settlement of an LP changes a position.    *)
ChangePosition(m, p, delta) ==
  LET update_type == get_position_update_type(p, delta)
      new == get_new_position_amounts(p, delta)
      entry == NewEntryAmount(p.quote_entry_amount, p, delta, update_type)
      break_even == NewEntryAmount(p.quote_break_even_amount, p, delta, update_type)
      counted == CountUsers(update_market_with_counterparty(m, delta, new.settled),
                            p, new, update_type)
      market == UpdateOpenInterest([counted EXCEPT !.quote_asset_amount = @ + delta.quote],
                                   p, new, entry, break_even, update_type)
  IN  [ m |-> market,
        p |-> [p EXCEPT !.base_asset_amount = new.base,
                        !.remainder_base_asset_amount = new.remainder,
                        !.quote_asset_amount = new.quote,
                        !.quote_entry_amount = entry,
                        !.quote_break_even_amount = break_even,
                        !.last_cumulative_funding_rate =
                          LastFundingRate(market, p, new, update_type)] ]

update_position_and_market(m, p, delta) ==
  IF delta.base = 0 /\ delta.remainder = 0
    THEN update_quote_asset_amount(m, p, delta.quote)
    ELSE ChangePosition(m, p, delta)

UpdatePositionValid(m, p, delta) ==
  \/ delta.base = 0 /\ delta.remainder = 0
  \/ /\ FundingUpToDate(m, p)
     /\ is_multiple_of_step_size(p.base_asset_amount, order_step_size)

----------------------------------------------------------------------------
(* Liquidity providers.  A fill against the AMM is attributed to LP shares *)
(* through running totals per share; each LP later takes its part of what  *)
(* they gained since it last did.                                          *)

get_per_lp_base_unit(m) ==
  IF m.per_lp_base > 0 THEN AMM_RESERVE_PRECISION * Pow10[m.per_lp_base]
  ELSE AMM_RESERVE_PRECISION \div Pow10[Abs(m.per_lp_base)]

(* A fill that only LPs make is split over their shares, one that the AMM  *)
(* makes over all of the curve.                                            *)
TotalLpShares(m, liquidity_split) == IF liquidity_split = "LPOwned" THEN m.user_lp_shares ELSE m.sqrt_k

calculate_per_lp_delta(m, delta, fee_to_market, liquidity_split) ==
  LET base_unit == get_per_lp_base_unit(m)
      shares == TotalLpShares(m, liquidity_split)
      base == get_proportion_i128(delta.base, base_unit, shares)
  IN  [ base |-> base,
        quote |-> get_proportion_i128(delta.quote, base_unit, shares) + (IF base < 0 THEN 1 ELSE 0),
        fee |-> IF fee_to_market > 0
                  THEN (get_proportion_i128(fee_to_market, LP_FEE_SLICE_NUMERATOR,
                                            LP_FEE_SLICE_DENOMINATOR) * base_unit) \div shares
                  ELSE 0 ]

calculate_lp_base_delta(m, per_lp_delta) ==
  get_proportion_i128(per_lp_delta, m.user_lp_shares, get_per_lp_base_unit(m))

update_lp_market_position(m, delta, fee_to_market, liquidity_split) ==
  LET per_lp == calculate_per_lp_delta(m, delta, fee_to_market, liquidity_split)
      lp_delta_base == calculate_lp_base_delta(m, per_lp.base)
  IN  IF m.user_lp_shares = 0 \/ liquidity_split = "ProtocolOwned" THEN m
      ELSE [m EXCEPT !.base_asset_amount_per_lp = @ - per_lp.base,
                     !.quote_asset_amount_per_lp = @ - per_lp.quote + per_lp.fee,
                     !.base_asset_amount_with_amm = @ - lp_delta_base,
                     !.base_asset_amount_with_unsettled_lp = @ + lp_delta_base,
                     !.quote_asset_amount_with_unsettled_lp =
                        @ + calculate_lp_base_delta(m, per_lp.quote)]

(* The admin may change the unit the totals per share are kept in; a       *)
(* position follows when it is next settled.                               *)
Rebased(amount, expo_diff) ==
  IF expo_diff >= 0 THEN amount * Pow10[expo_diff] ELSE Quot(amount, Pow10[Abs(expo_diff)])

apply_lp_rebase_to_perp_market(m, expo_diff) ==
  [m EXCEPT !.per_lp_base = @ + expo_diff,
            !.base_asset_amount_per_lp = Rebased(@, expo_diff),
            !.quote_asset_amount_per_lp = Rebased(@, expo_diff)]

apply_lp_rebase_to_perp_position(m, p) ==
  LET expo_diff == m.per_lp_base - p.per_lp_base
  IN  [p EXCEPT !.last_base_asset_amount_per_lp = Rebased(@, expo_diff),
                !.last_quote_asset_amount_per_lp = Rebased(@, expo_diff),
                !.per_lp_base = m.per_lp_base]

SettledPart(per_lp, last_per_lp, p, m) ==
  Quot((per_lp - last_per_lp) * p.lp_shares, get_per_lp_base_unit(m))

calculate_settle_lp_metrics(m, p) ==
  LET base == SettledPart(m.base_asset_amount_per_lp, p.last_base_asset_amount_per_lp, p, m)
  IN  [ base |-> standardize_base_asset_amount(base, order_step_size),
        remainder |-> StepRemainder(base, order_step_size),
        quote |-> SettledPart(m.quote_asset_amount_per_lp, p.last_quote_asset_amount_per_lp, p, m),
        lp |-> TRUE ]

FollowLpTotals(m, p) ==
  [p EXCEPT !.last_base_asset_amount_per_lp = m.base_asset_amount_per_lp,
            !.last_quote_asset_amount_per_lp = m.quote_asset_amount_per_lp]

settle_lp_position(m, p) ==
  LET rebased == apply_lp_rebase_to_perp_position(m, p)
      settled == update_position_and_market(m, rebased, calculate_settle_lp_metrics(m, rebased))
  IN  [settled EXCEPT !.p = FollowLpTotals(m, @)]

settle_lp(m, p) == IF p.lp_shares > 0 THEN settle_lp_position(m, p) ELSE [m |-> m, p |-> p]

(* Shares are shares of k: minting deepens the curve and burning thins it. *)
UpdateLpShares(m, n_shares) ==
  LET deepened == update_k(m, get_update_k_result(m, m.sqrt_k + n_shares))
  IN  [deepened EXCEPT !.user_lp_shares = @ + n_shares]

MintShares(r, n_shares) ==
  [ m |-> UpdateLpShares(r.m, n_shares), p |-> [r.p EXCEPT !.lp_shares = @ + n_shares] ]

mint_lp_shares(m, p, n_shares) ==
  MintShares(IF p.lp_shares > 0 THEN settle_lp_position(m, p)
             ELSE [m |-> m, p |-> [FollowLpTotals(m, p) EXCEPT !.per_lp_base = m.per_lp_base]],
             n_shares)

(* The value of base at a price, in quote.                                 *)
calculate_base_asset_value_with_oracle_price(base_asset_amount, oracle_price) ==
  (Abs(base_asset_amount) * oracle_price) \div AMM_RESERVE_PRECISION

(* The last LP to leave also takes what rounding left unsettled.           *)
UnsettledRemainder(m, p) == m.base_asset_amount_with_unsettled_lp + p.remainder_base_asset_amount

RemainderToBurn(m, p, shares_to_burn) ==
  IF shares_to_burn = m.user_lp_shares
    THEN p.remainder_base_asset_amount - UnsettledRemainder(m, p)
    ELSE p.remainder_base_asset_amount

(* A remainder is closed against the AMM, at the price and one unit more.  *)
BurnRemainder(m, p, remainder, oracle_price) ==
  LET taken == [m EXCEPT !.base_asset_amount_with_amm = @ - remainder,
                         !.base_asset_amount_with_unsettled_lp = @ + remainder]
      dust == calculate_base_asset_value_with_oracle_price(remainder, oracle_price) + 1
      cleared == [p EXCEPT !.remainder_base_asset_amount = 0]
  IN  IF remainder = 0 THEN [m |-> m, p |-> cleared]
      ELSE update_quote_asset_amount(taken, cleared, -dust)

ThinCurve(m, n_shares) == update_k(m, get_update_k_result(m, m.sqrt_k - n_shares))

BurnShares(r, shares_to_burn) ==
  [ m |-> ThinCurve([r.m EXCEPT !.user_lp_shares = @ - shares_to_burn], shares_to_burn),
    p |-> [r.p EXCEPT !.lp_shares = @ - shares_to_burn] ]

BurnSettled(r, shares_to_burn, oracle_price) ==
  BurnShares(BurnRemainder(r.m, r.p, RemainderToBurn(r.m, r.p, shares_to_burn), oracle_price),
             shares_to_burn)

burn_lp_shares(m, p, shares_to_burn, oracle_price) ==
  BurnSettled(settle_lp_position(m, p), shares_to_burn, oracle_price)

SettleLpValid(m, p) ==
  /\ FundingUpToDate(m, p)
  /\ LET rebased == apply_lp_rebase_to_perp_position(m, p)
     IN  UpdatePositionValid(m, rebased, calculate_settle_lp_metrics(m, rebased))

BurnSettledValid(r, shares_to_burn, oracle_price) ==
  LET cleared == BurnRemainder(r.m, r.p, RemainderToBurn(r.m, r.p, shares_to_burn), oracle_price)
  IN  /\ shares_to_burn = r.m.user_lp_shares
           => Abs(UnsettledRemainder(r.m, r.p)) <= order_step_size
      /\ UpdateKValid(cleared.m, r.m.sqrt_k - shares_to_burn, FALSE)

BurnValid(m, p, shares_to_burn, oracle_price) ==
  /\ SettleLpValid(m, p)
  /\ BurnSettledValid(settle_lp_position(m, p), shares_to_burn, oracle_price)

(* What the LP's part of the curve could still be filled with.             *)
calculate_lp_open_bids(m, p) == get_proportion_i128(max_bids(m), p.lp_shares, m.sqrt_k)
calculate_lp_open_asks(m, p) == get_proportion_i128(max_asks(m), p.lp_shares, m.sqrt_k)

(* A position as it would be once its LP shares are settled: what margin   *)
(* is computed from.  The base is taken before remainders that add up to a *)
(* step are carried; what is left of them is valued as dust.               *)
DustCost(left, valuation_price) ==
  IF left # 0 THEN calculate_base_asset_value_with_oracle_price(left, valuation_price) + 1 ELSE 0

LeftOfStep(remainder) ==
  IF Abs(remainder) >= order_step_size THEN StepRemainder(remainder, order_step_size) ELSE remainder

WithLpMetrics(p, metrics, valuation_price) ==
  [p EXCEPT !.base_asset_amount = @ + metrics.base,
            !.quote_asset_amount =
               @ + metrics.quote
                 - DustCost(LeftOfStep(p.remainder_base_asset_amount + metrics.remainder),
                            valuation_price)]

SimulatedLp(m, rebased, valuation_price) ==
  WithLpMetrics(rebased, calculate_settle_lp_metrics(m, rebased), valuation_price)

simulate_settled_lp_position(m, p, valuation_price) ==
  IF p.lp_shares = 0 THEN p
  ELSE SimulatedLp(m, apply_lp_rebase_to_perp_position(m, p), valuation_price)

----------------------------------------------------------------------------
(* Funding.                                                                *)

_calculate_funding_payment(funding_rate_delta, base_asset_amount) ==
  -Sign(base_asset_amount) * Sign(funding_rate_delta)
    * (((Abs(funding_rate_delta) * Abs(base_asset_amount)) \div PEG_PRECISION)
         \div FUNDING_RATE_BUFFER)

calculate_funding_payment_in_quote_precision(funding_rate_delta, base_asset_amount) ==
  Quot(_calculate_funding_payment(funding_rate_delta, base_asset_amount),
       AMM_TO_QUOTE_PRECISION_RATIO)

calculate_funding_payment(m, p) ==
  calculate_funding_payment_in_quote_precision(
    CumulativeFundingRate(m, p.base_asset_amount) - p.last_cumulative_funding_rate,
    p.base_asset_amount)

(* Mutant: the position still owes the rates it paid.                      *)
settle_funding_keeping_rate(m, p) ==
  LET payment == calculate_funding_payment(m, p)
      paid == update_quote_asset_and_break_even_amount(m, p, payment)
  IN  [paid EXCEPT !.m.net_unsettled_funding_pnl = @ - payment]

settle_funding_payment(m, p) ==
  LET payment == calculate_funding_payment(m, p)
      paid == update_quote_asset_and_break_even_amount(
                m, [p EXCEPT !.last_cumulative_funding_rate =
                               CumulativeFundingRate(m, p.base_asset_amount)], payment)
  IN  IF p.base_asset_amount = 0 THEN [m |-> m, p |-> p]
      ELSE [paid EXCEPT !.m.net_unsettled_funding_pnl = @ - payment]

ThenSettleLp(r) == settle_lp(r.m, r.p)
settle_funding_payment_then_lp(m, p) == ThenSettleLp(settle_funding_payment(m, p))

(* The rate that a limited amount of quote pays for.                       *)
calculate_funding_rate_from_pnl_limit(pnl_limit, base_asset_amount) ==
  IF base_asset_amount = 0 THEN 0
  ELSE Quot((IF pnl_limit < 0 THEN pnl_limit + 1 ELSE pnl_limit)
              * AMM_RESERVE_PRECISION * FUNDING_RATE_BUFFER, base_asset_amount)

(* The market may spend a third of its fee pool on a period's funding.     *)
FundingPnlLimit(m) == -(calculate_fee_pool(m) \div 3)

calculate_capped_funding_rate(m, uncapped_funding_pnl, funding_rate) ==
  LET payers == IF funding_rate > 0 THEN m.base_asset_amount_long ELSE m.base_asset_amount_short
      receivers == IF funding_rate > 0 THEN m.base_asset_amount_short ELSE m.base_asset_amount_long
      from_users == calculate_funding_payment_in_quote_precision(funding_rate, payers)
  IN  IF uncapped_funding_pnl < FundingPnlLimit(m)
        THEN calculate_funding_rate_from_pnl_limit(FundingPnlLimit(m) - Abs(from_users), receivers)
        ELSE funding_rate

(* The pnl of the market's own side of the funding, before any cap.        *)
UncappedFundingPnl(m, funding_rate) ==
  -calculate_funding_payment_in_quote_precision(
     funding_rate, m.base_asset_amount_with_amm + m.base_asset_amount_with_unsettled_lp)

CappedFundingPnl(m, funding_rate) ==
  LET uncapped == UncappedFundingPnl(m, funding_rate)
  IN  IF uncapped >= 0 THEN uncapped ELSE Greatest(uncapped, FundingPnlLimit(m))

FundingRateValid(m, funding_rate) ==
  CappedFundingPnl(m, funding_rate) < 0
    => m.total_fee_minus_distributions + CappedFundingPnl(m, funding_rate)
         >= get_total_fee_lower_bound(m)

(* Those who pay pay the whole rate; those who receive get what the payers *)
(* and the market can pay.                                                 *)
calculate_funding_rate_long_short(m, funding_rate) ==
  LET uncapped == UncappedFundingPnl(m, funding_rate)
      capped_rate == IF uncapped >= 0 THEN funding_rate
                     ELSE calculate_capped_funding_rate(m, uncapped, funding_rate)
      pnl == CappedFundingPnl(m, funding_rate)
  IN  [ long |-> IF funding_rate < 0 THEN capped_rate ELSE funding_rate,
        short |-> IF funding_rate > 0 THEN capped_rate ELSE funding_rate,
        revenue |-> uncapped,
        m |-> [m EXCEPT !.total_fee_minus_distributions = @ + pnl,
                        !.net_revenue_since_last_funding = @ + pnl] ]

UpdateFundingRateValid(m, funding_rate) ==
  LET rates == calculate_funding_rate_long_short(m, funding_rate)
  IN  /\ FundingRateValid(m, funding_rate)
      /\ curve_update_intensity > 0 => FormulaicUpdateKValid(rates.m, -rates.revenue)

update_funding_rate(m, funding_rate, now) ==
  LET rates == calculate_funding_rate_long_short(m, funding_rate)
      curve == IF curve_update_intensity > 0 THEN formulaic_update_k(rates.m, -rates.revenue)
               ELSE rates.m
  IN  [curve EXCEPT !.cumulative_funding_rate_long = @ + rates.long,
                    !.cumulative_funding_rate_short = @ + rates.short,
                    !.net_unsettled_funding_pnl = @ - rates.revenue,
                    !.last_funding_rate_ts = now,
                    !.net_revenue_since_last_funding = 0]
================================================================================
