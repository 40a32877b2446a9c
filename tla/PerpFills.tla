------------------------------- MODULE PerpFills -------------------------------
(***************************************************************************)
(* A fill of a perp order: by the AMM, by a maker, or by a maker whose     *)
(* price the AMM joins just in time (controller/orders.rs, math/amm_jit.rs,*)
(* controller/position.rs).  The orders themselves, and which of them are  *)
(* matched, are PerpOrders'; here a fill is a size, a direction and a      *)
(* price.                                                                  *)
(*                                                                         *)
(* A state `s' of a fill is [m, positions]: the market and every user's    *)
(* position in it.                                                         *)
(***************************************************************************)
EXTENDS PerpPositions, Fees

CONSTANTS
  amm_jit_intensity,
  target_base_asset_amount_per_lp,
  referrer_reward_epoch_upper_bound,
  NoUser

ASSUME FillsAssumption ==
  /\ {amm_jit_intensity, referrer_reward_epoch_upper_bound} \subseteq Nat
  /\ target_base_asset_amount_per_lp \in Int

(* An operation [m, p] on one user's position, as an operation on s.       *)
With(s, u, result) ==
  [m |-> result.m, positions |-> [s.positions EXCEPT ![u] = result.p]]

Pay(s, u, amount) == With(s, u, update_quote_asset_amount(s.m, s.positions[u], amount))
PayAndBreakEven(s, u, amount) ==
  With(s, u, update_quote_asset_and_break_even_amount(s.m, s.positions[u], amount))
Reward(s, u, amount) == IF u = NoUser THEN s ELSE Pay(s, u, amount)

SettleFunding(s, u) == With(s, u, settle_funding_payment(s.m, s.positions[u]))
SettleFundingThenLp(s, u) == With(s, u, settle_funding_payment_then_lp(s.m, s.positions[u]))
SettleFundingThenLpValid(s, u) ==
  s.positions[u].lp_shares > 0
    => LET funded == settle_funding_payment(s.m, s.positions[u])
       IN  SettleLpValid(funded.m, funded.p)

----------------------------------------------------------------------------
(* The AMM makes just in time when that brings its position back.          *)

get_target_base_asset_amount_per_lp(m) ==
  IF m.per_lp_base > 0 THEN target_base_asset_amount_per_lp * Pow10[m.per_lp_base]
  ELSE Quot(target_base_asset_amount_per_lp, Pow10[Abs(m.per_lp_base)])

imbalanced_base_asset_amount_with_lp(m) ==
  get_proportion_i128(m.base_asset_amount_per_lp - get_target_base_asset_amount_per_lp(m),
                      m.user_lp_shares, get_per_lp_base_unit(m))

amm_wants_to_jit_make(m, taker_direction) ==
  /\ amm_jit_intensity > 0
  /\ IF taker_direction = "Long" THEN m.base_asset_amount_with_amm < -order_step_size
     ELSE m.base_asset_amount_with_amm > order_step_size

amm_lp_wants_to_jit_make(m, taker_direction) ==
  /\ amm_jit_intensity > 100
  /\ m.user_lp_shares > 0
  /\ IF taker_direction = "Long"
       THEN m.base_asset_amount_per_lp > get_target_base_asset_amount_per_lp(m)
       ELSE m.base_asset_amount_per_lp < get_target_base_asset_amount_per_lp(m)

(* LPs join the AMM only while its inventory is small.                     *)
amm_lp_allowed_to_jit_make(m, amm_wants) ==
  amm_wants =>
    Abs(m.base_asset_amount_with_amm)
      < get_proportion_i128(Least(max_bids(m), Abs(max_asks(m))),
                            m.sqrt_k - m.user_lp_shares, m.sqrt_k) \div 10

(* A maker far on the wrong side of the oracle may be trading with itself: *)
(* the AMM then takes less.                                                *)
LooksLikeWashTrade(auction_price, oracle_price, taker_direction) ==
  IF taker_direction = "Long" THEN auction_price < oracle_price - oracle_price \div 2000
  ELSE auction_price > oracle_price + oracle_price \div 2000

max_jit_amount(m, maker_base_asset_amount, auction_price, oracle_price, taker_direction) ==
  LET half == maker_base_asset_amount \div 2
      spread == IF taker_direction = "Long" THEN m.short_spread ELSE m.long_spread
      opposite_spread_price == (spread * oracle_price) \div BID_ASK_SPREAD_PRECISION
      closeness == Greatest(0, opposite_spread_price - Abs(auction_price - oracle_price))
  IN  IF LooksLikeWashTrade(auction_price, oracle_price, taker_direction)
        THEN (half * closeness) \div Greatest(opposite_spread_price, 1)
        ELSE half

AmmIsImbalanced(m) ==
  LET larger == Greatest(max_bids(m), Abs(max_asks(m)))
      smaller == Least(max_bids(m), Abs(max_asks(m)))
  IN  smaller = 0 \/ (larger * AMM_RESERVE_PRECISION) \div smaller >= 15 * (AMM_RESERVE_PRECISION \div 10)

(* Making never flips the position it is meant to bring back.              *)
calculate_clamped_jit_base_asset_amount(m, liquidity_split, amount) ==
  Least((amount * Least(amm_jit_intensity, 100)) \div 100,
        Abs(IF liquidity_split = "LPOwned" THEN imbalanced_base_asset_amount_with_lp(m)
            ELSE m.base_asset_amount_with_amm))

calculate_jit_base_asset_amount(m, amount, auction_price, oracle_price, direction, split) ==
  LET wanted == IF AmmIsImbalanced(m) THEN amount ELSE amount \div 4
  IN  standardize_base_asset_amount(
        Least(calculate_clamped_jit_base_asset_amount(m, split, wanted),
              max_jit_amount(m, amount, auction_price, oracle_price, direction)),
        order_step_size)

calculate_amm_jit_liquidity(m, direction, maker_price, oracle_price, amount, amm_fills_next) ==
  LET amm_wants == amm_wants_to_jit_make(m, direction)
      with_lps == amm_lp_allowed_to_jit_make(m, amm_wants) /\ amm_lp_wants_to_jit_make(m, direction)
      split == IF amm_wants THEN IF with_lps THEN "Shared" ELSE "ProtocolOwned"
               ELSE "LPOwned"
  IN  IF amm_fills_next \/ ~(amm_wants \/ with_lps)
        THEN [base |-> 0, split |-> "ProtocolOwned"]
        ELSE [ base |-> calculate_jit_base_asset_amount(m, amount, maker_price, oracle_price,
                                                        direction, split),
               split |-> split ]

----------------------------------------------------------------------------
(* The AMM's part of a fill.  f is [taker, base, direction, fill_price,    *)
(* post_only, split, filler, referrer]; a fill_price of 0 is the AMM's.    *)

SwapDirection(direction) == IF direction = "Long" THEN "Remove" ELSE "Add"

(* What the taker pays or gets, and how much better that is for the AMM    *)
(* than its own price.                                                     *)
FillQuote(m, f) ==
  LET swapped == calculate_base_swap_output_with_spread(m, f.base, SwapDirection(f.direction))
      quote == calculate_quote_asset_amount_for_maker_order(f.base, f.fill_price, f.direction)
  IN  IF f.fill_price = 0 THEN [quote |-> swapped.quote_asset_amount, surplus |-> swapped.surplus]
      ELSE [ quote |-> quote,
             surplus |-> IF f.direction = "Long" THEN quote - swapped.quote_asset_amount
                         ELSE swapped.quote_asset_amount - quote ]

FillDelta(m, f) == get_position_delta_for_fill(f.base, FillQuote(m, f).quote, f.direction)

update_position_with_base_asset_amount(s, f) ==
  LET delta == FillDelta(s.m, f)
      swapped == swap_base_asset(s.m, f.base, SwapDirection(f.direction))
      moved == update_position_and_market(swapped, s.positions[f.taker], delta)
      taken == [moved.m EXCEPT !.base_asset_amount_with_amm = @ + delta.base]
  IN  With(s, f.taker, [m |-> update_spread_reserves(taken), p |-> moved.p])

AmmFees(m, f) ==
  LET q == FillQuote(m, f)
  IN  calculate_fee_for_fulfillment_with_amm(q.quote, q.surplus, f.post_only, f.filler # NoUser,
                                             f.referrer # NoUser, referrer_reward_epoch_upper_bound)

validate_amm_account_for_fill(m, direction) ==
  IF direction = "Long" THEN m.base_asset_reserve >= m.min_base_asset_reserve
  ELSE m.base_asset_reserve <= m.max_base_asset_reserve

AmmSizeThreshold(m, p) ==
  IF Abs(p.base_asset_amount) > min_order_size THEN min_order_size ELSE order_step_size

(* What the market keeps of a fill, in every total that counts it.         *)
EarnFees(m, fee_to_market, exchange_fee) ==
  [m EXCEPT !.total_exchange_fee = @ + exchange_fee,
            !.total_fee_minus_distributions = @ + fee_to_market,
            !.net_revenue_since_last_funding = @ + fee_to_market]

(* Mutant: the terminal reserves do not follow what LPs took.              *)
ShareWithLpsOnly(m, delta, fees, split) ==
  IF split = "ProtocolOwned" THEN m
  ELSE update_lp_market_position(m, delta, fees.fee_to_market_for_lp, split)

(* LPs take their part of the position and of the fee.                     *)
ShareWithLps(m, delta, fees, split) ==
  LET shared == IF split = "ProtocolOwned" THEN m
                ELSE update_lp_market_position(m, delta, fees.fee_to_market_for_lp, split)
  IN  IF shared.user_lp_shares > 0 THEN RefreshTerminal(shared) ELSE shared

(* What is left to the AMM must still close along the curve.               *)
LpsTakeValid(s, f) ==
  LET filled == update_position_with_base_asset_amount(s, f).m
      shared == IF f.split = "ProtocolOwned" THEN filled
                ELSE update_lp_market_position(filled, FillDelta(s.m, f),
                                               AmmFees(s.m, f).fee_to_market_for_lp, f.split)
  IN  shared.user_lp_shares > 0 => TerminalValid(shared)

FillWithAmmValid(s, f) ==
  /\ validate_amm_account_for_fill(s.m, f.direction)
  /\ SwapBaseAssetValid(s.m, f.base, SwapDirection(f.direction))
  /\ UpdatePositionValid(s.m, s.positions[f.taker], FillDelta(s.m, f))
  /\ Abs(s.m.base_asset_amount_with_amm + FillDelta(s.m, f).base) <= MAX_BASE_ASSET_AMOUNT_WITH_AMM
  /\ FeesWithAmmValid(AmmFees(s.m, f), FillQuote(s.m, f).surplus, f.post_only)
  /\ LpsTakeValid(s, f)

FillWithFees(s, f, delta, fees) ==
  LET filled == update_position_with_base_asset_amount(s, f)
      earned == [filled EXCEPT !.m = EarnFees(ShareWithLps(@, delta, fees, f.split),
                                              fees.fee_to_market, fees.user_fee)]
      referred == Reward(earned, f.referrer, fees.referrer_reward)
      charged == PayAndBreakEven(referred, f.taker, -fees.user_fee)
      rebated == PayAndBreakEven(charged, f.taker, fees.maker_rebate)
  IN  Reward(rebated, f.filler, fees.filler_reward)

fulfill_perp_order_with_amm(s, f) ==
  IF f.base < AmmSizeThreshold(s.m, s.positions[f.taker]) THEN s
  ELSE FillWithFees(s, f, FillDelta(s.m, f), AmmFees(s.m, f))

----------------------------------------------------------------------------
(* A maker's part.  t is [taker, maker, base, direction, price, filler,    *)
(* referrer]; the direction is the taker's.                                *)

Opposite(direction) == IF direction = "Long" THEN "Short" ELSE "Long"

calculate_fill_for_matched_orders(base, price, maker_direction) ==
  calculate_quote_asset_amount_for_maker_order(base, price, maker_direction)

MatchQuote(t) == calculate_fill_for_matched_orders(t.base, t.price, Opposite(t.direction))

MatchFees(t) ==
  calculate_fee_for_fulfillment_with_match(MatchQuote(t), 1, t.filler # NoUser,
                                           t.referrer # NoUser, referrer_reward_epoch_upper_bound)

MakerDelta(t) == get_position_delta_for_fill(t.base, MatchQuote(t), Opposite(t.direction))
TakerDelta(t) == get_position_delta_for_fill(t.base, MatchQuote(t), t.direction)

MatchValid(s, t) ==
  /\ UpdatePositionValid(s.m, s.positions[t.maker], MakerDelta(t))
  /\ UpdatePositionValid(s.m, s.positions[t.taker], TakerDelta(t))
  /\ FeesWithMatchValid(MatchFees(t))

MatchWithFees(s, t, fees) ==
  LET made == With(s, t.maker, update_position_and_market(s.m, s.positions[t.maker], MakerDelta(t)))
      taken == With(made, t.taker,
                    update_position_and_market(made.m, made.positions[t.taker], TakerDelta(t)))
      earned == [taken EXCEPT !.m = EarnFees(@, fees.fee_to_market, fees.fee_to_market)]
      charged == PayAndBreakEven(earned, t.taker, -fees.user_fee)
      rebated == PayAndBreakEven(charged, t.maker, fees.maker_rebate)
  IN  Reward(Reward(rebated, t.filler, fees.filler_reward), t.referrer, fees.referrer_reward)

MatchOrders(s, t) == MatchWithFees(s, t, MatchFees(t))

(* The AMM's part of a match: at the maker's price, without a referrer.    *)
JitFill(s, t, jit) ==
  [ taker |-> t.taker, base |-> jit.base, direction |-> t.direction, fill_price |-> t.price,
    post_only |-> FALSE, split |-> jit.split, filler |-> t.filler, referrer |-> NoUser ]

Jit(s, t, oracle_price, amm_fills_next) ==
  calculate_amm_jit_liquidity(s.m, t.direction, t.price, oracle_price, t.base, amm_fills_next)

FillsJit(s, t, jit) == jit.base >= AmmSizeThreshold(s.m, s.positions[t.taker])

AfterJit(s, t, jit) ==
  IF FillsJit(s, t, jit) THEN fulfill_perp_order_with_amm(s, JitFill(s, t, jit)) ELSE s

(* The taker's order is smaller by what the AMM took: the maker fills what *)
(* is left, up to its own size.                                            *)
LeftToMatch(s, t, jit) ==
  [t EXCEPT !.base = IF FillsJit(s, t, jit) THEN Least(t.maker_base, t.taker_base - jit.base)
                     ELSE Least(t.maker_base, t.taker_base)]

FillWithMatchValid(s, t, oracle_price, amm_fills_next) ==
  LET jit == Jit(s, t, oracle_price, amm_fills_next)
  IN  /\ FillsJit(s, t, jit) => FillWithAmmValid(s, JitFill(s, t, jit))
      /\ MatchValid(AfterJit(s, t, jit), LeftToMatch(s, t, jit))

fulfill_perp_order_with_match(s, t, oracle_price, amm_fills_next) ==
  LET jit == Jit(s, t, oracle_price, amm_fills_next)
  IN  MatchOrders(AfterJit(s, t, jit), LeftToMatch(s, t, jit))
================================================================================
