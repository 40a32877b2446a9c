--------------------------- MODULE PerpMarketProofs ---------------------------
(***************************************************************************)
(* The theorems about one perp market, for any finite set of users, any    *)
(* scenario, any fees, sizes, prices and precisions.                       *)
(*                                                                         *)
(* The argument follows the layers of the model. The lemmas are named for  *)
(* what they say of an operator:                                           *)
(*                                                                         *)
(*   ...Type, ...Types    its value is a number: what it divides by is     *)
(*                        positive;                                        *)
(*   ...Moves             it changes the curve only and leaves a well      *)
(*                        formed market (Moved);                           *)
(*   ...Booked            it changes one position and the market's         *)
(*                        totals by the same amounts, and the net base by  *)
(*                        a stated shift (Booked);                         *)
(*   Reached...           it takes a market with all its positions from    *)
(*                        a sound state to a sound state, and says who has *)
(*                        paid funding and by how much the net base is off *)
(*                        (Reached);                                       *)
(*   ...Pooled, ...Bounds it moves tokens between pools and overdraws      *)
(*                        none;                                            *)
(*   Commit...            the state a handler ends with, stored in the     *)
(*                        variables, satisfies Ledger again;               *)
(*   ...Handled           the whole handler keeps the inductive            *)
(*                        invariant IInv.                                  *)
(*                                                                         *)
(* IInv is the conjunction of Ledger (market and positions are well        *)
(* formed, the totals are those of the positions, users hold what the AMM  *)
(* and LPs hold against them, funding is owed once), Pools (none is        *)
(* overdrawn and tokens are conserved) and Environment.                    *)
(***************************************************************************)
EXTENDS PerpMarket, SumsProofs

(***************************************************************************)
(* Arithmetic.                                                             *)
(***************************************************************************)

LEMMA SignedTypes ==
  ASSUME NEW a \in Int, NEW b \in Int
  PROVE  /\ Abs(a) \in Nat /\ (a # 0 => Abs(a) > 0)
         /\ Sign(a) \in Int
         /\ Greatest(a, b) \in Int /\ Greatest(a, b) >= a /\ Greatest(a, b) >= b
         /\ Least(a, b) \in Int /\ Least(a, b) <= a /\ Least(a, b) <= b
         /\ (Least(a, b) = a \/ Least(a, b) = b)
         /\ (Greatest(a, b) = a \/ Greatest(a, b) = b)
BY DEF Abs, Sign, Greatest, Least

LEMMA AbsType ==
  ASSUME NEW a \in Int
  PROVE  /\ Abs(a) \in Nat /\ (a # 0 => Abs(a) \in Nat \ {0})
         /\ Sign(a) \in Int /\ Abs(-a) = Abs(a)
BY DEF Abs, Sign

LEMMA DivType ==
  ASSUME NEW a \in Int, NEW d \in Nat \ {0}
  PROVE  a \div d \in Int /\ a % d \in 0 .. d - 1
OBVIOUS

LEMMA QuotTypes ==
  ASSUME NEW a \in Int, NEW d \in Int, d # 0
  PROVE  Quot(a, d) \in Int /\ QuotCeil(a, d) \in Int
<1>1. Abs(a) \in Nat /\ Abs(d) \in Nat \ {0} /\ Sign(a) \in Int /\ Sign(d) \in Int
  BY SignedTypes
<1>2. Abs(a) \div Abs(d) \in Int
  BY <1>1, DivType
<1> DEFINE q == Abs(a) \div Abs(d)
           s == Sign(a) * Sign(d)
<1>3. s \in Int /\ q \in Int
  BY <1>1, <1>2
<1>4. s * q \in Int
  <2> HIDE DEF s, q
  <2> QED
    BY <1>3
<1>5. Quot(a, d) \in Int
  BY <1>4 DEF Quot
<1> HIDE DEF q, s
<1>6. s = Sign(a) * Sign(d)
  BY DEF s
<1> QED
  BY <1>3, <1>5, <1>6 DEF QuotCeil

LEMMA ProportionTypes ==
  ASSUME NEW v \in Int, NEW n \in Int, NEW d \in Nat \ {0}
  PROVE  get_proportion_u128(v, n, d) \in Int /\ get_proportion_i128(v, n, d) \in Int
<1>1. ASSUME NEW w \in Int
      PROVE  get_proportion_u128(w, n, d) \in Int
  <2> DEFINE l == w * (d - n)
             x == w * n
  <2>1. l \in Int /\ x \in Int
    OBVIOUS
  <2> HIDE DEF l, x
  <2>2. l \div d \in Int /\ x \div d \in Int
    BY <2>1, DivType
  <2>3. get_proportion_u128(w, n, d)
          = IF n = d THEN w
            ELSE IF n > d \div 2 /\ d > n
              THEN (w - l \div d) - (IF l % d > 0 THEN 1 ELSE 0)
              ELSE x \div d
    BY DEF get_proportion_u128, l, x
  <2> QED
    BY <2>2, <2>3
<1>2. Abs(v) \in Int /\ Sign(v) \in Int
  BY SignedTypes
<1>3. get_proportion_u128(Abs(v), n, d) \in Int
  BY <1>1, <1>2
<1> QED
  BY <1>1, <1>2, <1>3 DEF get_proportion_i128

LEMMA PowerType ==
  ASSUME NEW n \in Nat
  PROVE  Pow10[n] \in Nat \ {0}
BY Pow10Recursion

(***************************************************************************)
(* Multiples of the step size.                                             *)
(***************************************************************************)

Multiple(a) == \E k \in Int : a = k * order_step_size

LEMMA StepPositive == order_step_size \in Nat \ {0}
BY CurveAssumption DEF CurveAssumption

LEMMA DivMod ==
  ASSUME NEW a \in Nat, NEW d \in Nat \ {0}
  PROVE  a = (a \div d) * d + (a % d) /\ a % d \in Nat /\ a % d < d /\ a \div d \in Nat
<1>1. a % d = a - d * (a \div d)
  BY SMTT(30)
<1>2. a \div d \in Nat /\ a % d \in 0 .. d - 1
  BY DivBounds
<1> DEFINE q == a \div d
           r == a % d
<1>3. q \in Int /\ r \in Int /\ r = a - d * q
  BY <1>1, <1>2
<1>4. a = q * d + r
  <2> HIDE DEF q, r
  <2> QED
    BY <1>3
<1> QED
  BY <1>2, <1>4

LEMMA MultipleAdd ==
  ASSUME NEW a, NEW b, Multiple(a), Multiple(b)
  PROVE  a \in Int /\ Multiple(a + b) /\ Multiple(a - b) /\ Multiple(-a)
<1> DEFINE s == order_step_size
<1>0. s \in Int
  BY StepPositive
<1>1. PICK j \in Int : a = j * s
  BY DEF Multiple
<1>2. PICK k \in Int : b = k * s
  BY DEF Multiple
<1> HIDE DEF s
<1>3. a + b = (j + k) * s /\ a - b = (j - k) * s /\ -a = (-j) * s /\ a \in Int
  BY <1>0, <1>1, <1>2
<1>4. j + k \in Int /\ j - k \in Int /\ -j \in Int
  OBVIOUS
<1> QED
  BY <1>3, <1>4 DEF Multiple, s

LEMMA MultipleZero == Multiple(0)
<1>1. 0 = 0 * order_step_size
  BY StepPositive
<1> QED
  BY <1>1 DEF Multiple

(* A multiple less than a step is none, and a step is the least other one. *)
LEMMA MultipleSmall ==
  ASSUME NEW a \in Int, Multiple(a)
  PROVE  /\ a > -order_step_size => a >= 0
         /\ a < order_step_size => a <= 0
<1> DEFINE s == order_step_size
<1>0. s \in Nat \ {0}
  BY StepPositive
<1>1. PICK k \in Int : a = k * s
  BY DEF Multiple
<1> HIDE DEF s
<1>2. k >= 1 => 1 * s <= k * s
  BY <1>0, ScaleUp
<1>3. k <= -1 => k * s <= (-1) * s
  BY <1>0, ScaleUp
<1>4. k = 0 => a = 0
  BY <1>0, <1>1
<1>5. (a > -s => a >= 0) /\ (a < s => a <= 0)
  BY <1>0, <1>1, <1>2, <1>3, <1>4
<1> QED
  BY <1>5 DEF s

LEMMA Standardized ==
  ASSUME NEW a \in Int
  PROVE  /\ StepRemainder(a, order_step_size) \in Int
         /\ standardize_base_asset_amount(a, order_step_size) \in Int
         /\ Multiple(standardize_base_asset_amount(a, order_step_size))
         /\ standardize_base_asset_amount(a, order_step_size)
              + StepRemainder(a, order_step_size) = a
         /\ StepRemainder(a, order_step_size) < order_step_size
         /\ StepRemainder(a, order_step_size) > -order_step_size
         /\ a >= 0 => /\ StepRemainder(a, order_step_size) >= 0
                      /\ standardize_base_asset_amount(a, order_step_size) >= 0
         /\ a <= 0 => /\ StepRemainder(a, order_step_size) <= 0
                      /\ standardize_base_asset_amount(a, order_step_size) <= 0
<1> DEFINE s == order_step_size
           r == Abs(a) % s
           q == Abs(a) \div s
<1>0. s \in Nat \ {0} /\ Abs(a) \in Nat
  BY StepPositive, SignedTypes
<1>1. r \in Nat /\ r < s /\ q \in Nat /\ Abs(a) = q * s + r
  BY <1>0, DivMod
<1>2. StepRemainder(a, order_step_size) = (IF a > 0 THEN r ELSE IF a < 0 THEN -r ELSE 0)
  <2>1. StepRemainder(a, order_step_size) = Sign(a) * r
    BY DEF StepRemainder
  <2> HIDE DEF r
  <2> QED
    BY <1>1, <2>1 DEF Sign
<1> DEFINE y == StepRemainder(a, order_step_size)
           z == standardize_base_asset_amount(a, order_step_size)
<1>3. z = a - y
  BY DEF standardize_base_asset_amount
<1>4. y = (IF a > 0 THEN r ELSE IF a < 0 THEN -r ELSE 0)
  BY <1>2
<1> DEFINE qs == q * s
<1>5. qs \in Int /\ qs >= 0
  <2> HIDE DEF q, s
  <2> QED
    BY <1>0, <1>1
<1>6. Abs(a) = qs + r
  BY <1>1
<1> HIDE DEF y, z, r, qs
<1>7. z = (IF a > 0 THEN qs ELSE IF a < 0 THEN -qs ELSE 0)
  BY <1>0, <1>1, <1>3, <1>4, <1>5, <1>6 DEF Abs
<1>8. Multiple(z)
  <2>1. Multiple(qs)
    BY <1>1 DEF Multiple, qs
  <2>2. Multiple(-qs) /\ Multiple(0)
    BY <2>1, MultipleAdd, MultipleZero
  <2> QED
    BY <1>7, <2>1, <2>2
<1>9. /\ y \in Int /\ z \in Int /\ z + y = a /\ y < s /\ y > -s
      /\ (a >= 0 => y >= 0 /\ z >= 0) /\ (a <= 0 => y <= 0 /\ z <= 0)
  <2> HIDE DEF s
  <2> QED
    BY <1>0, <1>1, <1>3, <1>4, <1>5, <1>7
<1> QED
  BY <1>8, <1>9 DEF y, z

LEMMA MultipleMeans ==
  ASSUME NEW a \in Int
  PROVE  is_multiple_of_step_size(a, order_step_size) <=> Multiple(a)
<1> DEFINE s == order_step_size
           y == StepRemainder(a, s)
           z == standardize_base_asset_amount(a, s)
<1>0. s \in Nat \ {0}
  BY StepPositive
<1>1. y \in Int /\ z \in Int /\ Multiple(z) /\ z + y = a /\ y < s /\ y > -s
  BY Standardized
<1>2. ASSUME Multiple(a)
      PROVE  y = 0
  <2>1. Multiple(a - z)
    BY <1>1, <1>2, MultipleAdd
  <2>2. a - z = y
    BY <1>1
  <2>3. Multiple(y)
    BY <2>1, <2>2
  <2> HIDE DEF y, s
  <2> QED
    BY <1>1, <2>3, MultipleSmall DEF s
<1>3. ASSUME y = 0
      PROVE  Multiple(a)
  <2>1. z = a
    BY <1>1, <1>3
  <2> QED
    BY <1>1, <2>1
<1> QED
  BY <1>2, <1>3 DEF is_multiple_of_step_size

(***************************************************************************)
(* The constants.                                                          *)
(***************************************************************************)

LEMMA CurveConstants ==
  /\ AMM_RESERVE_PRECISION \in Nat \ {0} /\ PEG_PRECISION \in Nat \ {0}
  /\ AMM_TO_QUOTE_PRECISION_RATIO \in Nat \ {0}
  /\ BID_ASK_SPREAD_PRECISION \in Nat \ {0} /\ CONCENTRATION_PRECISION \in Nat \ {0}
  /\ K_BPS_UPDATE_SCALE \in Nat \ {0} /\ K_DECREASE_FRACTION \in Nat \ {0}
  /\ FeeShareDenominator \in Nat \ {0} /\ max_fill_reserve_fraction \in Nat \ {0}
  /\ MAX_SQRT_K \in Nat /\ MAX_K_BPS_INCREASE \in Nat /\ min_order_size \in Nat
  /\ MAX_CONCENTRATION_COEFFICIENT \in Nat \ {0}
  /\ curve_update_intensity \in Int
  /\ max_spread \in Nat
  /\ base_spread \in Nat /\ base_spread <= BID_ASK_SPREAD_PRECISION
<1>1. /\ AMM_RESERVE_PRECISION \in Nat \ {0} /\ PEG_PRECISION \in Nat \ {0}
      /\ AMM_RESERVE_PRECISION = AMM_TO_QUOTE_PRECISION_RATIO * PEG_PRECISION
  BY CurveAssumption DEF CurveAssumption
<1> DEFINE r == AMM_TO_QUOTE_PRECISION_RATIO
<1>2. r \in Nat
  BY <1>1, DivBounds DEF AMM_TO_QUOTE_PRECISION_RATIO
<1>3. r # 0
  <2> HIDE DEF r
  <2>1. AMM_RESERVE_PRECISION = r * PEG_PRECISION
    BY <1>1 DEF r
  <2>2. r = 0 => r * PEG_PRECISION = 0
    BY <1>1
  <2> QED
    BY <1>1, <2>1, <2>2
<1> QED
  BY <1>1, <1>2, <1>3, CurveAssumption DEF CurveAssumption

LEMMA OtherConstants ==
  /\ FUNDING_RATE_BUFFER \in Nat \ {0} /\ LP_FEE_SLICE_DENOMINATOR \in Nat \ {0}
  /\ LP_FEE_SLICE_NUMERATOR \in Int
  /\ amm_jit_intensity \in Nat /\ referrer_reward_epoch_upper_bound \in Nat
  /\ target_base_asset_amount_per_lp \in Int
  /\ InitialSqrtK \in Nat \ {0} /\ InitialPeg \in Nat \ {0} /\ ExpiryKScale \in Nat \ {0}
  /\ InitialFeePool \in Nat /\ FEE_POOL_TO_REVENUE_POOL_THRESHOLD \in Nat
  /\ max_revenue_withdraw_per_period \in Nat /\ quote_max_insurance \in Nat /\ BorrowLimit \in Nat
BY PositionsAssumption, FillsAssumption, PoolsAssumption
   DEF PositionsAssumption, FillsAssumption, PoolsAssumption

LEMMA FeeConstants ==
  /\ fee_denominator \in Nat \ {0} /\ maker_rebate_denominator \in Nat \ {0}
  /\ referee_fee_denominator \in Nat \ {0} /\ referrer_reward_denominator \in Nat \ {0}
  /\ reward_denominator \in Nat \ {0} /\ FEE_ADJUSTMENT_MAX \in Nat \ {0}
  /\ fee_numerator \in Nat /\ maker_rebate_numerator \in Nat /\ referee_fee_numerator \in Nat
  /\ referrer_reward_numerator \in Nat /\ reward_numerator \in Nat
  /\ time_based_reward_lower_bound \in Nat /\ fee_adjustment \in Int
BY FeesAssumption DEF FeesAssumption

(***************************************************************************)
(* A market.  Its fields are integers; the reserves, k and the             *)
(* concentration coefficient, which the curve divides by, are positive, the*)
(* spreads are at most 100%, and the unit of the totals per share is at    *)
(* least one.                                                              *)
(***************************************************************************)

CurveFields ==
  { "base_asset_reserve", "quote_asset_reserve", "sqrt_k", "peg_multiplier",
    "terminal_quote_asset_reserve", "min_base_asset_reserve", "max_base_asset_reserve",
    "concentration_coef", "long_spread", "short_spread",
    "ask_base_asset_reserve", "ask_quote_asset_reserve",
    "bid_base_asset_reserve", "bid_quote_asset_reserve",
    "total_fee_minus_distributions", "net_revenue_since_last_funding" }

LedgerFields ==
  { "base_asset_amount_long", "base_asset_amount_short", "quote_asset_amount",
    "quote_entry_amount_long", "quote_entry_amount_short",
    "quote_break_even_amount_long", "quote_break_even_amount_short",
    "base_asset_amount_with_unsettled_lp", "quote_asset_amount_with_unsettled_lp",
    "net_unsettled_funding_pnl", "number_of_users", "number_of_users_with_base" }

OtherFields ==
  { "expiry_ts", "expiry_price", "user_lp_shares", "base_asset_amount_with_amm",
    "base_asset_amount_per_lp", "quote_asset_amount_per_lp", "per_lp_base",
    "cumulative_funding_rate_long", "cumulative_funding_rate_short", "last_funding_rate_ts",
    "total_exchange_fee", "total_liquidation_fee", "total_fee_withdrawn", "total_social_loss",
    "quote_settled_insurance", "revenue_withdraw_since_last_settle", "last_revenue_withdraw_ts",
    "pnl_pool", "fee_pool" }

IntegerFields == CurveFields \cup LedgerFields \cup OtherFields
Fields == IntegerFields \cup {"status", "spread_inputs"}

Statuses == {"Active", "ReduceOnly", "Settlement", "Delisted"}
Spreads == 0 .. BID_ASK_SPREAD_PRECISION

Typed(m) ==
  /\ m = [f \in Fields |-> m[f]]
  /\ \A f \in IntegerFields : m[f] \in Int
  /\ m.status \in Statuses
  /\ m.spread_inputs \in [{"long", "short"} -> Spreads]

Curved(m) ==
  /\ m.base_asset_reserve > 0 /\ m.quote_asset_reserve > 0 /\ m.sqrt_k > 0
  /\ m.concentration_coef > 0
  /\ m.long_spread \in Spreads /\ m.short_spread \in Spreads

Market(m) ==
  /\ Typed(m)
  /\ Curved(m)
  /\ m.user_lp_shares >= 0
  /\ m.total_social_loss >= 0
  /\ Abs(m.per_lp_base) <= MaxPerLpBase
  /\ Multiple(m.base_asset_amount_long) /\ Multiple(m.base_asset_amount_short)
  /\ Abs(m.revenue_withdraw_since_last_settle) <= max_revenue_withdraw_per_period

(* The fields that Market bounds beside the curve.                         *)
BoundedFields ==
  { "user_lp_shares", "total_social_loss", "per_lp_base", "base_asset_amount_long",
    "base_asset_amount_short", "revenue_withdraw_since_last_settle" }

(* x is m with other values in the fields S.                               *)
Changed(m, x, S) ==
  /\ x = [f \in DOMAIN m |-> x[f]]
  /\ \A f \in DOMAIN m : f \notin S => x[f] = m[f]

LEMMA ChangedTyped ==
  ASSUME NEW m, Typed(m), NEW S \in SUBSET IntegerFields, NEW x, Changed(m, x, S),
         \A f \in S : x[f] \in Int
  PROVE  Typed(x)
<1>1. DOMAIN m = Fields
  BY DEF Typed
<1>2. x = [f \in Fields |-> x[f]]
  BY <1>1 DEF Changed
<1>3. \A f \in IntegerFields : x[f] \in Int
  BY <1>1 DEF Changed, Typed, Fields
<1>4. "status" \notin IntegerFields /\ "spread_inputs" \notin IntegerFields
  BY DEF IntegerFields, CurveFields, LedgerFields, OtherFields
<1>5. x.status = m.status /\ x.spread_inputs = m.spread_inputs
  BY <1>1, <1>4 DEF Changed, Fields
<1> QED
  BY <1>2, <1>3, <1>5 DEF Typed

LEMMA ChangedTwice ==
  ASSUME NEW m, NEW x, NEW y, NEW S, NEW T, Changed(m, x, S), Changed(x, y, T)
  PROVE  Changed(m, y, S \cup T)
BY DEF Changed

LEMMA ChangedMore ==
  ASSUME NEW m, NEW x, NEW S, NEW T, Changed(m, x, S), S \subseteq T
  PROVE  Changed(m, x, T)
BY DEF Changed

(* A market on another curve, with what Market bounds beside it unchanged. *)
LEMMA BoundedKept ==
  ASSUME NEW m, Market(m), NEW x, Typed(x), Curved(x), \A f \in BoundedFields : x[f] = m[f]
  PROVE  Market(x)
<1>1. /\ x.user_lp_shares = m.user_lp_shares /\ x.total_social_loss = m.total_social_loss
      /\ x.per_lp_base = m.per_lp_base
      /\ x.base_asset_amount_long = m.base_asset_amount_long
      /\ x.base_asset_amount_short = m.base_asset_amount_short
      /\ x.revenue_withdraw_since_last_settle = m.revenue_withdraw_since_last_settle
  BY DEF BoundedFields
<1> QED
  BY <1>1 DEF Market

(* x is m after a move of its curve.                                       *)
Moved(m, x) == Market(x) /\ Changed(m, x, CurveFields)

LEMMA CurveMoved ==
  ASSUME NEW m, Market(m), NEW x, NEW S \in SUBSET CurveFields, Changed(m, x, S),
         \A f \in S : x[f] \in Int, Curved(x)
  PROVE  Moved(m, x)
<1>1. S \subseteq IntegerFields /\ S \subseteq CurveFields
  BY DEF IntegerFields
<1>2. Typed(x)
  BY <1>1, ChangedTyped DEF Market
<1>3. Changed(m, x, CurveFields)
  BY <1>1, ChangedMore
<1>4. DOMAIN m = Fields
  BY DEF Market, Typed
<1>5. BoundedFields \subseteq Fields \ CurveFields
  BY DEF BoundedFields, Fields, IntegerFields, LedgerFields, OtherFields, CurveFields
<1>6. \A f \in BoundedFields : x[f] = m[f]
  BY <1>3, <1>4, <1>5 DEF Changed
<1>7. Market(x)
  BY <1>2, <1>6, BoundedKept
<1> QED
  BY <1>3, <1>7 DEF Moved

LEMMA MovedTwice ==
  ASSUME NEW m, NEW x, NEW y, Moved(m, x), Moved(x, y)
  PROVE  Moved(m, y)
<1>1. CurveFields \cup CurveFields = CurveFields
  OBVIOUS
<1> QED
  BY <1>1, ChangedTwice DEF Moved

LEMMA MovedNot ==
  ASSUME NEW m, Market(m)
  PROVE  Moved(m, m)
BY DEF Moved, Market, Typed, Changed

(* The fields as numbers.                                                  *)
LEMMA MarketNumbers ==
  ASSUME NEW m, Market(m)
  PROVE  /\ DOMAIN m = Fields /\ m = [f \in Fields |-> m[f]]
         /\ m.base_asset_reserve \in Nat \ {0} /\ m.quote_asset_reserve \in Nat \ {0}
         /\ m.sqrt_k \in Nat \ {0} /\ m.concentration_coef \in Nat \ {0}
         /\ m.peg_multiplier \in Int /\ m.terminal_quote_asset_reserve \in Int
         /\ m.min_base_asset_reserve \in Int /\ m.max_base_asset_reserve \in Int
         /\ m.long_spread \in Spreads /\ m.short_spread \in Spreads
         /\ m.ask_base_asset_reserve \in Int /\ m.ask_quote_asset_reserve \in Int
         /\ m.bid_base_asset_reserve \in Int /\ m.bid_quote_asset_reserve \in Int
         /\ m.total_fee_minus_distributions \in Int /\ m.net_revenue_since_last_funding \in Int
         /\ m.base_asset_amount_with_amm \in Int /\ m.user_lp_shares \in Nat
         /\ m.total_exchange_fee \in Int /\ m.total_liquidation_fee \in Int
         /\ m.total_fee_withdrawn \in Int
<1>1. DOMAIN m = Fields /\ m = [f \in Fields |-> m[f]]
  BY DEF Market, Typed
<1>2. \A f \in IntegerFields : m[f] \in Int
  BY DEF Market, Typed
<1> QED
  BY <1>1, <1>2 DEF Market, Curved, IntegerFields, CurveFields, OtherFields

(***************************************************************************)
(* The curve.                                                              *)
(***************************************************************************)

LEMMA SquareOver ==
  ASSUME NEW k \in Int, NEW d \in Nat \ {0}
  PROVE  (k * k) \div d \in Int
<1> DEFINE kk == k * k
<1>1. kk \in Int
  OBVIOUS
<1> HIDE DEF kk
<1>2. kk \div d \in Int
  BY <1>1, DivType
<1> QED
  BY <1>2 DEF kk

LEMMA ProductOver ==
  ASSUME NEW a \in Int, NEW b \in Int, NEW d \in Nat \ {0}
  PROVE  a * b \in Int /\ (a * b) \div d \in Int
<1> DEFINE ab == a * b
<1>1. ab \in Int
  OBVIOUS
<1> HIDE DEF ab
<1>2. ab \div d \in Int
  BY <1>1, DivType
<1> QED
  BY <1>1, <1>2 DEF ab

LEMMA SwapOutput ==
  ASSUME NEW amount \in Int, NEW reserve \in Int, NEW direction, NEW k \in Int,
         SwapValid(amount, reserve, direction)
  PROVE  /\ SwapInput(amount, reserve, direction) \in Nat \ {0}
         /\ calculate_swap_output(amount, reserve, direction, k) \in Int
<1>1. SwapInput(amount, reserve, direction) \in Nat \ {0}
  BY DEF SwapInput, SwapValid
<1> QED
  BY <1>1, SquareOver DEF calculate_swap_output

LEMMA PriceType ==
  ASSUME NEW m, Market(m)
  PROVE  reserve_price(m) \in Int
BY MarketNumbers, ProductOver DEF reserve_price, calculate_price

LEMMA QuoteSwapped ==
  ASSUME NEW before \in Int, NEW after \in Int, NEW direction, NEW peg \in Int
  PROVE  calculate_quote_asset_amount_swapped(before, after, direction, peg) \in Int
<1>1. ASSUME NEW reserve \in Int
      PROVE  reserve_to_asset_amount(reserve, peg) \in Int
  BY CurveConstants, ProductOver DEF reserve_to_asset_amount
<1>2. after - before + 1 \in Int /\ before - after \in Int
  OBVIOUS
<1>3. reserve_to_asset_amount(after - before + 1, peg) \in Int
  BY <1>1, <1>2
<1>4. reserve_to_asset_amount(before - after, peg) \in Int
  BY <1>1, <1>2
<1> QED
  BY <1>3, <1>4 DEF calculate_quote_asset_amount_swapped

LEMMA SurplusType ==
  ASSUME NEW m, Market(m), NEW quote_after \in Int, NEW direction, NEW quote \in Int
  PROVE  calculate_quote_asset_amount_surplus(m, quote_after, direction, quote) \in Int
<1> DEFINE change == IF direction = "Remove" THEN quote_after - m.quote_asset_reserve
                     ELSE m.quote_asset_reserve - quote_after
           converted == reserve_to_asset_amount(change, m.peg_multiplier)
           actual == converted + (IF direction = "Remove" THEN 1 ELSE 0)
<1>1. change \in Int /\ m.peg_multiplier \in Int
  BY MarketNumbers
<1>2. converted \in Int
  <2> HIDE DEF change
  <2> QED
    BY <1>1, CurveConstants, ProductOver DEF reserve_to_asset_amount
<1>3. actual - quote \in Int
  <2> HIDE DEF converted
  <2> QED
    BY <1>2
<1>4. Abs(actual - quote) \in Int
  <2> HIDE DEF actual
  <2> QED
    BY <1>3, SignedTypes
<1> QED
  BY <1>4 DEF calculate_quote_asset_amount_surplus

LEMMA SpreadSwapTypes ==
  ASSUME NEW m, Market(m), NEW amount \in Int, NEW direction,
         SwapBaseAssetValid(m, amount, direction)
  PROVE  LET out == calculate_base_swap_output_with_spread(m, amount, direction)
         IN  /\ out.base_asset_reserve \in Nat \ {0}
             /\ out.quote_asset_reserve \in Nat \ {0}
             /\ out.quote_asset_amount \in Int
             /\ out.surplus \in Int
<1> DEFINE side == get_spread_reserves(m, direction)
           side_after == calculate_swap_output(amount, side.base, direction, m.sqrt_k)
           quote == calculate_quote_asset_amount_swapped(side.quote, side_after, direction,
                                                         m.peg_multiplier)
           after == calculate_swap_output(amount, m.base_asset_reserve, direction, m.sqrt_k)
<1>1. side.base \in Int /\ side.quote \in Int
  BY MarketNumbers DEF get_spread_reserves
<1>2. SwapValid(amount, side.base, direction) /\ SwapValid(amount, m.base_asset_reserve, direction)
  BY DEF SwapBaseAssetValid
<1>3. m.sqrt_k \in Int /\ m.peg_multiplier \in Int /\ m.base_asset_reserve \in Int
  BY MarketNumbers
<1> HIDE DEF side
<1>4. side_after \in Int
  BY <1>1, <1>2, <1>3, SwapOutput
<1>5. after \in Int /\ SwapInput(amount, m.base_asset_reserve, direction) \in Nat \ {0}
  BY <1>2, <1>3, SwapOutput
<1>6. after > 0
  BY DEF SwapBaseAssetValid
<1> HIDE DEF side_after, after
<1>7. quote \in Int
  BY <1>1, <1>3, <1>4, QuoteSwapped
<1> HIDE DEF quote
<1>8. calculate_quote_asset_amount_surplus(m, after, direction, quote) \in Int
  BY <1>5, <1>7, SurplusType
<1> QED
  BY <1>5, <1>6, <1>7, <1>8
     DEF calculate_base_swap_output_with_spread, side, side_after, after, quote

LEMMA SwapMoves ==
  ASSUME NEW m, Market(m), NEW amount \in Int, NEW direction,
         SwapBaseAssetValid(m, amount, direction)
  PROVE  Moved(m, swap_base_asset(m, amount, direction))
<1> DEFINE out == calculate_base_swap_output_with_spread(m, amount, direction)
           b == out.base_asset_reserve
           q == out.quote_asset_reserve
           x == swap_base_asset(m, amount, direction)
           S == {"base_asset_reserve", "quote_asset_reserve"}
<1>1. b \in Nat \ {0} /\ q \in Nat \ {0}
  BY SpreadSwapTypes
<1>2. x = [m EXCEPT !.base_asset_reserve = b, !.quote_asset_reserve = q]
  BY DEF swap_base_asset
<1>3. DOMAIN m = Fields /\ m = [f \in Fields |-> m[f]]
  BY MarketNumbers
<1>4. S \subseteq CurveFields /\ CurveFields \subseteq Fields
  BY DEF CurveFields, IntegerFields, Fields
<1> HIDE DEF b, q, x
<1>5. Changed(m, x, S) /\ x.base_asset_reserve = b /\ x.quote_asset_reserve = q
  BY <1>2, <1>3, <1>4 DEF Changed
<1>6. {"sqrt_k", "concentration_coef", "long_spread", "short_spread"} \subseteq CurveFields \ S
  BY DEF CurveFields
<1>7. Curved(x)
  BY <1>1, <1>3, <1>4, <1>5, <1>6 DEF Changed, Market, Curved
<1>8. \A f \in S : x[f] \in Int
  BY <1>1, <1>5
<1> QED
  BY <1>4, <1>5, <1>7, <1>8, CurveMoved DEF x

LEMMA TerminalTypes ==
  ASSUME NEW m, Market(m), TerminalValid(m)
  PROVE  /\ calculate_terminal_reserves(m).base \in Nat \ {0}
         /\ calculate_terminal_reserves(m).quote \in Int
<1> DEFINE net == m.base_asset_amount_with_amm
           direction == IF net > 0 THEN "Add" ELSE "Remove"
<1>1. net \in Int /\ m.base_asset_reserve \in Int /\ m.sqrt_k \in Int
  BY MarketNumbers
<1>2. Abs(net) \in Int
  BY <1>1, AbsType
<1>3. SwapValid(Abs(net), m.base_asset_reserve, direction)
  <2>1. m.base_asset_reserve + net > 0
    BY DEF TerminalValid
  <2>2. SwapInput(Abs(net), m.base_asset_reserve, direction) = m.base_asset_reserve + net
    <3> HIDE DEF net
    <3>1. CASE net > 0
      BY <1>1, <3>1 DEF SwapInput, Abs
    <3>2. CASE ~ (net > 0)
      BY <1>1, <3>2 DEF SwapInput, Abs
    <3> QED
      BY <3>1, <3>2
  <2> QED
    BY <2>1, <2>2 DEF SwapValid
<1> HIDE DEF direction
<1>4. /\ SwapInput(Abs(net), m.base_asset_reserve, direction) \in Nat \ {0}
      /\ calculate_swap_output(Abs(net), m.base_asset_reserve, direction, m.sqrt_k) \in Int
  BY <1>1, <1>2, <1>3, SwapOutput
<1> QED
  BY <1>4 DEF calculate_terminal_reserves, direction

LEMMA BoundTypes ==
  ASSUME NEW coef \in Nat \ {0}, NEW base \in Int
  PROVE  MinBase(coef, base) \in Int /\ MaxBase(coef, base) \in Int
<1>1. CONCENTRATION_PRECISION \in Nat \ {0}
  BY CurveConstants
<1>2. MinBase(coef, base) \in Int
  BY <1>1, ProportionTypes DEF MinBase
<1>3. MaxBase(coef, base) \in Int
  BY <1>1, ProportionTypes DEF MaxBase
<1> QED
  BY <1>2, <1>3

LEMMA BoundsMove ==
  ASSUME NEW m, Market(m), NEW base \in Int
  PROVE  Moved(m, calculate_bid_ask_bounds(m, base))
<1> DEFINE x == calculate_bid_ask_bounds(m, base)
           a == MinBase(m.concentration_coef, base)
           b == MaxBase(m.concentration_coef, base)
           S == {"min_base_asset_reserve", "max_base_asset_reserve"}
<1>1. a \in Int /\ b \in Int
  BY BoundTypes, MarketNumbers
<1>2. x = [m EXCEPT !.min_base_asset_reserve = a, !.max_base_asset_reserve = b]
  BY DEF calculate_bid_ask_bounds
<1>3. DOMAIN m = Fields /\ m = [f \in Fields |-> m[f]]
  BY MarketNumbers
<1>4. S \subseteq CurveFields /\ CurveFields \subseteq Fields
  BY DEF CurveFields, IntegerFields, Fields
<1> HIDE DEF a, b, x
<1>5. Changed(m, x, S) /\ x.min_base_asset_reserve = a /\ x.max_base_asset_reserve = b
  BY <1>2, <1>3, <1>4 DEF Changed
<1>6. {"base_asset_reserve", "quote_asset_reserve", "sqrt_k", "concentration_coef",
       "long_spread", "short_spread"} \subseteq CurveFields \ S
  BY DEF CurveFields
<1>7. Curved(x)
  BY <1>3, <1>4, <1>5, <1>6 DEF Changed, Market, Curved
<1>8. \A f \in S : x[f] \in Int
  BY <1>1, <1>5
<1> QED
  BY <1>4, <1>5, <1>7, <1>8, CurveMoved DEF x

LEMMA RefreshMoves ==
  ASSUME NEW m, Market(m), TerminalValid(m)
  PROVE  Moved(m, RefreshTerminal(m))
<1> DEFINE terminal == calculate_terminal_reserves(m)
           q == terminal.quote
           x == [m EXCEPT !.terminal_quote_asset_reserve = q]
           S == {"terminal_quote_asset_reserve"}
<1>1. terminal.base \in Int /\ q \in Int
  BY TerminalTypes
<1>2. DOMAIN m = Fields /\ m = [f \in Fields |-> m[f]]
  BY MarketNumbers
<1>3. S \subseteq CurveFields /\ CurveFields \subseteq Fields
  BY DEF CurveFields, IntegerFields, Fields
<1> HIDE DEF q
<1>4. Changed(m, x, S) /\ x.terminal_quote_asset_reserve = q
  BY <1>2, <1>3 DEF Changed
<1> HIDE DEF x
<1>5. {"base_asset_reserve", "quote_asset_reserve", "sqrt_k", "concentration_coef",
       "long_spread", "short_spread"} \subseteq CurveFields \ S
  BY DEF CurveFields
<1>6. Curved(x)
  BY <1>2, <1>3, <1>4, <1>5 DEF Changed, Market, Curved
<1>7. \A f \in S : x[f] \in Int
  BY <1>1, <1>4
<1>8. Moved(m, x)
  BY <1>3, <1>4, <1>6, <1>7, CurveMoved
<1>9. Moved(x, calculate_bid_ask_bounds(x, terminal.base))
  BY <1>1, <1>8, BoundsMove DEF Moved
<1> QED
  BY <1>8, <1>9, MovedTwice DEF RefreshTerminal, x, q

LEMMA SpreadDelta ==
  ASSUME NEW q \in Nat \ {0}, NEW spread \in Spreads, spread > 1
  PROVE  /\ BID_ASK_SPREAD_PRECISION \div (spread \div 2) \in Nat \ {0}
         /\ q \div (BID_ASK_SPREAD_PRECISION \div (spread \div 2)) \in Nat
         /\ q \div (BID_ASK_SPREAD_PRECISION \div (spread \div 2)) < q
<1> DEFINE P == BID_ASK_SPREAD_PRECISION
           h == spread \div 2
           d == P \div h
           e == q \div d
<1>1. P \in Nat \ {0} /\ spread \in Nat /\ spread <= P
  BY CurveConstants DEF Spreads
<1>2. h \in Nat \ {0} /\ 2 * h <= spread
  BY <1>1
<1> HIDE DEF P, h
<1>3. 2 * h <= P
  BY <1>1, <1>2
<1>4. d \in Nat /\ d >= 2
  BY <1>1, <1>2, <1>3, DivAtLeast, DivBounds
<1> HIDE DEF d
<1>5. e \in Nat /\ e * d <= q
  BY <1>4, DivBounds
<1> HIDE DEF e
<1>6. e * 2 <= e * d
  BY <1>4, <1>5
<1>7. e < q
  BY <1>5, <1>6, <1>4
<1> QED
  BY <1>4, <1>5, <1>7 DEF e, d, P, h

LEMMA SpreadReserveTypes ==
  ASSUME NEW m, Market(m), NEW direction
  PROVE  /\ calculate_spread_reserves(m, direction).base \in Int
         /\ calculate_spread_reserves(m, direction).quote \in Int
<1> DEFINE spread == IF direction = "Long" THEN m.long_spread ELSE m.short_spread
           delta == IF spread > 1
                      THEN m.quote_asset_reserve \div (BID_ASK_SPREAD_PRECISION \div (spread \div 2))
                      ELSE 0
           quote == IF direction = "Long" THEN m.quote_asset_reserve + delta
                    ELSE m.quote_asset_reserve - delta
<1>1. spread \in Spreads /\ m.quote_asset_reserve \in Nat \ {0} /\ m.sqrt_k \in Int
  BY MarketNumbers
<1> HIDE DEF spread
<1>2. delta \in Nat /\ delta < m.quote_asset_reserve
  BY <1>1, SpreadDelta
<1> HIDE DEF delta
<1>3. quote \in Nat \ {0}
  BY <1>1, <1>2
<1> HIDE DEF quote
<1>4. (m.sqrt_k * m.sqrt_k) \div quote \in Int
  BY <1>1, <1>3, SquareOver
<1> QED
  BY <1>3, <1>4 DEF calculate_spread_reserves, quote, delta, spread

LEMMA SpreadReservesMove ==
  ASSUME NEW m, Market(m)
  PROVE  Moved(m, update_spread_reserves(m))
<1> DEFINE ask == calculate_spread_reserves(m, "Long")
           bid == calculate_spread_reserves(m, "Short")
           a == Least(ask.base, m.base_asset_reserve)
           b == Greatest(bid.base, m.base_asset_reserve)
           c == Greatest(ask.quote, m.quote_asset_reserve)
           d == Least(bid.quote, m.quote_asset_reserve)
           x == update_spread_reserves(m)
           S == {"ask_base_asset_reserve", "bid_base_asset_reserve",
                 "ask_quote_asset_reserve", "bid_quote_asset_reserve"}
<1>1. ask.base \in Int /\ ask.quote \in Int /\ bid.base \in Int /\ bid.quote \in Int
  BY SpreadReserveTypes
<1>2. m.base_asset_reserve \in Int /\ m.quote_asset_reserve \in Int
  BY MarketNumbers
<1>3. a \in Int /\ b \in Int /\ c \in Int /\ d \in Int
  <2> HIDE DEF ask, bid
  <2> QED
    BY <1>1, <1>2, SignedTypes
<1>4. x = [m EXCEPT !.ask_base_asset_reserve = a, !.bid_base_asset_reserve = b,
                    !.ask_quote_asset_reserve = c, !.bid_quote_asset_reserve = d]
  BY DEF update_spread_reserves
<1>5. DOMAIN m = Fields /\ m = [f \in Fields |-> m[f]]
  BY MarketNumbers
<1>6. S \subseteq CurveFields /\ CurveFields \subseteq Fields
  BY DEF CurveFields, IntegerFields, Fields
<1> HIDE DEF a, b, c, d, x
<1>7. /\ Changed(m, x, S)
      /\ x.ask_base_asset_reserve = a /\ x.bid_base_asset_reserve = b
      /\ x.ask_quote_asset_reserve = c /\ x.bid_quote_asset_reserve = d
  BY <1>4, <1>5, <1>6 DEF Changed
<1>8. {"base_asset_reserve", "quote_asset_reserve", "sqrt_k", "concentration_coef",
       "long_spread", "short_spread"} \subseteq CurveFields \ S
  BY DEF CurveFields
<1>9. Curved(x)
  BY <1>5, <1>6, <1>7, <1>8 DEF Changed, Market, Curved
<1>10. \A f \in S : x[f] \in Int
  BY <1>3, <1>7
<1> QED
  BY <1>6, <1>7, <1>9, <1>10, CurveMoved DEF x

LEMMA SpreadsMove ==
  ASSUME NEW m, Market(m)
  PROVE  Moved(m, update_spreads(m))
<1> DEFINE spread == IF curve_update_intensity > 0 THEN calculate_spread(m)
                     ELSE [long |-> base_spread \div 2, short |-> base_spread \div 2]
           a == spread.long
           b == spread.short
           x == [m EXCEPT !.long_spread = a, !.short_spread = b]
           S == {"long_spread", "short_spread"}
<1>1. base_spread \div 2 \in Spreads
  BY CurveConstants DEF Spreads
<1>2. m.spread_inputs.long \in Spreads /\ m.spread_inputs.short \in Spreads
  BY DEF Market, Typed
<1>3. a \in Spreads /\ b \in Spreads
  BY <1>1, <1>2 DEF calculate_spread
<1>4. DOMAIN m = Fields /\ m = [f \in Fields |-> m[f]]
  BY MarketNumbers
<1>5. S \subseteq CurveFields /\ CurveFields \subseteq Fields
  BY DEF CurveFields, IntegerFields, Fields
<1> HIDE DEF a, b
<1>6. Changed(m, x, S) /\ x.long_spread = a /\ x.short_spread = b
  BY <1>4, <1>5 DEF Changed
<1> HIDE DEF x
<1>7. {"base_asset_reserve", "quote_asset_reserve", "sqrt_k", "concentration_coef"}
        \subseteq CurveFields \ S
  BY DEF CurveFields
<1>8. Curved(x)
  BY <1>3, <1>4, <1>5, <1>6, <1>7 DEF Changed, Market, Curved
<1>9. \A f \in S : x[f] \in Int
  BY <1>3, <1>6, CurveConstants DEF Spreads
<1>10. Moved(m, x)
  BY <1>5, <1>6, <1>8, <1>9, CurveMoved
<1>11. Moved(x, update_spread_reserves(x))
  BY <1>10, SpreadReservesMove DEF Moved
<1>12. update_spreads(m) = update_spread_reserves(x)
  BY DEF update_spreads, x, a, b
<1> QED
  BY <1>10, <1>11, <1>12, MovedTwice

(* A change of k, and of nothing else.                                     *)
LEMMA ReservesMove ==
  ASSUME NEW m, Market(m), NEW k \in Nat \ {0}, NEW b \in Nat \ {0}, NEW q \in Nat \ {0},
         b + m.base_asset_amount_with_amm > 0, NEW x,
         Changed(m, x, {"sqrt_k", "base_asset_reserve", "quote_asset_reserve"}),
         x.sqrt_k = k, x.base_asset_reserve = b, x.quote_asset_reserve = q
  PROVE  Moved(m, x) /\ TerminalValid(x)
<1> DEFINE S == {"sqrt_k", "base_asset_reserve", "quote_asset_reserve"}
<1>1. DOMAIN m = Fields /\ m = [f \in Fields |-> m[f]]
  BY MarketNumbers
<1>2. S \subseteq CurveFields /\ CurveFields \subseteq Fields
  BY DEF CurveFields, IntegerFields, Fields
<1>3. Changed(m, x, S) /\ x.sqrt_k = k /\ x.base_asset_reserve = b /\ x.quote_asset_reserve = q
  OBVIOUS
<1>4. {"long_spread", "short_spread", "concentration_coef"} \subseteq CurveFields \ S
  BY DEF CurveFields
<1>5. Curved(x)
  BY <1>1, <1>2, <1>3, <1>4 DEF Changed, Market, Curved
<1>6. \A f \in S : x[f] \in Int
  BY <1>3
<1>7. Moved(m, x)
  BY <1>2, <1>3, <1>5, <1>6, CurveMoved
<1>8. "base_asset_amount_with_amm" \in Fields \ S
  BY DEF Fields, IntegerFields, OtherFields
<1>9. x.base_asset_amount_with_amm = m.base_asset_amount_with_amm
  BY <1>1, <1>3, <1>8 DEF Changed
<1> QED
  BY <1>3, <1>7, <1>9 DEF TerminalValid

LEMMA UpdateKMoves ==
  ASSUME NEW m, Market(m), NEW result, result.sqrt_k \in Nat \ {0}, result.base \in Nat \ {0},
         result.quote \in Nat \ {0}, result.base + m.base_asset_amount_with_amm > 0
  PROVE  Moved(m, update_k(m, result))
<1> DEFINE k == result.sqrt_k
           b == result.base
           q == result.quote
           x == [m EXCEPT !.sqrt_k = k, !.base_asset_reserve = b, !.quote_asset_reserve = q]
           y == RefreshTerminal(x)
<1>1. k \in Nat \ {0} /\ b \in Nat \ {0} /\ q \in Nat \ {0} /\ b + m.base_asset_amount_with_amm > 0
  OBVIOUS
<1>2. update_k(m, result) = update_spreads(y)
  BY DEF update_k
<1> HIDE DEF k, b, q
<1>3. /\ Changed(m, x, {"sqrt_k", "base_asset_reserve", "quote_asset_reserve"})
      /\ x.sqrt_k = k /\ x.base_asset_reserve = b /\ x.quote_asset_reserve = q
  <2>1. DOMAIN m = Fields /\ m = [f \in Fields |-> m[f]]
    BY MarketNumbers
  <2>2. {"sqrt_k", "base_asset_reserve", "quote_asset_reserve"} \subseteq Fields
    BY DEF CurveFields, IntegerFields, Fields
  <2> QED
    BY <2>1, <2>2 DEF Changed
<1> HIDE DEF x
<1>4. Moved(m, x) /\ TerminalValid(x)
  BY <1>1, <1>3, ReservesMove
<1>5. Moved(x, y)
  BY <1>4, RefreshMoves DEF Moved
<1> HIDE DEF y
<1>6. Moved(y, update_spreads(y))
  BY <1>5, SpreadsMove DEF Moved
<1> QED
  BY <1>2, <1>4, <1>5, <1>6, MovedTwice

LEMMA KResult ==
  ASSUME NEW m, Market(m), NEW k \in Int, NEW bound_update, UpdateKValid(m, k, bound_update)
  PROVE  LET result == get_update_k_result(m, k)
         IN  /\ result.sqrt_k \in Nat \ {0} /\ result.base \in Nat \ {0} /\ result.quote \in Nat \ {0}
             /\ result.base + m.base_asset_amount_with_amm > 0
<1> DEFINE P == AMM_RESERVE_PRECISION
           ratio == KRatio(m, k)
           scale == IF ratio < P THEN ratio + 1 ELSE ratio
           base == (m.base_asset_reserve * scale) \div P
           quote == (k * k) \div base
           result == get_update_k_result(m, k)
<1>1. P \in Nat \ {0} /\ m.sqrt_k \in Nat \ {0} /\ m.base_asset_reserve \in Int
  BY CurveConstants, MarketNumbers
<1>2. ratio \in Int
  BY <1>1, ProductOver DEF KRatio
<1> HIDE DEF ratio
<1>3. scale \in Int
  BY <1>1, <1>2
<1> HIDE DEF scale
<1>4. base \in Int
  BY <1>1, <1>3, ProductOver
<1> HIDE DEF base
<1>5. result = [sqrt_k |-> k, base |-> base, quote |-> quote]
  BY DEF get_update_k_result, base, scale, ratio
<1>6. k > 0 /\ result.base > 0 /\ result.quote > 0
      /\ result.base + m.base_asset_amount_with_amm > 0
  BY DEF UpdateKValid, KResultValid
<1>7. base \in Nat \ {0}
  BY <1>4, <1>5, <1>6
<1>8. quote \in Int
  BY <1>7, SquareOver
<1> HIDE DEF quote
<1> QED
  BY <1>5, <1>6, <1>7, <1>8

LEMMA NewKMoves ==
  ASSUME NEW m, Market(m), NEW k \in Int, NEW bound_update, UpdateKValid(m, k, bound_update)
  PROVE  Moved(m, update_k(m, get_update_k_result(m, k)))
<1> DEFINE result == get_update_k_result(m, k)
<1>1. /\ result.sqrt_k \in Nat \ {0} /\ result.base \in Nat \ {0} /\ result.quote \in Nat \ {0}
      /\ result.base + m.base_asset_amount_with_amm > 0
  BY KResult
<1> HIDE DEF result
<1>2. Moved(m, update_k(m, result))
  BY <1>1, UpdateKMoves
<1> QED
  BY <1>2 DEF result

LEMMA NetKept ==
  ASSUME NEW m, Market(m), NEW x, Moved(m, x)
  PROVE  /\ x.base_asset_amount_with_amm = m.base_asset_amount_with_amm
         /\ x.user_lp_shares = m.user_lp_shares
         /\ x.status = m.status
<1>1. DOMAIN m = Fields
  BY MarketNumbers
<1>2. {"base_asset_amount_with_amm", "user_lp_shares", "status"} \subseteq Fields \ CurveFields
  BY DEF Fields, IntegerFields, OtherFields, CurveFields
<1> QED
  BY <1>1, <1>2 DEF Moved, Changed

LEMMA ValueType ==
  ASSUME NEW m, Market(m), NetPositionClosable(m)
  PROVE  calculate_base_asset_value(m) \in Int
<1> DEFINE amount == m.base_asset_amount_with_amm
           direction == swap_direction_to_close_position(amount)
           shares == m.sqrt_k - m.user_lp_shares
           base == get_proportion_u128(m.base_asset_reserve, shares, m.sqrt_k)
           quote == get_proportion_u128(m.quote_asset_reserve, shares, m.sqrt_k)
           after == calculate_swap_output(Abs(amount), base, direction, shares)
<1>1. /\ m.sqrt_k \in Nat \ {0} /\ m.base_asset_reserve \in Int /\ m.quote_asset_reserve \in Int
      /\ amount \in Int /\ shares \in Int /\ m.peg_multiplier \in Int
  BY MarketNumbers
<1>2. Abs(amount) \in Int
  BY <1>1, AbsType
<1>3. NetPositionClosable(m) <=> (amount = 0 \/ SwapValid(Abs(amount), base, direction))
  BY DEF NetPositionClosable
<1>4. calculate_base_asset_value(m)
        = IF amount = 0 THEN 0
          ELSE calculate_quote_asset_amount_swapped(quote, after, direction, m.peg_multiplier)
  BY DEF calculate_base_asset_value
<1> HIDE DEF amount, direction, shares
<1>5. base \in Int
  BY <1>1, ProportionTypes
<1>6. quote \in Int
  BY <1>1, ProportionTypes
<1> HIDE DEF base, quote
<1>7. amount # 0 => after \in Int
  BY <1>1, <1>2, <1>3, <1>5, SwapOutput
<1> HIDE DEF after
<1>8. amount # 0
        => calculate_quote_asset_amount_swapped(quote, after, direction, m.peg_multiplier) \in Int
  BY <1>1, <1>6, <1>7, QuoteSwapped
<1> QED
  BY <1>4, <1>8

LEMMA ValueGivenType ==
  ASSUME NEW m, Market(m), NetPositionClosable(m), NEW x, Market(x), NetPositionClosable(x)
  PROVE  ValueGiven(m, x) \in Int
<1> DEFINE v == calculate_base_asset_value(m)
           w == calculate_base_asset_value(x)
<1>1. v \in Int
  BY ValueType
<1>2. w \in Int
  BY ValueType
<1>3. ValueGiven(m, x) = IF m.base_asset_amount_with_amm = 0 THEN 0
                         ELSE IF m.base_asset_amount_with_amm > 0 THEN w - v ELSE -(w - v)
  BY DEF ValueGiven
<1> HIDE DEF v, w
<1> QED
  BY <1>1, <1>2, <1>3

LEMMA FeeTypes ==
  ASSUME NEW m, Market(m)
  PROVE  /\ get_total_fee_lower_bound(m) \in Int
         /\ FeeReservedForProtocol(m) \in Int
         /\ calculate_fee_pool(m) \in Nat
<1>1. m.total_exchange_fee \in Int /\ FeeShareDenominator \in Nat \ {0}
      /\ m.total_liquidation_fee \in Int
      /\ m.total_fee_withdrawn \in Int /\ m.total_fee_minus_distributions \in Int
  BY MarketNumbers, CurveConstants
<1>2. get_total_fee_lower_bound(m) \in Int
  BY <1>1, DivType DEF get_total_fee_lower_bound
<1>3. FeeReservedForProtocol(m) \in Int
  BY <1>1, <1>2 DEF FeeReservedForProtocol
<1> QED
  BY <1>1, <1>2, <1>3 DEF calculate_fee_pool, Greatest

LEMMA CostMoves ==
  ASSUME NEW m, Market(m), NEW cost \in Int
  PROVE  Moved(m, apply_cost_to_market(m, cost))
<1> DEFINE x == apply_cost_to_market(m, cost)
           a == m.total_fee_minus_distributions - cost
           b == m.net_revenue_since_last_funding - cost
           S == {"total_fee_minus_distributions", "net_revenue_since_last_funding"}
<1>1. a \in Int /\ b \in Int
  BY MarketNumbers
<1>2. DOMAIN m = Fields /\ m = [f \in Fields |-> m[f]]
  BY MarketNumbers
<1>3. S \subseteq CurveFields /\ CurveFields \subseteq Fields
  BY DEF CurveFields, IntegerFields, Fields
<1>4. x = [m EXCEPT !.total_fee_minus_distributions = a, !.net_revenue_since_last_funding = b]
  BY <1>2, <1>3 DEF apply_cost_to_market
<1> HIDE DEF a, b, x
<1>5. Changed(m, x, S) /\ x.total_fee_minus_distributions = a /\ x.net_revenue_since_last_funding = b
  BY <1>2, <1>3, <1>4 DEF Changed
<1>6. {"base_asset_reserve", "quote_asset_reserve", "sqrt_k", "concentration_coef",
       "long_spread", "short_spread"} \subseteq CurveFields \ S
  BY DEF CurveFields
<1>7. Curved(x)
  BY <1>2, <1>3, <1>5, <1>6 DEF Changed, Market, Curved
<1>8. \A f \in S : x[f] \in Int
  BY <1>1, <1>5
<1> QED
  BY <1>3, <1>5, <1>7, <1>8, CurveMoved DEF x

LEMMA PegMoves ==
  ASSUME NEW m, Market(m), NEW peg \in Int
  PROVE  Moved(m, [m EXCEPT !.peg_multiplier = peg])
<1> DEFINE x == [m EXCEPT !.peg_multiplier = peg]
           S == {"peg_multiplier"}
<1>1. DOMAIN m = Fields /\ m = [f \in Fields |-> m[f]]
  BY MarketNumbers
<1>2. S \subseteq CurveFields /\ CurveFields \subseteq Fields
  BY DEF CurveFields, IntegerFields, Fields
<1>3. Changed(m, x, S) /\ x.peg_multiplier = peg
  BY <1>1, <1>2 DEF Changed
<1> HIDE DEF x
<1>4. {"base_asset_reserve", "quote_asset_reserve", "sqrt_k", "concentration_coef",
       "long_spread", "short_spread"} \subseteq CurveFields \ S
  BY DEF CurveFields
<1>5. Curved(x)
  BY <1>1, <1>2, <1>3, <1>4 DEF Changed, Market, Curved
<1>6. \A f \in S : x[f] \in Int
  BY <1>3
<1>7. Moved(m, x)
  BY <1>2, <1>3, <1>5, <1>6, CurveMoved
<1> QED
  BY <1>7 DEF x

LEMMA TargetPegType ==
  ASSUME NEW m, Market(m), NEW price \in Int
  PROVE  calculate_peg_from_target_price(m, price) \in Int
<1> DEFINE peg == (price * m.base_asset_reserve) \div m.quote_asset_reserve
<1>1. peg \in Int
  BY MarketNumbers, ProductOver
<1> HIDE DEF peg
<1>2. Greatest(1, peg) \in Int
  BY <1>1 DEF Greatest
<1> QED
  BY <1>2 DEF calculate_peg_from_target_price, peg

LEMMA RepegCostType ==
  ASSUME NEW m, Market(m), NEW peg \in Int
  PROVE  calculate_repeg_cost(m, peg) \in Int
<1> DEFINE c == (m.quote_asset_reserve - m.terminal_quote_asset_reserve) * (peg - m.peg_multiplier)
<1>1. c \in Int
  BY MarketNumbers
<1> HIDE DEF c
<1>2. Quot(c, AMM_RESERVE_PRECISION) \in Int
  BY <1>1, QuotTypes, CurveConstants
<1> QED
  BY <1>2 DEF calculate_repeg_cost, c

LEMMA PerPegCostType ==
  ASSUME NEW m, Market(m)
  PROVE  calculate_per_peg_cost(m) \in Int
<1> DEFINE c == m.quote_asset_reserve - m.terminal_quote_asset_reserve
           q == QuotCeil(c, AMM_TO_QUOTE_PRECISION_RATIO)
<1>1. c \in Int
  BY MarketNumbers
<1> HIDE DEF c
<1>2. q \in Int
  BY <1>1, QuotTypes, CurveConstants
<1> HIDE DEF q
<1>3. Sign(q) \in Int
  BY <1>2, AbsType
<1> QED
  BY <1>2, <1>3 DEF calculate_per_peg_cost, q, c

LEMMA OptimalPegTypes ==
  ASSUME NEW m, Market(m), NEW price \in Int
  PROVE  /\ calculate_optimal_peg_and_budget(m, price).peg \in Int
         /\ calculate_optimal_peg_and_budget(m, price).budget \in Int
<1> DEFINE half == (price * (max_spread \div 2)) \div BID_ASK_SPREAD_PRECISION
           gap == reserve_price(m) - price
           toward == reserve_price(m) - Sign(gap) * (Abs(gap) - half)
           near == calculate_peg_from_target_price(m, toward)
           optimal == calculate_peg_from_target_price(m, price)
           short == calculate_fee_pool(m) < Greatest(0, calculate_repeg_cost(m, optimal))
           cost == calculate_repeg_cost(m, near)
<1>1. max_spread \div 2 \in Int /\ BID_ASK_SPREAD_PRECISION \in Nat \ {0}
  BY CurveConstants
<1>2. half \in Int
  BY <1>1, ProductOver
<1>3. gap \in Int /\ reserve_price(m) \in Int
  BY PriceType
<1> HIDE DEF half, gap
<1>4. Abs(gap) \in Int /\ Sign(gap) \in Int
  BY <1>3, AbsType
<1>5. toward \in Int
  BY <1>2, <1>3, <1>4
<1> HIDE DEF toward
<1>6. near \in Int
  BY <1>5, TargetPegType
<1>7. optimal \in Int
  BY TargetPegType
<1>8. calculate_fee_pool(m) \in Int
  BY FeeTypes
<1> HIDE DEF near
<1>9. cost \in Int
  BY <1>6, RepegCostType
<1> HIDE DEF optimal, cost, short
<1>10. calculate_optimal_peg_and_budget(m, price)
         = IF short /\ Abs(gap) > half
             THEN [peg |-> near, budget |-> cost, check_lower_bound |-> FALSE]
             ELSE [peg |-> optimal, budget |-> calculate_fee_pool(m),
                   check_lower_bound |-> ~(short /\ calculate_fee_pool(m) = 0)]
  BY DEF calculate_optimal_peg_and_budget, short, near, optimal, cost, toward, gap, half
<1> QED
  BY <1>6, <1>7, <1>8, <1>9, <1>10

LEMMA SpendMoves ==
  ASSUME NEW m, Market(m), NEW budget \in Int, calculate_per_peg_cost(m) # 0
  PROVE  Moved(m, SpendOnPeg(m, budget).market) /\ SpendOnPeg(m, budget).cost \in Int
<1> DEFINE delta == BudgetDeltaPeg(m, budget)
           new_peg == IF delta > 0 THEN m.peg_multiplier + delta
                      ELSE Greatest(1, m.peg_multiplier - Abs(delta))
<1>1. budget * PEG_PRECISION \in Int
  BY CurveConstants
<1>2. delta \in Int
  BY <1>1, QuotTypes, PerPegCostType DEF BudgetDeltaPeg
<1> HIDE DEF delta
<1>3. Abs(delta) \in Int
  BY <1>2, AbsType
<1>4. new_peg \in Int
  BY <1>2, <1>3, MarketNumbers DEF Greatest
<1> HIDE DEF new_peg
<1>5. Moved(m, [m EXCEPT !.peg_multiplier = new_peg])
  BY <1>4, PegMoves
<1>6. calculate_repeg_cost(m, new_peg) \in Int
  BY <1>4, RepegCostType
<1>7. SpendOnPeg(m, budget) = [ market |-> [m EXCEPT !.peg_multiplier = new_peg],
                                cost |-> calculate_repeg_cost(m, new_peg) ]
  BY DEF SpendOnPeg, MovePegBy, new_peg, delta
<1> QED
  BY <1>5, <1>6, <1>7

LEMMA LoweredKType ==
  ASSUME NEW m, Market(m)
  PROVE  LoweredK(m) \in Int
<1>1. m.sqrt_k \in Nat /\ m.user_lp_shares \in Nat /\ m.base_asset_amount_with_amm \in Int
      /\ K_DECREASE_FRACTION \in Nat \ {0} /\ min_order_size \in Int
  BY MarketNumbers, CurveConstants
<1>2. Abs(m.base_asset_amount_with_amm) \in Int
  BY <1>1, AbsType
<1>3. m.sqrt_k \div K_DECREASE_FRACTION \in Int /\ m.user_lp_shares \div 1000 \in Int
  <2>1. m.sqrt_k \div K_DECREASE_FRACTION \in Int
    BY <1>1, DivType
  <2>2. m.user_lp_shares \div 1000 \in Int
    BY <1>1
  <2> QED
    BY <2>1, <2>2
<1>4. get_lower_bound_sqrt_k(m) \in Int
  BY <1>1, <1>2, <1>3 DEF get_lower_bound_sqrt_k, Least, Greatest
<1> QED
  BY <1>1, <1>3, <1>4 DEF LoweredK, Greatest

LEMMA AdjustMoves ==
  ASSUME NEW m, Market(m), NEW peg \in Int, NEW budget \in Int, AdjustAmmValid(m, peg, budget)
  PROVE  Moved(m, adjust_amm(m, peg, budget).market) /\ adjust_amm(m, peg, budget).cost \in Int
<1> DEFINE r == adjust_amm(m, peg, budget)
<1>1. CASE peg = m.peg_multiplier
  <2>1. r = [market |-> m, cost |-> 0]
    BY <1>1 DEF adjust_amm
  <2> HIDE DEF r
  <2>2. r.market = m /\ r.cost \in Int
    BY <2>1
  <2> QED
    BY <2>2, MovedNot DEF r
<1>2. CASE peg # m.peg_multiplier /\ UseOptimalPeg(m, peg, budget)
  <2> DEFINE x == [m EXCEPT !.peg_multiplier = peg]
  <2>1. r = [market |-> x, cost |-> calculate_repeg_cost(m, peg)]
    BY <1>2 DEF adjust_amm
  <2>2. Moved(m, x) /\ calculate_repeg_cost(m, peg) \in Int
    BY PegMoves, RepegCostType
  <2> HIDE DEF r, x
  <2>3. Moved(m, r.market) /\ r.cost \in Int
    BY <2>1, <2>2
  <2> QED
    BY <2>3 DEF r
<1>3. CASE peg # m.peg_multiplier /\ ~UseOptimalPeg(m, peg, budget) /\ can_lower_k(m)
  <2> DEFINE lowered == LowerK(m)
             gained == budget + Abs(ValueGiven(m, lowered))
  <2>1. r = SpendOnPeg(lowered, gained)
    BY <1>3 DEF adjust_amm, FullBudgetAmm, SpendGain
  <2>2. /\ UpdateKValid(m, LoweredK(m), TRUE) /\ NetPositionClosable(m)
        /\ NetPositionClosable(lowered) /\ calculate_per_peg_cost(lowered) # 0
    BY <1>3 DEF AdjustAmmValid
  <2>3. Moved(m, lowered)
    BY <2>2, LoweredKType, NewKMoves DEF LowerK
  <2>4. Market(lowered)
    BY <2>3 DEF Moved
  <2> HIDE DEF lowered, r
  <2>5. ValueGiven(m, lowered) \in Int
    BY <2>2, <2>4, ValueGivenType
  <2>6. gained \in Int
    BY <2>5, AbsType
  <2> HIDE DEF gained
  <2>7. Moved(lowered, r.market) /\ r.cost \in Int
    BY <2>1, <2>2, <2>4, <2>6, SpendMoves
  <2>8. Moved(m, r.market) /\ r.cost \in Int
    BY <2>3, <2>7, MovedTwice
  <2> QED
    BY <2>8 DEF r
<1>4. CASE peg # m.peg_multiplier /\ ~UseOptimalPeg(m, peg, budget) /\ ~can_lower_k(m)
  <2>1. r = SpendOnPeg(m, budget)
    BY <1>4 DEF adjust_amm, FullBudgetAmm
  <2> DEFINE cost == calculate_per_peg_cost(m)
             delta == peg - m.peg_multiplier
  <2>2. ~ (cost * delta <= 0)
    BY <1>4 DEF UseOptimalPeg
  <2>3. cost \in Int /\ delta \in Int
    BY PerPegCostType, MarketNumbers
  <2> HIDE DEF cost, delta, r
  <2>4. cost # 0
    BY <2>2, <2>3
  <2>5. Moved(m, r.market) /\ r.cost \in Int
    BY <2>1, <2>4, SpendMoves DEF cost
  <2> QED
    BY <2>5 DEF r
<1> QED
  BY <1>1, <1>2, <1>3, <1>4

LEMMA MoveCurveMoves ==
  ASSUME NEW m, Market(m), NEW repegged, Moved(m, repegged.market), repegged.cost \in Int,
         NEW check, CostApplied(m, repegged.cost, check) => TerminalValid(repegged.market)
  PROVE  Moved(m, MoveCurve(m, repegged, check))
<1> DEFINE x == repegged.market
           y == apply_cost_to_market(m, repegged.cost)
           result == [ sqrt_k |-> x.sqrt_k, base |-> x.base_asset_reserve,
                       quote |-> x.quote_asset_reserve ]
           moved == update_k(y, result)
           z == [moved EXCEPT !.peg_multiplier = x.peg_multiplier]
<1>1. MoveCurve(m, repegged, check) = IF CostApplied(m, repegged.cost, check) THEN z ELSE m
  BY DEF MoveCurve
<1>2. CASE CostApplied(m, repegged.cost, check)
  <2>1. Moved(m, y)
    BY CostMoves
  <2>2. Market(x) /\ Market(y)
    BY <2>1 DEF Moved
  <2>3. /\ x.sqrt_k \in Nat \ {0} /\ x.base_asset_reserve \in Nat \ {0}
        /\ x.quote_asset_reserve \in Nat \ {0} /\ x.peg_multiplier \in Int
    BY <2>2, MarketNumbers
  <2>4. /\ x.base_asset_amount_with_amm = m.base_asset_amount_with_amm
        /\ y.base_asset_amount_with_amm = m.base_asset_amount_with_amm
    BY <2>1, NetKept
  <2>5. x.base_asset_reserve + y.base_asset_amount_with_amm > 0
    BY <1>2, <2>4 DEF TerminalValid
  <2> DEFINE peg == x.peg_multiplier
             k == x.sqrt_k
             b == x.base_asset_reserve
             q == x.quote_asset_reserve
  <2> HIDE DEF y, x
  <2>6. /\ result.sqrt_k \in Nat \ {0} /\ result.base \in Nat \ {0} /\ result.quote \in Nat \ {0}
        /\ result.base + y.base_asset_amount_with_amm > 0
    BY <2>3, <2>5
  <2> HIDE DEF result
  <2>7. Moved(y, moved)
    BY <2>2, <2>6, UpdateKMoves
  <2> HIDE DEF moved
  <2>8. Moved(moved, z)
    <3>1. peg \in Int /\ Market(moved)
      BY <2>3, <2>7 DEF Moved
    <3> HIDE DEF peg
    <3>2. Moved(moved, [moved EXCEPT !.peg_multiplier = peg])
      BY <3>1, PegMoves
    <3> QED
      BY <3>2 DEF peg
  <2> HIDE DEF z
  <2>9. Moved(m, z)
    BY <2>1, <2>7, <2>8, MovedTwice
  <2> QED
    BY <1>1, <1>2, <2>9
<1>3. CASE ~CostApplied(m, repegged.cost, check)
  BY <1>1, <1>3, MovedNot
<1> QED
  BY <1>2, <1>3

LEMMA UpdateAmmMoves ==
  ASSUME NEW m, Market(m), NEW price \in Int, UpdateAmmValid(m, price)
  PROVE  Moved(m, _update_amm(m, price))
<1> DEFINE optimal == calculate_optimal_peg_and_budget(m, price)
           repegged == adjust_amm(m, optimal.peg, optimal.budget)
           x == IF curve_update_intensity > 0 THEN UpdateCurve(m, price) ELSE m
<1>1. CASE m.status \in {"Settlement", "Delisted"}
  BY <1>1, MovedNot DEF _update_amm
<1>2. CASE m.status \notin {"Settlement", "Delisted"}
  <2>1. _update_amm(m, price) = update_spreads(x)
    BY <1>2 DEF _update_amm
  <2>2. ASSUME curve_update_intensity > 0
        PROVE  Moved(m, UpdateCurve(m, price))
    <3>1. AdjustToValid(m, optimal)
      BY <1>2, <2>2 DEF UpdateAmmValid
    <3>2. optimal.peg \in Int /\ optimal.budget \in Int
      BY OptimalPegTypes
    <3>3. UpdateCurve(m, price) = MoveCurve(m, repegged, optimal.check_lower_bound)
      BY DEF UpdateCurve, AdjustTo
    <3> HIDE DEF optimal
    <3>4. AdjustAmmValid(m, optimal.peg, optimal.budget)
      BY <3>1 DEF AdjustToValid
    <3>5. CostApplied(m, repegged.cost, optimal.check_lower_bound) => TerminalValid(repegged.market)
      BY <3>1 DEF AdjustToValid
    <3>6. Moved(m, repegged.market) /\ repegged.cost \in Int
      BY <3>2, <3>4, AdjustMoves
    <3> HIDE DEF repegged
    <3> QED
      BY <3>3, <3>5, <3>6, MoveCurveMoves
  <2>3. Moved(m, x)
    BY <2>2, MovedNot
  <2> HIDE DEF x
  <2>4. Moved(x, update_spreads(x))
    BY <2>3, SpreadsMove DEF Moved
  <2> QED
    BY <2>1, <2>3, <2>4, MovedTwice
<1> QED
  BY <1>1, <1>2

LEMMA RepegMoves ==
  ASSUME NEW m, Market(m), NEW peg \in Int, NetPositionClosable(m)
  PROVE  Moved(m, repeg(m, peg))
<1> DEFINE x == [m EXCEPT !.peg_multiplier = peg]
           cost == adjust_peg_cost(m, peg)
           y == apply_cost_to_market(m, cost)
<1>1. DOMAIN m = Fields /\ m = [f \in Fields |-> m[f]]
  BY MarketNumbers
<1>2. {"peg_multiplier", "base_asset_amount_with_amm", "user_lp_shares", "sqrt_k",
       "base_asset_reserve"} \subseteq Fields
  BY DEF Fields, IntegerFields, CurveFields, OtherFields
<1>3. /\ x.base_asset_amount_with_amm = m.base_asset_amount_with_amm
      /\ x.user_lp_shares = m.user_lp_shares /\ x.sqrt_k = m.sqrt_k
      /\ x.base_asset_reserve = m.base_asset_reserve
  BY <1>1, <1>2
<1>4. Market(x)
  BY PegMoves DEF Moved
<1>5. cost = ValueGiven(m, x)
  BY DEF adjust_peg_cost
<1>6. repeg(m, peg) = [y EXCEPT !.peg_multiplier = peg]
  BY DEF repeg
<1> HIDE DEF x, cost, y
<1>7. NetPositionClosable(x)
  BY <1>3 DEF NetPositionClosable
<1>8. cost \in Int
  BY <1>4, <1>5, <1>7, ValueGivenType
<1>9. Moved(m, y)
  BY <1>8, CostMoves DEF y
<1>10. Moved(y, repeg(m, peg))
  BY <1>6, <1>9, PegMoves DEF Moved
<1> QED
  BY <1>9, <1>10, MovedTwice

LEMMA KScaleType ==
  ASSUME NEW m, Market(m), NEW budget \in Int, BudgetedKScaleValid(m, budget),
         NEW upper \in Int, NEW lower \in Int
  PROVE  calculate_budgeted_k_scale(m, budget, upper, lower) \in Int
<1> DEFINE P == AMM_RESERVE_PRECISION
           R == AMM_TO_QUOTE_PRECISION_RATIO
           c == Abs(budget)
           c_sign == IF budget < 0 THEN 1 ELSE -1
           d == m.base_asset_amount_with_amm
           d_sign == IF d > 0 THEN 1 ELSE -1
           x_d == m.base_asset_reserve + d
           a1 == (m.base_asset_reserve * x_d) \div P
           x_x_d_c == (a1 * c) \div PEG_PRECISION
           b1 == (c * Abs(x_d)) \div PEG_PRECISION
           c_x_d_d == (b1 * Abs(d)) \div P
           p1 == (m.quote_asset_reserve * Abs(d)) \div P
           p2 == (p1 * Abs(d)) \div P
           pegged == (p2 * m.peg_multiplier) \div PEG_PRECISION
           over == pegged - c_x_d_d * c_sign * d_sign
           under == x_x_d_c * c_sign + pegged
           parts == KScaleParts(m, budget)
<1>1. /\ P \in Nat \ {0} /\ R \in Nat \ {0} /\ PEG_PRECISION \in Nat \ {0}
      /\ m.base_asset_reserve \in Int /\ m.quote_asset_reserve \in Int /\ d \in Int
      /\ m.peg_multiplier \in Int /\ K_BPS_UPDATE_SCALE \in Int
  BY MarketNumbers, CurveConstants
<1>2. x_d \in Int /\ c_sign \in Int /\ d_sign \in Int
  BY <1>1
<1> HIDE DEF P, R, d, c_sign, d_sign, x_d
<1>3. c \in Int
  BY AbsType
<1>4. Abs(x_d) \in Int
  BY <1>2, AbsType
<1>5. Abs(d) \in Int
  BY <1>1, AbsType
<1> HIDE DEF c
<1>6. a1 \in Int
  BY <1>1, <1>2, ProductOver
<1> HIDE DEF a1
<1>7. x_x_d_c \in Int
  BY <1>1, <1>3, <1>6, ProductOver
<1>8. b1 \in Int
  BY <1>1, <1>3, <1>4, ProductOver
<1> HIDE DEF b1
<1>9. c_x_d_d \in Int
  BY <1>1, <1>5, <1>8, ProductOver
<1>10. p1 \in Int
  BY <1>1, <1>5, ProductOver
<1> HIDE DEF p1
<1>11. p2 \in Int
  BY <1>1, <1>5, <1>10, ProductOver
<1> HIDE DEF p2
<1>12. pegged \in Int
  BY <1>1, <1>11, ProductOver
<1> HIDE DEF x_x_d_c, c_x_d_d, pegged
<1>13. over \in Int /\ under \in Int
  <2>1. c_x_d_d * c_sign \in Int /\ x_x_d_c * c_sign \in Int
    BY <1>2, <1>7, <1>9
  <2> DEFINE e == c_x_d_d * c_sign
  <2>2. e * d_sign \in Int
    <3> HIDE DEF e
    <3>1. e \in Int
      BY <2>1 DEF e
    <3> QED
      BY <1>2, <3>1
  <2> QED
    BY <1>12, <2>1, <2>2
<1>14. parts = [ numerator |-> Quot(over, R), denominator |-> Quot(under, R),
                 unstable |-> c_sign < 0 /\ x_x_d_c > pegged ]
  BY DEF KScaleParts, over, under, P, R, c, c_sign, d, d_sign, x_d, a1, x_x_d_c, b1, c_x_d_d,
         p1, p2, pegged
<1> HIDE DEF over, under
<1> DEFINE n == parts.numerator
           q == parts.denominator
           scale == (Abs(n) * K_BPS_UPDATE_SCALE) \div Abs(q)
<1>15. n \in Int
  BY <1>1, <1>13, <1>14, QuotTypes
<1>16. q \in Int
  BY <1>1, <1>13, <1>14, QuotTypes
<1>17. parts.unstable \/ n * q > 0
  BY DEF BudgetedKScaleValid
<1>18. calculate_budgeted_k_scale(m, budget, upper, lower)
         = IF parts.unstable THEN upper
           ELSE IF Abs(n) > Abs(q) THEN Least(scale, upper) ELSE Greatest(scale, lower)
  BY DEF calculate_budgeted_k_scale
<1> HIDE DEF n, q, parts
<1>19. Abs(n) \in Int
  BY <1>15, AbsType
<1>20. n * q > 0 => q # 0
  BY <1>15, <1>16
<1>21. ~parts.unstable => Abs(q) \in Nat \ {0}
  BY <1>16, <1>17, <1>20, AbsType
<1>22. ~parts.unstable => scale \in Int
  BY <1>1, <1>19, <1>21, ProductOver
<1> HIDE DEF scale
<1> QED
  BY <1>18, <1>22 DEF Least, Greatest

LEMMA NewKAtCost ==
  ASSUME NEW m, Market(m), NEW k \in Int, NEW bound_update, UpdateKValid(m, k, bound_update),
         NetPositionClosable(m), NetPositionClosable(update_k(m, get_update_k_result(m, k)))
  PROVE  LET result == get_update_k_result(m, k)
             cost == adjust_k_cost(m, result)
         IN  /\ cost \in Int
             /\ Moved(m, update_k(apply_cost_to_market(m, cost), result))
             /\ Moved(m, apply_cost_to_market(update_k(m, result), cost))
<1> DEFINE result == get_update_k_result(m, k)
           x == update_k(m, result)
           cost == adjust_k_cost(m, result)
           y == apply_cost_to_market(m, cost)
<1>1. Moved(m, x)
  BY NewKMoves
<1>2. Market(x) /\ NetPositionClosable(x)
  BY <1>1 DEF Moved
<1>3. cost = ValueGiven(m, x)
  BY DEF adjust_k_cost
<1>4. /\ result.sqrt_k \in Nat \ {0} /\ result.base \in Nat \ {0} /\ result.quote \in Nat \ {0}
      /\ result.base + m.base_asset_amount_with_amm > 0
  BY KResult
<1> HIDE DEF x, cost, result
<1>5. cost \in Int
  BY <1>2, <1>3, ValueGivenType
<1>6. Moved(m, y) /\ Moved(x, apply_cost_to_market(x, cost))
  BY <1>2, <1>5, CostMoves
<1> HIDE DEF y
<1>7. Market(y) /\ y.base_asset_amount_with_amm = m.base_asset_amount_with_amm
  BY <1>6, NetKept DEF Moved
<1>8. Moved(y, update_k(y, result))
  BY <1>4, <1>7, UpdateKMoves
<1>9. Moved(m, update_k(y, result)) /\ Moved(m, apply_cost_to_market(x, cost))
  BY <1>1, <1>6, <1>8, MovedTwice
<1> QED
  BY <1>5, <1>9 DEF x, y, cost, result

LEMMA KBudgetType ==
  ASSUME NEW m, Market(m), NEW cost \in Int
  PROVE  KBudget(m, cost) \in Int
<1> DEFINE r == Greatest(0, m.net_revenue_since_last_funding) - cost
<1>1. r \in Int
  BY MarketNumbers DEF Greatest
<1> DEFINE two == 2
<1>2. two \in Int /\ two # 0
  OBVIOUS
<1> HIDE DEF r, two
<1>3. Quot(r, two) \in Int
  BY <1>1, <1>2, QuotTypes
<1>4. (-cost) \div 2 \in Int
  OBVIOUS
<1> QED
  BY <1>3, <1>4 DEF KBudget, r, two

LEMMA FormulaicKType ==
  ASSUME NEW m, Market(m), NEW budget \in Int, BudgetedKScaleValid(m, budget)
  PROVE  FormulaicK(m, budget) \in Int
<1> DEFINE bound == (MAX_K_BPS_INCREASE * curve_update_intensity) \div 100
           upper == K_BPS_UPDATE_SCALE + bound
           lower == K_BPS_UPDATE_SCALE - bound
           scale == calculate_budgeted_k_scale(m, budget, upper, lower)
           k == (m.sqrt_k * scale) \div K_BPS_UPDATE_SCALE
<1>1. bound \in Int
  <2> DEFINE a == MAX_K_BPS_INCREASE * curve_update_intensity
  <2>1. a \in Int
    BY CurveConstants
  <2> HIDE DEF a
  <2>2. a \div 100 \in Int
    BY <2>1
  <2> QED
    BY <2>2 DEF a
<1> HIDE DEF bound
<1>2. upper \in Int /\ lower \in Int
  BY <1>1, CurveConstants
<1> HIDE DEF upper, lower
<1>3. scale \in Int
  BY <1>2, KScaleType
<1> HIDE DEF scale
<1>4. k \in Int
  BY <1>3, MarketNumbers, CurveConstants, ProductOver
<1> HIDE DEF k
<1>5. Greatest(k, m.user_lp_shares + 1) \in Int
  BY <1>4, MarketNumbers DEF Greatest
<1> QED
  BY <1>5 DEF FormulaicK, k, scale, upper, lower, bound

LEMMA FormulaicMoves ==
  ASSUME NEW m, Market(m), NEW cost \in Int, FormulaicUpdateKValid(m, cost)
  PROVE  Moved(m, formulaic_update_k(m, cost))
<1> DEFINE budget == KBudget(m, cost)
           k == FormulaicK(m, budget)
           result == get_update_k_result(m, k)
           charge == adjust_k_cost(m, result)
<1>1. budget \in Int
  BY KBudgetType
<1>2. formulaic_update_k(m, cost)
        = IF KMoves(m, budget)
            THEN IF CostApplied(m, charge, TRUE)
                   THEN update_k(apply_cost_to_market(m, charge), result) ELSE m
            ELSE m
  BY DEF formulaic_update_k, MoveK, UpdateKAtCost
<1>3. CASE KMoves(m, budget)
  <2>1. /\ BudgetedKScaleValid(m, budget) /\ UpdateKValid(m, k, TRUE) /\ NetPositionClosable(m)
        /\ NetPositionClosable(update_k(m, result))
    BY <1>3 DEF FormulaicUpdateKValid
  <2> HIDE DEF budget
  <2>2. k \in Int
    BY <1>1, <2>1, FormulaicKType
  <2> HIDE DEF k
  <2>3. Moved(m, update_k(apply_cost_to_market(m, charge), result))
    BY <2>1, <2>2, NewKAtCost
  <2> QED
    BY <1>2, <1>3, <2>3, MovedNot
<1>4. CASE ~KMoves(m, budget)
  BY <1>2, <1>4, MovedNot
<1> QED
  BY <1>3, <1>4

LEMMA PriceMoves ==
  ASSUME NEW m, Market(m), NEW base \in Nat \ {0}, NEW k \in Nat \ {0}, (k * k) \div base > 0,
         base + m.base_asset_amount_with_amm > 0
  PROVE  Moved(m, move_price(m, base, k))
<1> DEFINE q == (k * k) \div base
           x == [m EXCEPT !.base_asset_reserve = base, !.quote_asset_reserve = q, !.sqrt_k = k]
           y == RefreshTerminal(x)
<1>1. q \in Nat \ {0}
  BY SquareOver
<1>2. move_price(m, base, k) = update_spreads(y)
  BY DEF move_price
<1> HIDE DEF q
<1>3. /\ Changed(m, x, {"sqrt_k", "base_asset_reserve", "quote_asset_reserve"})
      /\ x.sqrt_k = k /\ x.base_asset_reserve = base /\ x.quote_asset_reserve = q
  <2>1. DOMAIN m = Fields /\ m = [f \in Fields |-> m[f]]
    BY MarketNumbers
  <2>2. {"sqrt_k", "base_asset_reserve", "quote_asset_reserve"} \subseteq Fields
    BY DEF CurveFields, IntegerFields, Fields
  <2> QED
    BY <2>1, <2>2 DEF Changed
<1> HIDE DEF x
<1>4. Moved(m, x) /\ TerminalValid(x)
  BY <1>1, <1>3, ReservesMove
<1>5. Moved(x, y)
  BY <1>4, RefreshMoves DEF Moved
<1> HIDE DEF y
<1>6. Moved(y, update_spreads(y))
  BY <1>5, SpreadsMove DEF Moved
<1> QED
  BY <1>2, <1>4, <1>5, <1>6, MovedTwice

LEMMA RecenterMoves ==
  ASSUME NEW m, Market(m), NEW peg \in Int, NEW k \in Nat \ {0}, RecenterValid(m, k)
  PROVE  Moved(m, recenter_perp_market_amm(m, peg, k))
<1> DEFINE x == [m EXCEPT !.peg_multiplier = peg]
           base == k - m.base_asset_amount_with_amm
<1>1. Moved(m, x)
  BY PegMoves
<1>2. recenter_perp_market_amm(m, peg, k) = move_price(x, base, k)
  BY DEF recenter_perp_market_amm
<1> HIDE DEF x
<1>3. x.base_asset_amount_with_amm = m.base_asset_amount_with_amm /\ Market(x)
  BY <1>1, NetKept DEF Moved
<1>4. base > 0 /\ (k * k) \div base > 0
  BY DEF RecenterValid
<1>5. base \in Nat \ {0} /\ base + m.base_asset_amount_with_amm > 0
  BY <1>4, MarketNumbers
<1> HIDE DEF base
<1>6. Moved(x, move_price(x, base, k))
  BY <1>3, <1>4, <1>5, PriceMoves
<1> QED
  BY <1>1, <1>2, <1>6, MovedTwice

LEMMA ConcentrationMoves ==
  ASSUME NEW m, Market(m), NEW scale \in Nat \ {0}, ConcentrationValid(m, scale)
  PROVE  Moved(m, update_concentration_coef(m, scale))
<1> DEFINE coef == ConcentrationCoef(scale)
           x == [m EXCEPT !.concentration_coef = coef]
           base == calculate_terminal_reserves(x).base
           y == calculate_bid_ask_bounds(x, base)
           S == {"concentration_coef"}
<1>1. coef \in Int
  BY CurveConstants, DivType DEF ConcentrationCoef
<1>2. coef > CONCENTRATION_PRECISION /\ TerminalValid(m)
  BY DEF ConcentrationValid
<1>3. coef \in Nat \ {0}
  BY <1>1, <1>2, CurveConstants
<1>4. update_concentration_coef(m, scale) = update_spreads(y)
  BY DEF update_concentration_coef
<1> HIDE DEF coef
<1>5. DOMAIN m = Fields /\ m = [f \in Fields |-> m[f]]
  BY MarketNumbers
<1>6. S \subseteq CurveFields /\ CurveFields \subseteq Fields
  BY DEF CurveFields, IntegerFields, Fields
<1>7. Changed(m, x, S) /\ x.concentration_coef = coef
  BY <1>5, <1>6 DEF Changed
<1> HIDE DEF x
<1>8. {"base_asset_reserve", "quote_asset_reserve", "sqrt_k",
       "long_spread", "short_spread"} \subseteq CurveFields \ S
  BY DEF CurveFields
<1>9. Curved(x) /\ x.base_asset_reserve = m.base_asset_reserve
  BY <1>3, <1>5, <1>6, <1>7, <1>8 DEF Changed, Market, Curved
<1>10. \A f \in S : x[f] \in Int
  BY <1>3, <1>7
<1>11. Moved(m, x)
  BY <1>6, <1>7, <1>9, <1>10, CurveMoved
<1>12. Market(x) /\ TerminalValid(x)
  BY <1>2, <1>9, <1>11, NetKept DEF TerminalValid, Moved
<1>13. base \in Int
  BY <1>12, TerminalTypes
<1> HIDE DEF base
<1>14. Moved(x, y)
  BY <1>12, <1>13, BoundsMove
<1> HIDE DEF y
<1>15. Moved(y, update_spreads(y))
  BY <1>14, SpreadsMove DEF Moved
<1> QED
  BY <1>4, <1>11, <1>14, <1>15, MovedTwice

(***************************************************************************)
(* Funding rates.                                                          *)
(***************************************************************************)

RateFields ==
  { "cumulative_funding_rate_long", "cumulative_funding_rate_short", "net_unsettled_funding_pnl",
    "last_funding_rate_ts" }

LEMMA FundingPaymentType ==
  ASSUME NEW rate \in Int, NEW base \in Int
  PROVE  calculate_funding_payment_in_quote_precision(rate, base) \in Int
<1> DEFINE x == (Abs(rate) * Abs(base)) \div PEG_PRECISION
           y == x \div FUNDING_RATE_BUFFER
           s == Sign(base) * Sign(rate)
           z == _calculate_funding_payment(rate, base)
<1>1. Abs(rate) \in Int /\ Sign(rate) \in Int
  BY AbsType
<1>2. Abs(base) \in Int /\ Sign(base) \in Int
  BY AbsType
<1>3. x \in Int
  BY <1>1, <1>2, ProductOver, CurveConstants
<1> HIDE DEF x
<1>4. y \in Int
  BY <1>3, DivType, OtherConstants
<1> HIDE DEF y
<1>5. s \in Int
  BY <1>1, <1>2
<1>6. z = -(s * y)
  BY DEF _calculate_funding_payment, x, y
<1> HIDE DEF s, z
<1>7. z \in Int
  BY <1>4, <1>5, <1>6
<1>8. Quot(z, AMM_TO_QUOTE_PRECISION_RATIO) \in Int
  BY <1>7, QuotTypes, CurveConstants
<1> QED
  BY <1>8 DEF calculate_funding_payment_in_quote_precision, z

LEMMA RatesType ==
  ASSUME NEW m, Market(m), NEW rate \in Int
  PROVE  LET rates == calculate_funding_rate_long_short(m, rate)
         IN  /\ rates.long \in Int /\ rates.short \in Int /\ rates.revenue \in Int
             /\ Moved(m, rates.m)
<1> DEFINE net == m.base_asset_amount_with_amm + m.base_asset_amount_with_unsettled_lp
           uncapped == UncappedFundingPnl(m, rate)
           limit == FundingPnlLimit(m)
           payers == IF rate > 0 THEN m.base_asset_amount_long ELSE m.base_asset_amount_short
           receivers == IF rate > 0 THEN m.base_asset_amount_short ELSE m.base_asset_amount_long
           from_users == calculate_funding_payment_in_quote_precision(rate, payers)
           left == limit - Abs(from_users)
           capped == calculate_funding_rate_from_pnl_limit(left, receivers)
           pnl == CappedFundingPnl(m, rate)
           capped_rate == IF uncapped >= 0 THEN rate
                          ELSE calculate_capped_funding_rate(m, uncapped, rate)
           rates == calculate_funding_rate_long_short(m, rate)
           y == apply_cost_to_market(m, -pnl)
<1>1. /\ net \in Int /\ payers \in Int /\ receivers \in Int
      /\ m.total_fee_minus_distributions \in Int /\ m.net_revenue_since_last_funding \in Int
  BY DEF Market, Typed, IntegerFields, LedgerFields, OtherFields, CurveFields
<1> HIDE DEF payers, receivers
<1>2. uncapped \in Int
  <2> DEFINE paid == calculate_funding_payment_in_quote_precision(rate, net)
  <2>1. uncapped = -paid
    BY DEF UncappedFundingPnl
  <2> HIDE DEF net
  <2>2. paid \in Int
    BY <1>1, FundingPaymentType
  <2> HIDE DEF paid, uncapped
  <2> QED
    BY <2>1, <2>2
<1>3. limit \in Int
  <2>1. calculate_fee_pool(m) \in Nat
    BY FeeTypes
  <2> QED
    BY <2>1 DEF FundingPnlLimit
<1>4. from_users \in Int
  BY <1>1, FundingPaymentType
<1> HIDE DEF uncapped, limit, from_users
<1>5. left \in Int
  BY <1>3, <1>4, AbsType
<1> HIDE DEF left
<1>6. capped \in Int
  <2> DEFINE l == IF left < 0 THEN left + 1 ELSE left
             n == l * AMM_RESERVE_PRECISION * FUNDING_RATE_BUFFER
  <2>1. l \in Int
    BY <1>5
  <2> HIDE DEF l
  <2>2. l * AMM_RESERVE_PRECISION \in Int
    BY <2>1, CurveConstants
  <2>3. n \in Int
    <3> DEFINE k == l * AMM_RESERVE_PRECISION
    <3> HIDE DEF k
    <3>1. k \in Int
      BY <2>2 DEF k
    <3>2. k * FUNDING_RATE_BUFFER \in Int
      BY <3>1, OtherConstants
    <3> QED
      BY <3>2 DEF k
  <2>4. capped = IF receivers = 0 THEN 0 ELSE Quot(n, receivers)
    BY DEF calculate_funding_rate_from_pnl_limit, l
  <2> HIDE DEF n, capped
  <2>5. receivers # 0 => Quot(n, receivers) \in Int
    BY <1>1, <2>3, QuotTypes
  <2> QED
    BY <2>4, <2>5
<1>7. calculate_capped_funding_rate(m, uncapped, rate)
        = IF uncapped < limit THEN capped ELSE rate
  BY DEF calculate_capped_funding_rate, limit, from_users, left, payers, receivers
<1>8. capped_rate \in Int
  <2> HIDE DEF capped
  <2> QED
    BY <1>6, <1>7
<1>9. pnl \in Int
  BY <1>2, <1>3 DEF CappedFundingPnl, Greatest, uncapped, limit
<1>10. rates = [ long |-> IF rate < 0 THEN capped_rate ELSE rate,
                 short |-> IF rate > 0 THEN capped_rate ELSE rate, revenue |-> uncapped,
                 m |-> [m EXCEPT !.total_fee_minus_distributions = @ + pnl,
                                 !.net_revenue_since_last_funding = @ + pnl] ]
  BY DEF calculate_funding_rate_long_short, uncapped
<1> HIDE DEF capped_rate, pnl
<1>11. y = [m EXCEPT !.total_fee_minus_distributions = @ + pnl,
                     !.net_revenue_since_last_funding = @ + pnl]
  <2>1. DOMAIN m = Fields /\ m = [f \in Fields |-> m[f]]
    BY MarketNumbers
  <2>2. {"total_fee_minus_distributions", "net_revenue_since_last_funding"} \subseteq Fields
    BY DEF CurveFields, IntegerFields, Fields
  <2>3. /\ m.total_fee_minus_distributions - (-pnl) = m.total_fee_minus_distributions + pnl
        /\ m.net_revenue_since_last_funding - (-pnl) = m.net_revenue_since_last_funding + pnl
    BY <1>1, <1>9
  <2> QED
    BY <2>1, <2>2, <2>3 DEF apply_cost_to_market
<1>12. -pnl \in Int
  BY <1>9
<1>13. Moved(m, y)
  <2> DEFINE c == -pnl
  <2>1. c \in Int
    BY <1>12
  <2> HIDE DEF c
  <2>2. Moved(m, apply_cost_to_market(m, c))
    BY <2>1, CostMoves
  <2> QED
    BY <2>2 DEF c
<1> HIDE DEF y, rates
<1>14. rates.m = y /\ rates.revenue = uncapped
  BY <1>10, <1>11
<1>15. rates.long \in Int /\ rates.short \in Int
  BY <1>8, <1>10
<1> QED
  BY <1>2, <1>13, <1>14, <1>15 DEF rates

LEMMA FundingRateUpdated ==
  ASSUME NEW m, Market(m), NEW rate \in Int, NEW ts \in Int, UpdateFundingRateValid(m, rate)
  PROVE  /\ Market(update_funding_rate(m, rate, ts))
         /\ Changed(m, update_funding_rate(m, rate, ts), CurveFields \cup RateFields)
<1> DEFINE rates == calculate_funding_rate_long_short(m, rate)
           cost == -rates.revenue
           curve == IF curve_update_intensity > 0 THEN formulaic_update_k(rates.m, cost) ELSE rates.m
           x == update_funding_rate(m, rate, ts)
           S == RateFields \cup {"net_revenue_since_last_funding"}
<1>1. rates.long \in Int /\ rates.short \in Int /\ rates.revenue \in Int /\ Moved(m, rates.m)
  BY RatesType
<1>2. curve_update_intensity > 0 => FormulaicUpdateKValid(rates.m, cost)
  BY DEF UpdateFundingRateValid
<1>3. x = [curve EXCEPT !.cumulative_funding_rate_long = @ + rates.long,
                        !.cumulative_funding_rate_short = @ + rates.short,
                        !.net_unsettled_funding_pnl = @ - rates.revenue,
                        !.last_funding_rate_ts = ts,
                        !.net_revenue_since_last_funding = 0]
  BY DEF update_funding_rate
<1> HIDE DEF rates, x
<1>4. cost \in Int
  BY <1>1
<1>5. Moved(m, curve)
  <2> HIDE DEF cost
  <2>1. curve_update_intensity > 0 => Moved(rates.m, formulaic_update_k(rates.m, cost))
    BY <1>1, <1>2, <1>4, FormulaicMoves DEF Moved
  <2> QED
    BY <1>1, <2>1, MovedTwice
<1>6. Market(curve) /\ Changed(m, curve, CurveFields)
  BY <1>5 DEF Moved
<1> HIDE DEF curve
<1>7. DOMAIN curve = Fields /\ curve = [f \in Fields |-> curve[f]]
  BY <1>6, MarketNumbers
<1>8. /\ S \subseteq IntegerFields /\ IntegerFields \subseteq Fields
      /\ S \subseteq CurveFields \cup RateFields
  BY DEF IntegerFields, Fields, RateFields, CurveFields, LedgerFields, OtherFields
<1>9. \A f \in S : curve[f] \in Int
  BY <1>6, <1>8 DEF Market, Typed
<1>10. \A f \in S : f \in {"cumulative_funding_rate_long", "cumulative_funding_rate_short",
                           "net_unsettled_funding_pnl", "last_funding_rate_ts",
                           "net_revenue_since_last_funding"}
  BY DEF RateFields
<1>11. {"cumulative_funding_rate_long", "cumulative_funding_rate_short",
        "net_unsettled_funding_pnl", "last_funding_rate_ts",
        "net_revenue_since_last_funding"} \subseteq S
  BY DEF RateFields
<1> HIDE DEF S
<1>12. /\ Changed(curve, x, S)
       /\ x.cumulative_funding_rate_long = curve.cumulative_funding_rate_long + rates.long
       /\ x.cumulative_funding_rate_short = curve.cumulative_funding_rate_short + rates.short
       /\ x.net_unsettled_funding_pnl = curve.net_unsettled_funding_pnl - rates.revenue
       /\ x.last_funding_rate_ts = ts
       /\ x.net_revenue_since_last_funding = 0
  BY <1>3, <1>7, <1>8, <1>11 DEF Changed
<1>13. \A f \in S : x[f] \in Int
  BY <1>1, <1>9, <1>10, <1>11, <1>12
<1>14. Typed(x)
  BY <1>6, <1>8, <1>12, <1>13, ChangedTyped DEF Market
<1>15. {"base_asset_reserve", "quote_asset_reserve", "sqrt_k", "concentration_coef",
        "long_spread", "short_spread"} \cup BoundedFields \subseteq Fields \ S
  BY DEF S, BoundedFields, RateFields, Fields, IntegerFields, CurveFields, LedgerFields, OtherFields
<1>16. Market(x)
  <2>1. Curved(x)
    BY <1>6, <1>7, <1>12, <1>15 DEF Changed, Market, Curved
  <2>2. \A f \in BoundedFields : x[f] = curve[f]
    BY <1>7, <1>12, <1>15 DEF Changed
  <2> QED
    BY <1>6, <1>14, <2>1, <2>2, BoundedKept
<1>17. Changed(m, x, CurveFields \cup S)
  BY <1>6, <1>12, ChangedTwice
<1>18. Changed(m, x, CurveFields \cup RateFields)
  BY <1>8, <1>17, ChangedMore
<1> QED
  BY <1>16, <1>18 DEF x

(***************************************************************************)
(* A position.                                                             *)
(***************************************************************************)

PositionFields ==
  { "base_asset_amount", "quote_asset_amount", "quote_entry_amount", "quote_break_even_amount",
    "remainder_base_asset_amount", "last_cumulative_funding_rate", "lp_shares",
    "last_base_asset_amount_per_lp", "last_quote_asset_amount_per_lp", "per_lp_base" }

Position(p) ==
  /\ p = [f \in PositionFields |-> p[f]]
  /\ \A f \in PositionFields : p[f] \in Int
  /\ p.lp_shares >= 0
  /\ Multiple(p.base_asset_amount)
  /\ p.remainder_base_asset_amount < order_step_size
  /\ p.remainder_base_asset_amount > -order_step_size

LEMMA PositionNumbers ==
  ASSUME NEW p, Position(p)
  PROVE  /\ DOMAIN p = PositionFields /\ p = [f \in PositionFields |-> p[f]]
         /\ p.base_asset_amount \in Int /\ p.quote_asset_amount \in Int
         /\ p.quote_entry_amount \in Int /\ p.quote_break_even_amount \in Int
         /\ p.remainder_base_asset_amount \in Int /\ p.last_cumulative_funding_rate \in Int
         /\ p.lp_shares \in Nat /\ p.last_base_asset_amount_per_lp \in Int
         /\ p.last_quote_asset_amount_per_lp \in Int /\ p.per_lp_base \in Int
BY DEF Position, PositionFields

LEMMA PositionChanged ==
  ASSUME NEW p, Position(p), NEW y, NEW S \in SUBSET PositionFields, Changed(p, y, S),
         \A f \in S : y[f] \in Int, y.lp_shares >= 0, Multiple(y.base_asset_amount),
         y.remainder_base_asset_amount < order_step_size,
         y.remainder_base_asset_amount > -order_step_size
  PROVE  Position(y)
<1>1. DOMAIN p = PositionFields /\ \A f \in PositionFields : p[f] \in Int
  BY DEF Position
<1>2. y = [f \in PositionFields |-> y[f]] /\ \A f \in PositionFields : y[f] \in Int
  BY <1>1 DEF Changed
<1> QED
  BY <1>2 DEF Position

(***************************************************************************)
(* What an operation on one position leaves of the market's totals: each   *)
(* moves by as much as the position does.                                  *)
(***************************************************************************)

HoldsBase(p) == IF NoBase(p) THEN 0 ELSE 1

NetBase(m) ==
  m.base_asset_amount_long + m.base_asset_amount_short
    - m.base_asset_amount_with_amm - m.base_asset_amount_with_unsettled_lp

KeptFields ==
  { "status", "cumulative_funding_rate_long", "cumulative_funding_rate_short", "pnl_pool",
    "fee_pool" }

Booked(m, p, x, y, shift) ==
  /\ Market(x) /\ Position(y)
  /\ \A f \in KeptFields : x[f] = m[f]
  /\ x.base_asset_amount_long + x.base_asset_amount_short + p.base_asset_amount
       = m.base_asset_amount_long + m.base_asset_amount_short + y.base_asset_amount
  /\ x.quote_asset_amount + p.quote_asset_amount = m.quote_asset_amount + y.quote_asset_amount
  /\ x.quote_entry_amount_long + x.quote_entry_amount_short + p.quote_entry_amount
       = m.quote_entry_amount_long + m.quote_entry_amount_short + y.quote_entry_amount
  /\ x.quote_break_even_amount_long + x.quote_break_even_amount_short + p.quote_break_even_amount
       = m.quote_break_even_amount_long + m.quote_break_even_amount_short
           + y.quote_break_even_amount
  /\ x.user_lp_shares + p.lp_shares = m.user_lp_shares + y.lp_shares
  /\ x.number_of_users_with_base + HoldsBase(p) >= m.number_of_users_with_base + HoldsBase(y)
  /\ NetBase(x) = NetBase(m) + shift

(* The position pays or owes the same funding as before.                   *)
SameFunding(p, y) ==
  /\ y.base_asset_amount = p.base_asset_amount
  /\ y.last_cumulative_funding_rate = p.last_cumulative_funding_rate

LEMMA TotalNumbers ==
  ASSUME NEW m, Market(m)
  PROVE  /\ m.base_asset_amount_long \in Int /\ m.base_asset_amount_short \in Int
         /\ m.quote_asset_amount \in Int
         /\ m.quote_entry_amount_long \in Int /\ m.quote_entry_amount_short \in Int
         /\ m.quote_break_even_amount_long \in Int /\ m.quote_break_even_amount_short \in Int
         /\ m.user_lp_shares \in Int /\ m.number_of_users \in Int
         /\ m.number_of_users_with_base \in Int
         /\ m.base_asset_amount_with_amm \in Int /\ m.base_asset_amount_with_unsettled_lp \in Int
         /\ m.quote_asset_amount_with_unsettled_lp \in Int /\ m.net_unsettled_funding_pnl \in Int
         /\ NetBase(m) \in Int
<1>1. \A f \in IntegerFields : m[f] \in Int
  BY DEF Market, Typed
<1> QED
  BY <1>1 DEF IntegerFields, LedgerFields, OtherFields, NetBase

LEMMA Chain ==
  ASSUME NEW mm \in Int, NEW pp \in Int, NEW xx \in Int, NEW yy \in Int, NEW vv \in Int,
         NEW ww \in Int
  PROVE  xx + pp = mm + yy /\ vv + yy = xx + ww => vv + pp = mm + ww
OBVIOUS

LEMMA BookedTwice ==
  ASSUME NEW m, NEW p, Market(m), Position(p), NEW x, NEW y, NEW a \in Int, Booked(m, p, x, y, a),
         NEW v, NEW w, NEW b \in Int, Booked(x, y, v, w, b)
  PROVE  Booked(m, p, v, w, a + b)
<1>1. Market(x) /\ Position(y) /\ Market(v) /\ Position(w)
  BY DEF Booked
<1>2. \A f \in KeptFields : v[f] = m[f]
  BY DEF Booked
<1> DEFINE T(n) ==
        /\ n.base_asset_amount_long \in Int /\ n.base_asset_amount_short \in Int
        /\ n.quote_asset_amount \in Int
        /\ n.quote_entry_amount_long \in Int /\ n.quote_entry_amount_short \in Int
        /\ n.quote_break_even_amount_long \in Int /\ n.quote_break_even_amount_short \in Int
        /\ n.user_lp_shares \in Int /\ n.number_of_users_with_base \in Int
        /\ NetBase(n) \in Int
           Q(r) ==
        /\ r.base_asset_amount \in Int /\ r.quote_asset_amount \in Int
        /\ r.quote_entry_amount \in Int /\ r.quote_break_even_amount \in Int
        /\ r.lp_shares \in Int /\ HoldsBase(r) \in Int
<1>3. T(m) /\ T(x) /\ T(v)
  BY <1>1, TotalNumbers
<1>4. Q(p) /\ Q(y) /\ Q(w)
  BY <1>1, PositionNumbers DEF HoldsBase
<1>5. v.base_asset_amount_long + v.base_asset_amount_short + p.base_asset_amount
        = m.base_asset_amount_long + m.base_asset_amount_short + w.base_asset_amount
  <2>1. x.base_asset_amount_long + x.base_asset_amount_short + p.base_asset_amount
          = m.base_asset_amount_long + m.base_asset_amount_short + y.base_asset_amount
    BY DEF Booked
  <2>2. v.base_asset_amount_long + v.base_asset_amount_short + y.base_asset_amount
          = x.base_asset_amount_long + x.base_asset_amount_short + w.base_asset_amount
    BY DEF Booked
  <2>3. /\ m.base_asset_amount_long + m.base_asset_amount_short \in Int
        /\ x.base_asset_amount_long + x.base_asset_amount_short \in Int
        /\ v.base_asset_amount_long + v.base_asset_amount_short \in Int
        /\ p.base_asset_amount \in Int /\ y.base_asset_amount \in Int
        /\ w.base_asset_amount \in Int
    BY <1>3, <1>4
  <2> QED
    BY <2>1, <2>2, <2>3, Chain
<1>6. v.quote_asset_amount + p.quote_asset_amount = m.quote_asset_amount + w.quote_asset_amount
  <2>1. x.quote_asset_amount + p.quote_asset_amount = m.quote_asset_amount + y.quote_asset_amount
    BY DEF Booked
  <2>2. v.quote_asset_amount + y.quote_asset_amount = x.quote_asset_amount + w.quote_asset_amount
    BY DEF Booked
  <2> QED
    BY <1>3, <1>4, <2>1, <2>2
<1>7. v.quote_entry_amount_long + v.quote_entry_amount_short + p.quote_entry_amount
        = m.quote_entry_amount_long + m.quote_entry_amount_short + w.quote_entry_amount
  <2>1. x.quote_entry_amount_long + x.quote_entry_amount_short + p.quote_entry_amount
          = m.quote_entry_amount_long + m.quote_entry_amount_short + y.quote_entry_amount
    BY DEF Booked
  <2>2. v.quote_entry_amount_long + v.quote_entry_amount_short + y.quote_entry_amount
          = x.quote_entry_amount_long + x.quote_entry_amount_short + w.quote_entry_amount
    BY DEF Booked
  <2>3. /\ m.quote_entry_amount_long + m.quote_entry_amount_short \in Int
        /\ x.quote_entry_amount_long + x.quote_entry_amount_short \in Int
        /\ v.quote_entry_amount_long + v.quote_entry_amount_short \in Int
        /\ p.quote_entry_amount \in Int /\ y.quote_entry_amount \in Int
        /\ w.quote_entry_amount \in Int
    BY <1>3, <1>4
  <2> QED
    BY <2>1, <2>2, <2>3, Chain
<1>8. v.quote_break_even_amount_long + v.quote_break_even_amount_short + p.quote_break_even_amount
        = m.quote_break_even_amount_long + m.quote_break_even_amount_short
            + w.quote_break_even_amount
  <2>1. x.quote_break_even_amount_long + x.quote_break_even_amount_short + p.quote_break_even_amount
          = m.quote_break_even_amount_long + m.quote_break_even_amount_short
              + y.quote_break_even_amount
    BY DEF Booked
  <2>2. v.quote_break_even_amount_long + v.quote_break_even_amount_short + y.quote_break_even_amount
          = x.quote_break_even_amount_long + x.quote_break_even_amount_short
              + w.quote_break_even_amount
    BY DEF Booked
  <2>3. /\ m.quote_break_even_amount_long + m.quote_break_even_amount_short \in Int
        /\ x.quote_break_even_amount_long + x.quote_break_even_amount_short \in Int
        /\ v.quote_break_even_amount_long + v.quote_break_even_amount_short \in Int
        /\ p.quote_break_even_amount \in Int /\ y.quote_break_even_amount \in Int
        /\ w.quote_break_even_amount \in Int
    BY <1>3, <1>4
  <2> QED
    BY <2>1, <2>2, <2>3, Chain
<1>9. v.user_lp_shares + p.lp_shares = m.user_lp_shares + w.lp_shares
  <2>1. x.user_lp_shares + p.lp_shares = m.user_lp_shares + y.lp_shares
    BY DEF Booked
  <2>2. v.user_lp_shares + y.lp_shares = x.user_lp_shares + w.lp_shares
    BY DEF Booked
  <2>3. /\ m.user_lp_shares \in Int /\ x.user_lp_shares \in Int /\ v.user_lp_shares \in Int
        /\ p.lp_shares \in Int /\ y.lp_shares \in Int /\ w.lp_shares \in Int
    BY <1>3, <1>4
  <2> QED
    BY <2>1, <2>2, <2>3, Chain
<1>10. v.number_of_users_with_base + HoldsBase(p) >= m.number_of_users_with_base + HoldsBase(w)
  <2>1. x.number_of_users_with_base + HoldsBase(p) >= m.number_of_users_with_base + HoldsBase(y)
    BY DEF Booked
  <2>2. v.number_of_users_with_base + HoldsBase(y) >= x.number_of_users_with_base + HoldsBase(w)
    BY DEF Booked
  <2>3. /\ m.number_of_users_with_base \in Int /\ x.number_of_users_with_base \in Int
        /\ v.number_of_users_with_base \in Int
        /\ HoldsBase(p) \in Int /\ HoldsBase(y) \in Int /\ HoldsBase(w) \in Int
    BY <1>3, <1>4
  <2> QED
    BY <2>1, <2>2, <2>3
<1>11. NetBase(v) = NetBase(m) + (a + b)
  <2>1. NetBase(x) = NetBase(m) + a
    BY DEF Booked
  <2>2. NetBase(v) = NetBase(x) + b
    BY DEF Booked
  <2> QED
    BY <1>3, <1>4, <2>1, <2>2
<1> QED
  BY <1>1, <1>2, <1>5, <1>6, <1>7, <1>8, <1>9, <1>10, <1>11 DEF Booked

LEMMA BookedNot ==
  ASSUME NEW m, NEW p, Market(m), Position(p)
  PROVE  Booked(m, p, m, p, 0)
<1>1. HoldsBase(p) \in Int /\ NetBase(m) \in Int /\ m.number_of_users_with_base \in Int
  BY TotalNumbers DEF HoldsBase
<1> QED
  BY <1>1 DEF Booked

(* A market whose totals are those of m.                                   *)
TotalFields ==
  { "base_asset_amount_long", "base_asset_amount_short", "quote_asset_amount",
    "quote_entry_amount_long", "quote_entry_amount_short",
    "quote_break_even_amount_long", "quote_break_even_amount_short",
    "user_lp_shares", "number_of_users_with_base",
    "base_asset_amount_with_amm", "base_asset_amount_with_unsettled_lp" }

LEMMA MovedBooked ==
  ASSUME NEW m, NEW p, Market(m), Position(p), NEW x, Moved(m, x)
  PROVE  Booked(m, p, x, p, 0)
<1>1. DOMAIN m = Fields
  BY MarketNumbers
<1>2. KeptFields \cup TotalFields \subseteq Fields \ CurveFields
  BY DEF KeptFields, TotalFields, Fields, IntegerFields, CurveFields, LedgerFields, OtherFields
<1>3. \A f \in KeptFields \cup TotalFields : x[f] = m[f]
  BY <1>1, <1>2 DEF Moved, Changed
<1>4. \A f \in KeptFields : x[f] = m[f]
  BY <1>3
<1>5. /\ x.base_asset_amount_long = m.base_asset_amount_long
      /\ x.base_asset_amount_short = m.base_asset_amount_short
      /\ x.quote_asset_amount = m.quote_asset_amount
      /\ x.quote_entry_amount_long = m.quote_entry_amount_long
      /\ x.quote_entry_amount_short = m.quote_entry_amount_short
      /\ x.quote_break_even_amount_long = m.quote_break_even_amount_long
      /\ x.quote_break_even_amount_short = m.quote_break_even_amount_short
      /\ x.user_lp_shares = m.user_lp_shares
      /\ x.number_of_users_with_base = m.number_of_users_with_base
      /\ x.base_asset_amount_with_amm = m.base_asset_amount_with_amm
      /\ x.base_asset_amount_with_unsettled_lp = m.base_asset_amount_with_unsettled_lp
  BY <1>3 DEF TotalFields
<1>6. HoldsBase(p) \in Int /\ NetBase(m) \in Int /\ m.number_of_users_with_base \in Int
  BY TotalNumbers DEF HoldsBase
<1>7. NetBase(x) = NetBase(m) + 0
  BY <1>5, <1>6 DEF NetBase
<1>8. Market(x)
  BY DEF Moved
<1> QED
  BY <1>4, <1>5, <1>6, <1>7, <1>8 DEF Booked

(* A market with other values in fields that are not its totals.           *)
LEMMA LedgerMarket ==
  ASSUME NEW m, Market(m), NEW x, NEW S \in SUBSET LedgerFields, Changed(m, x, S),
         \A f \in S : x[f] \in Int,
         Multiple(x.base_asset_amount_long), Multiple(x.base_asset_amount_short)
  PROVE  /\ Market(x) /\ \A f \in KeptFields : x[f] = m[f]
         /\ x.user_lp_shares = m.user_lp_shares
         /\ x.base_asset_amount_with_amm = m.base_asset_amount_with_amm
<1>1. S \subseteq IntegerFields
  BY DEF IntegerFields
<1>2. DOMAIN m = Fields
  BY MarketNumbers
<1>3. Typed(x)
  BY <1>1, ChangedTyped DEF Market
<1>4. {"base_asset_reserve", "quote_asset_reserve", "sqrt_k", "concentration_coef",
       "long_spread", "short_spread", "user_lp_shares", "total_social_loss", "per_lp_base",
       "revenue_withdraw_since_last_settle", "base_asset_amount_with_amm"}
         \subseteq Fields \ LedgerFields
  BY DEF Fields, IntegerFields, CurveFields, OtherFields, LedgerFields
<1>5. KeptFields \subseteq Fields \ LedgerFields
  BY DEF Fields, IntegerFields, OtherFields, LedgerFields, KeptFields
<1>6. \A f \in Fields \ LedgerFields : x[f] = m[f]
  BY <1>2 DEF Changed
<1>7. \A f \in KeptFields : x[f] = m[f]
  BY <1>5, <1>6
<1>8. /\ x.base_asset_reserve = m.base_asset_reserve /\ x.quote_asset_reserve = m.quote_asset_reserve
      /\ x.sqrt_k = m.sqrt_k /\ x.concentration_coef = m.concentration_coef
      /\ x.long_spread = m.long_spread /\ x.short_spread = m.short_spread
      /\ x.user_lp_shares = m.user_lp_shares /\ x.total_social_loss = m.total_social_loss
      /\ x.per_lp_base = m.per_lp_base
      /\ x.revenue_withdraw_since_last_settle = m.revenue_withdraw_since_last_settle
      /\ x.base_asset_amount_with_amm = m.base_asset_amount_with_amm
  BY <1>4, <1>6
<1>9. Market(x)
  BY <1>3, <1>8 DEF Market, Curved
<1> QED
  BY <1>7, <1>8, <1>9

(* The same in the form in which the operations below need it.             *)
LedgerKept(m, x, S) ==
  \A f \in {"base_asset_amount_long", "base_asset_amount_short", "quote_asset_amount",
            "quote_entry_amount_long", "quote_entry_amount_short",
            "quote_break_even_amount_long", "quote_break_even_amount_short",
            "base_asset_amount_with_unsettled_lp", "quote_asset_amount_with_unsettled_lp",
            "net_unsettled_funding_pnl", "number_of_users", "number_of_users_with_base"} :
    f \notin S => x[f] = m[f]

LEMMA LedgerKeeps ==
  ASSUME NEW m, Market(m), NEW x, NEW S, Changed(m, x, S)
  PROVE  LedgerKept(m, x, S)
<1>1. DOMAIN m = Fields
  BY MarketNumbers
<1>2. LedgerFields \subseteq Fields
  BY DEF Fields, IntegerFields
<1> QED
  BY <1>1, <1>2 DEF Changed, LedgerKept, LedgerFields

(* What is counted besides the sides may change freely.                    *)
LEMMA SidesKeptMarket ==
  ASSUME NEW m, Market(m), NEW x,
         NEW S \in SUBSET (LedgerFields \ {"base_asset_amount_long", "base_asset_amount_short"}),
         Changed(m, x, S), \A f \in S : x[f] \in Int
  PROVE  /\ Market(x) /\ \A f \in KeptFields : x[f] = m[f]
         /\ x.user_lp_shares = m.user_lp_shares
         /\ x.base_asset_amount_with_amm = m.base_asset_amount_with_amm
<1>1. S \in SUBSET LedgerFields
  OBVIOUS
<1>2. LedgerKept(m, x, S)
  BY LedgerKeeps
<1>3. x.base_asset_amount_long = m.base_asset_amount_long
      /\ x.base_asset_amount_short = m.base_asset_amount_short
  BY <1>2 DEF LedgerKept
<1>4. Multiple(x.base_asset_amount_long) /\ Multiple(x.base_asset_amount_short)
  BY <1>3 DEF Market
<1> QED
  BY <1>1, <1>4, LedgerMarket

LEMMA QuoteBooked ==
  ASSUME NEW m, NEW p, Market(m), Position(p), NEW delta \in Int
  PROVE  LET r == update_quote_asset_amount(m, p, delta)
         IN  Booked(m, p, r.m, r.p, 0) /\ SameFunding(p, r.p)
<1> DEFINE r == update_quote_asset_amount(m, p, delta)
<1>1. CASE delta = 0
  <2>1. r.m = m /\ r.p = p
    BY <1>1 DEF update_quote_asset_amount
  <2> QED
    BY <2>1, BookedNot DEF SameFunding
<1>2. CASE delta # 0
  <2> DEFINE y == [p EXCEPT !.quote_asset_amount = @ + delta]
             users == m.number_of_users + (IF Vacant(p) THEN 1 ELSE 0) - (IF Vacant(y) THEN 1 ELSE 0)
             quote == m.quote_asset_amount + delta
             x == [m EXCEPT !.quote_asset_amount = quote, !.number_of_users = users]
             S == {"quote_asset_amount", "number_of_users"}
             U == {"quote_asset_amount"}
  <2>1. DOMAIN m = Fields /\ m = [f \in Fields |-> m[f]]
    BY MarketNumbers
  <2>2. /\ S \subseteq LedgerFields \ {"base_asset_amount_long", "base_asset_amount_short"}
        /\ LedgerFields \subseteq Fields
    BY DEF LedgerFields, IntegerFields, Fields
  <2>3. m.quote_asset_amount \in Int /\ m.number_of_users \in Int
    BY TotalNumbers
  <2>4. DOMAIN p = PositionFields /\ p = [f \in PositionFields |-> p[f]]
        /\ p.quote_asset_amount \in Int
    BY PositionNumbers
  <2>5. U \subseteq PositionFields
    BY DEF PositionFields
  <2>6. Changed(p, y, U) /\ y.quote_asset_amount = p.quote_asset_amount + delta
    BY <2>4, <2>5 DEF Changed
  <2>7. r = [m |-> [m EXCEPT !.quote_asset_amount = @ + delta,
                             !.number_of_users = @ + (IF Vacant(p) THEN 1 ELSE 0)
                                                   - (IF Vacant(y) THEN 1 ELSE 0)], p |-> y]
    BY <1>2 DEF update_quote_asset_amount
  <2> HIDE DEF y, r
  <2>8. r.m = x /\ r.p = y
    BY <2>1, <2>2, <2>7
  <2>9. users \in Int /\ quote \in Int
    BY <2>3
  <2> HIDE DEF users, quote
  <2>10. Changed(m, x, S) /\ x.quote_asset_amount = quote /\ x.number_of_users = users
    BY <2>1, <2>2 DEF Changed
  <2> HIDE DEF x
  <2>11. \A f \in S : x[f] \in Int
    BY <2>9, <2>10
  <2>12. /\ Market(x) /\ \A f \in KeptFields : x[f] = m[f]
         /\ x.user_lp_shares = m.user_lp_shares
         /\ x.base_asset_amount_with_amm = m.base_asset_amount_with_amm
    BY <2>2, <2>10, <2>11, SidesKeptMarket
  <2>13. {"base_asset_amount", "quote_entry_amount", "quote_break_even_amount", "lp_shares",
          "remainder_base_asset_amount", "last_cumulative_funding_rate"} \subseteq PositionFields \ U
    BY DEF PositionFields
  <2>14. /\ y.base_asset_amount = p.base_asset_amount /\ y.lp_shares = p.lp_shares
         /\ y.quote_entry_amount = p.quote_entry_amount
         /\ y.quote_break_even_amount = p.quote_break_even_amount
         /\ y.remainder_base_asset_amount = p.remainder_base_asset_amount
         /\ y.last_cumulative_funding_rate = p.last_cumulative_funding_rate
    BY <2>4, <2>6, <2>13 DEF Changed
  <2>15. Position(y)
    <3>1. \A f \in U : y[f] \in Int
      BY <2>4, <2>6
    <3>2. /\ y.lp_shares >= 0 /\ Multiple(y.base_asset_amount)
          /\ y.remainder_base_asset_amount < order_step_size
          /\ y.remainder_base_asset_amount > -order_step_size
      BY <2>14 DEF Position
    <3> QED
      BY <2>5, <2>6, <3>1, <3>2, PositionChanged
  <2>16. HoldsBase(y) = HoldsBase(p)
    BY <2>14 DEF HoldsBase, NoBase
  <2>17. LedgerKept(m, x, S)
    BY <2>10, LedgerKeeps
  <2>18. /\ x.base_asset_amount_long = m.base_asset_amount_long
         /\ x.base_asset_amount_short = m.base_asset_amount_short
         /\ x.quote_entry_amount_long = m.quote_entry_amount_long
         /\ x.quote_entry_amount_short = m.quote_entry_amount_short
         /\ x.quote_break_even_amount_long = m.quote_break_even_amount_long
         /\ x.quote_break_even_amount_short = m.quote_break_even_amount_short
         /\ x.number_of_users_with_base = m.number_of_users_with_base
         /\ x.base_asset_amount_with_unsettled_lp = m.base_asset_amount_with_unsettled_lp
    BY <2>17 DEF LedgerKept
  <2>19. NetBase(x) = NetBase(m) + 0
    <3>1. NetBase(x) = NetBase(m) /\ NetBase(m) \in Int
      BY <2>12, <2>18, TotalNumbers DEF NetBase
    <3> QED
      BY <3>1
  <2>20. x.quote_asset_amount + p.quote_asset_amount = m.quote_asset_amount + y.quote_asset_amount
    BY <2>3, <2>4, <2>6, <2>10 DEF quote
  <2>21. x.number_of_users_with_base + HoldsBase(p) >= m.number_of_users_with_base + HoldsBase(y)
    <3>1. HoldsBase(p) \in Int /\ m.number_of_users_with_base \in Int
      BY TotalNumbers DEF HoldsBase
    <3> QED
      BY <2>16, <2>18, <3>1
  <2>22. Booked(m, p, x, y, 0)
    BY <2>12, <2>14, <2>15, <2>18, <2>19, <2>20, <2>21 DEF Booked
  <2> QED
    BY <2>8, <2>14, <2>22 DEF SameFunding, r
<1> QED
  BY <1>1, <1>2

(* The two sides of the open interest together move by base, entry and     *)
(* break_even, and nothing else that counts does.                          *)
SidesAdded(m, x, base, entry, break_even) ==
  /\ Market(x)
  /\ \A f \in KeptFields : x[f] = m[f]
  /\ x.user_lp_shares = m.user_lp_shares
  /\ x.base_asset_amount_with_amm = m.base_asset_amount_with_amm
  /\ x.base_asset_amount_with_unsettled_lp = m.base_asset_amount_with_unsettled_lp
  /\ x.quote_asset_amount = m.quote_asset_amount
  /\ x.number_of_users_with_base = m.number_of_users_with_base
  /\ x.base_asset_amount_long + x.base_asset_amount_short
       = m.base_asset_amount_long + m.base_asset_amount_short + base
  /\ x.quote_entry_amount_long + x.quote_entry_amount_short
       = m.quote_entry_amount_long + m.quote_entry_amount_short + entry
  /\ x.quote_break_even_amount_long + x.quote_break_even_amount_short
       = m.quote_break_even_amount_long + m.quote_break_even_amount_short + break_even

LEMMA LongAdded ==
  ASSUME NEW m, Market(m), NEW b \in Int, Multiple(b), NEW e \in Int, NEW q \in Int
  PROVE  SidesAdded(m, AddLong(m, b, e, q), b, e, q)
<1> DEFINE x == AddLong(m, b, e, q)
           nb == m.base_asset_amount_long + b
           ne == m.quote_entry_amount_long + e
           nq == m.quote_break_even_amount_long + q
           S == {"base_asset_amount_long", "quote_entry_amount_long", "quote_break_even_amount_long"}
<1>1. DOMAIN m = Fields /\ m = [f \in Fields |-> m[f]]
  BY MarketNumbers
<1>2. S \subseteq LedgerFields /\ LedgerFields \subseteq Fields
  BY DEF LedgerFields, IntegerFields, Fields
<1>3. /\ m.base_asset_amount_long \in Int /\ m.base_asset_amount_short \in Int
      /\ m.quote_entry_amount_long \in Int /\ m.quote_entry_amount_short \in Int
      /\ m.quote_break_even_amount_long \in Int /\ m.quote_break_even_amount_short \in Int
  BY TotalNumbers
<1>4. x = [m EXCEPT !.base_asset_amount_long = nb, !.quote_entry_amount_long = ne,
                    !.quote_break_even_amount_long = nq]
  BY <1>1, <1>2 DEF AddLong
<1>5. nb \in Int /\ ne \in Int /\ nq \in Int
  BY <1>3
<1> HIDE DEF nb, ne, nq, x
<1>6. /\ Changed(m, x, S) /\ x.base_asset_amount_long = nb /\ x.quote_entry_amount_long = ne
      /\ x.quote_break_even_amount_long = nq
  BY <1>1, <1>2, <1>4 DEF Changed
<1>7. \A f \in S : x[f] \in Int
  BY <1>5, <1>6
<1>9. LedgerKept(m, x, S)
  BY <1>6, LedgerKeeps
<1>10. /\ x.base_asset_amount_short = m.base_asset_amount_short
       /\ x.quote_entry_amount_short = m.quote_entry_amount_short
       /\ x.quote_break_even_amount_short = m.quote_break_even_amount_short
       /\ x.number_of_users_with_base = m.number_of_users_with_base
       /\ x.quote_asset_amount = m.quote_asset_amount
       /\ x.base_asset_amount_with_unsettled_lp = m.base_asset_amount_with_unsettled_lp
  BY <1>9 DEF LedgerKept
<1>8. /\ Market(x) /\ \A f \in KeptFields : x[f] = m[f]
      /\ x.user_lp_shares = m.user_lp_shares
      /\ x.base_asset_amount_with_amm = m.base_asset_amount_with_amm
  <2>1. Multiple(m.base_asset_amount_long + b) /\ Multiple(m.base_asset_amount_short)
    BY MultipleAdd DEF Market
  <2>2. Multiple(x.base_asset_amount_long) /\ Multiple(x.base_asset_amount_short)
    BY <1>6, <1>10, <2>1 DEF nb
  <2> QED
    BY <1>2, <1>6, <1>7, <2>2, LedgerMarket
<1>11. /\ x.base_asset_amount_long + x.base_asset_amount_short
            = m.base_asset_amount_long + m.base_asset_amount_short + b
       /\ x.quote_entry_amount_long + x.quote_entry_amount_short
            = m.quote_entry_amount_long + m.quote_entry_amount_short + e
       /\ x.quote_break_even_amount_long + x.quote_break_even_amount_short
            = m.quote_break_even_amount_long + m.quote_break_even_amount_short + q
  BY <1>3, <1>6, <1>10 DEF nb, ne, nq
<1> QED
  BY <1>8, <1>10, <1>11 DEF SidesAdded, x

LEMMA ShortAdded ==
  ASSUME NEW m, Market(m), NEW b \in Int, Multiple(b), NEW e \in Int, NEW q \in Int
  PROVE  SidesAdded(m, AddShort(m, b, e, q), b, e, q)
<1> DEFINE x == AddShort(m, b, e, q)
           nb == m.base_asset_amount_short + b
           ne == m.quote_entry_amount_short + e
           nq == m.quote_break_even_amount_short + q
           S == {"base_asset_amount_short", "quote_entry_amount_short",
                 "quote_break_even_amount_short"}
<1>1. DOMAIN m = Fields /\ m = [f \in Fields |-> m[f]]
  BY MarketNumbers
<1>2. S \subseteq LedgerFields /\ LedgerFields \subseteq Fields
  BY DEF LedgerFields, IntegerFields, Fields
<1>3. /\ m.base_asset_amount_long \in Int /\ m.base_asset_amount_short \in Int
      /\ m.quote_entry_amount_long \in Int /\ m.quote_entry_amount_short \in Int
      /\ m.quote_break_even_amount_long \in Int /\ m.quote_break_even_amount_short \in Int
  BY TotalNumbers
<1>4. x = [m EXCEPT !.base_asset_amount_short = nb, !.quote_entry_amount_short = ne,
                    !.quote_break_even_amount_short = nq]
  BY <1>1, <1>2 DEF AddShort
<1>5. nb \in Int /\ ne \in Int /\ nq \in Int
  BY <1>3
<1> HIDE DEF nb, ne, nq, x
<1>6. /\ Changed(m, x, S) /\ x.base_asset_amount_short = nb /\ x.quote_entry_amount_short = ne
      /\ x.quote_break_even_amount_short = nq
  BY <1>1, <1>2, <1>4 DEF Changed
<1>7. \A f \in S : x[f] \in Int
  BY <1>5, <1>6
<1>9. LedgerKept(m, x, S)
  BY <1>6, LedgerKeeps
<1>10. /\ x.base_asset_amount_long = m.base_asset_amount_long
       /\ x.quote_entry_amount_long = m.quote_entry_amount_long
       /\ x.quote_break_even_amount_long = m.quote_break_even_amount_long
       /\ x.number_of_users_with_base = m.number_of_users_with_base
       /\ x.quote_asset_amount = m.quote_asset_amount
       /\ x.base_asset_amount_with_unsettled_lp = m.base_asset_amount_with_unsettled_lp
  BY <1>9 DEF LedgerKept
<1>8. /\ Market(x) /\ \A f \in KeptFields : x[f] = m[f]
      /\ x.user_lp_shares = m.user_lp_shares
      /\ x.base_asset_amount_with_amm = m.base_asset_amount_with_amm
  <2>1. Multiple(m.base_asset_amount_short + b) /\ Multiple(m.base_asset_amount_long)
    BY MultipleAdd DEF Market
  <2>2. Multiple(x.base_asset_amount_short) /\ Multiple(x.base_asset_amount_long)
    BY <1>6, <1>10, <2>1 DEF nb
  <2> QED
    BY <1>2, <1>6, <1>7, <2>2, LedgerMarket
<1>11. /\ x.base_asset_amount_long + x.base_asset_amount_short
            = m.base_asset_amount_long + m.base_asset_amount_short + b
       /\ x.quote_entry_amount_long + x.quote_entry_amount_short
            = m.quote_entry_amount_long + m.quote_entry_amount_short + e
       /\ x.quote_break_even_amount_long + x.quote_break_even_amount_short
            = m.quote_break_even_amount_long + m.quote_break_even_amount_short + q
  BY <1>3, <1>6, <1>10 DEF nb, ne, nq
<1> QED
  BY <1>8, <1>10, <1>11 DEF SidesAdded, x

LEMMA SidesAddedTwice ==
  ASSUME NEW m, Market(m), NEW x, NEW v, NEW b \in Int, NEW e \in Int, NEW q \in Int,
         SidesAdded(m, x, b, e, q), NEW c \in Int, NEW f \in Int, NEW r \in Int,
         SidesAdded(x, v, c, f, r)
  PROVE  SidesAdded(m, v, b + c, e + f, q + r)
<1>1. Market(x) /\ Market(v) /\ \A g \in KeptFields : v[g] = m[g]
  BY DEF SidesAdded
<1>2. /\ v.user_lp_shares = m.user_lp_shares
      /\ v.base_asset_amount_with_amm = m.base_asset_amount_with_amm
      /\ v.base_asset_amount_with_unsettled_lp = m.base_asset_amount_with_unsettled_lp
      /\ v.quote_asset_amount = m.quote_asset_amount
      /\ v.number_of_users_with_base = m.number_of_users_with_base
  BY DEF SidesAdded
<1>3. v.base_asset_amount_long + v.base_asset_amount_short
        = m.base_asset_amount_long + m.base_asset_amount_short + (b + c)
  <2>1. /\ m.base_asset_amount_long \in Int /\ m.base_asset_amount_short \in Int
        /\ x.base_asset_amount_long \in Int /\ x.base_asset_amount_short \in Int
        /\ v.base_asset_amount_long \in Int /\ v.base_asset_amount_short \in Int
    BY <1>1, TotalNumbers
  <2>2. x.base_asset_amount_long + x.base_asset_amount_short
          = m.base_asset_amount_long + m.base_asset_amount_short + b
    BY DEF SidesAdded
  <2>3. v.base_asset_amount_long + v.base_asset_amount_short
          = x.base_asset_amount_long + x.base_asset_amount_short + c
    BY DEF SidesAdded
  <2> QED
    BY <2>1, <2>2, <2>3
<1>4. v.quote_entry_amount_long + v.quote_entry_amount_short
        = m.quote_entry_amount_long + m.quote_entry_amount_short + (e + f)
  <2>1. /\ m.quote_entry_amount_long \in Int /\ m.quote_entry_amount_short \in Int
        /\ x.quote_entry_amount_long \in Int /\ x.quote_entry_amount_short \in Int
        /\ v.quote_entry_amount_long \in Int /\ v.quote_entry_amount_short \in Int
    BY <1>1, TotalNumbers
  <2>2. x.quote_entry_amount_long + x.quote_entry_amount_short
          = m.quote_entry_amount_long + m.quote_entry_amount_short + e
    BY DEF SidesAdded
  <2>3. v.quote_entry_amount_long + v.quote_entry_amount_short
          = x.quote_entry_amount_long + x.quote_entry_amount_short + f
    BY DEF SidesAdded
  <2> QED
    BY <2>1, <2>2, <2>3
<1>5. v.quote_break_even_amount_long + v.quote_break_even_amount_short
        = m.quote_break_even_amount_long + m.quote_break_even_amount_short + (q + r)
  <2>1. /\ m.quote_break_even_amount_long \in Int /\ m.quote_break_even_amount_short \in Int
        /\ x.quote_break_even_amount_long \in Int /\ x.quote_break_even_amount_short \in Int
        /\ v.quote_break_even_amount_long \in Int /\ v.quote_break_even_amount_short \in Int
    BY <1>1, TotalNumbers
  <2>2. x.quote_break_even_amount_long + x.quote_break_even_amount_short
          = m.quote_break_even_amount_long + m.quote_break_even_amount_short + q
    BY DEF SidesAdded
  <2>3. v.quote_break_even_amount_long + v.quote_break_even_amount_short
          = x.quote_break_even_amount_long + x.quote_break_even_amount_short + r
    BY DEF SidesAdded
  <2> QED
    BY <2>1, <2>2, <2>3
<1> QED
  BY <1>1, <1>2, <1>3, <1>4, <1>5 DEF SidesAdded

(* The fields that an operation leaves of a position.                      *)
LEMMA PositionKeeps ==
  ASSUME NEW p, Position(p), NEW y, NEW S, Changed(p, y, S)
  PROVE  \A f \in {"base_asset_amount", "quote_asset_amount", "quote_entry_amount",
                   "quote_break_even_amount", "remainder_base_asset_amount",
                   "last_cumulative_funding_rate", "lp_shares", "last_base_asset_amount_per_lp",
                   "last_quote_asset_amount_per_lp", "per_lp_base"} :
           f \notin S => y[f] = p[f]
BY PositionNumbers DEF Changed, PositionFields

LEMMA BreakEvenBooked ==
  ASSUME NEW m, NEW p, Market(m), Position(p), NEW delta \in Int
  PROVE  LET r == update_quote_break_even_amount(m, p, delta)
         IN  Booked(m, p, r.m, r.p, 0) /\ SameFunding(p, r.p)
<1> DEFINE r == update_quote_break_even_amount(m, p, delta)
<1>1. CASE p.base_asset_amount = 0
  <2>1. r.m = m /\ r.p = p
    BY <1>1 DEF update_quote_break_even_amount
  <2> QED
    BY <2>1, BookedNot DEF SameFunding
<1>2. CASE p.base_asset_amount # 0
  <2> DEFINE z == 0
             x == IF p.base_asset_amount > 0 THEN AddLong(m, z, z, delta)
                  ELSE AddShort(m, z, z, delta)
             even == p.quote_break_even_amount + delta
             y == [p EXCEPT !.quote_break_even_amount = even]
             U == {"quote_break_even_amount"}
  <2>1. r.m = x /\ r.p = y
    BY <1>2, PositionNumbers DEF update_quote_break_even_amount, PositionFields
  <2>2. z \in Int /\ z = 0 /\ Multiple(z)
    BY MultipleZero
  <2> HIDE DEF z
  <2>3. SidesAdded(m, x, z, z, delta)
    BY <2>2, LongAdded, ShortAdded
  <2> HIDE DEF x
  <2>4. DOMAIN p = PositionFields /\ p = [f \in PositionFields |-> p[f]]
        /\ p.quote_break_even_amount \in Int /\ U \subseteq PositionFields
    BY PositionNumbers DEF PositionFields
  <2>5. even \in Int
    BY <2>4
  <2> HIDE DEF even
  <2>6. Changed(p, y, U) /\ y.quote_break_even_amount = even
    BY <2>4 DEF Changed
  <2> HIDE DEF y
  <2>7. /\ y.base_asset_amount = p.base_asset_amount /\ y.lp_shares = p.lp_shares
        /\ y.quote_entry_amount = p.quote_entry_amount
        /\ y.quote_asset_amount = p.quote_asset_amount
        /\ y.remainder_base_asset_amount = p.remainder_base_asset_amount
        /\ y.last_cumulative_funding_rate = p.last_cumulative_funding_rate
    BY <2>6, PositionKeeps
  <2>8. Position(y)
    <3>1. \A f \in U : y[f] \in Int
      BY <2>5, <2>6
    <3>2. /\ y.lp_shares >= 0 /\ Multiple(y.base_asset_amount)
          /\ y.remainder_base_asset_amount < order_step_size
          /\ y.remainder_base_asset_amount > -order_step_size
      BY <2>7 DEF Position
    <3> QED
      BY <2>4, <2>6, <3>1, <3>2, PositionChanged
  <2>9. HoldsBase(y) = HoldsBase(p) /\ HoldsBase(p) \in Int
    BY <2>7 DEF HoldsBase, NoBase
  <2>10. Market(x)
    BY <2>3 DEF SidesAdded
  <2>11. /\ x.base_asset_amount_long + x.base_asset_amount_short + p.base_asset_amount
              = m.base_asset_amount_long + m.base_asset_amount_short + y.base_asset_amount
         /\ x.quote_asset_amount + p.quote_asset_amount = m.quote_asset_amount + y.quote_asset_amount
         /\ x.quote_entry_amount_long + x.quote_entry_amount_short + p.quote_entry_amount
              = m.quote_entry_amount_long + m.quote_entry_amount_short + y.quote_entry_amount
         /\ x.quote_break_even_amount_long + x.quote_break_even_amount_short
              + p.quote_break_even_amount
              = m.quote_break_even_amount_long + m.quote_break_even_amount_short
                  + y.quote_break_even_amount
    BY <2>2, <2>3, <2>4, <2>6, <2>7, TotalNumbers DEF SidesAdded, even
  <2>12. NetBase(x) = NetBase(m) + 0
    BY <2>2, <2>3, <2>10, TotalNumbers DEF SidesAdded, NetBase
  <2>13. /\ x.user_lp_shares + p.lp_shares = m.user_lp_shares + y.lp_shares
         /\ x.number_of_users_with_base + HoldsBase(p) >= m.number_of_users_with_base + HoldsBase(y)
    BY <2>3, <2>7, <2>9, TotalNumbers DEF SidesAdded
  <2>14. Booked(m, p, x, y, 0)
    BY <2>3, <2>8, <2>10, <2>11, <2>12, <2>13 DEF Booked, SidesAdded
  <2> QED
    BY <2>1, <2>7, <2>14 DEF SameFunding
<1> QED
  BY <1>1, <1>2

LEMMA QuoteAndBreakEvenBooked ==
  ASSUME NEW m, NEW p, Market(m), Position(p), NEW delta \in Int
  PROVE  LET r == update_quote_asset_and_break_even_amount(m, p, delta)
         IN  Booked(m, p, r.m, r.p, 0) /\ SameFunding(p, r.p)
<1> DEFINE a == update_quote_asset_amount(m, p, delta)
           r == update_quote_break_even_amount(a.m, a.p, delta)
           z == 0
<1>1. update_quote_asset_and_break_even_amount(m, p, delta) = r
  BY DEF update_quote_asset_and_break_even_amount
<1>2. Booked(m, p, a.m, a.p, 0) /\ SameFunding(p, a.p)
  BY QuoteBooked
<1> HIDE DEF a
<1>3. Market(a.m) /\ Position(a.p)
  BY <1>2 DEF Booked
<1>4. Booked(a.m, a.p, r.m, r.p, 0) /\ SameFunding(a.p, r.p)
  BY <1>3, BreakEvenBooked
<1> HIDE DEF r
<1>5. z \in Int /\ z + z = z /\ Booked(m, p, a.m, a.p, z) /\ Booked(a.m, a.p, r.m, r.p, z)
  BY <1>2, <1>4
<1> HIDE DEF z
<1>6. Booked(m, p, r.m, r.p, z + z)
  BY <1>5, BookedTwice
<1>7. Booked(m, p, r.m, r.p, 0)
  BY <1>5, <1>6 DEF z
<1> QED
  BY <1>1, <1>2, <1>4, <1>7 DEF SameFunding

LEMMA RateType ==
  ASSUME NEW m, Market(m), NEW base
  PROVE  CumulativeFundingRate(m, base) \in Int
<1>1. \A f \in IntegerFields : m[f] \in Int
  BY DEF Market, Typed
<1>2. m.cumulative_funding_rate_long \in Int /\ m.cumulative_funding_rate_short \in Int
  BY <1>1 DEF IntegerFields, OtherFields
<1> QED
  BY <1>2 DEF CumulativeFundingRate

LEMMA RateKept ==
  ASSUME NEW m, NEW x, \A f \in KeptFields : x[f] = m[f], NEW base
  PROVE  CumulativeFundingRate(x, base) = CumulativeFundingRate(m, base)
BY DEF CumulativeFundingRate, KeptFields

(* What is booked depends on the counted fields of the position only.      *)
SameCounted(p, y) ==
  /\ y.base_asset_amount = p.base_asset_amount
  /\ y.remainder_base_asset_amount = p.remainder_base_asset_amount
  /\ y.quote_asset_amount = p.quote_asset_amount
  /\ y.quote_entry_amount = p.quote_entry_amount
  /\ y.quote_break_even_amount = p.quote_break_even_amount
  /\ y.lp_shares = p.lp_shares

LEMMA BookedFrom ==
  ASSUME NEW m, NEW p, NEW x, NEW y, NEW z, NEW shift, Booked(m, z, x, y, shift), SameCounted(p, z)
  PROVE  Booked(m, p, x, y, shift)
BY DEF Booked, SameCounted, HoldsBase, NoBase

LEMMA BookedTo ==
  ASSUME NEW m, NEW p, NEW x, NEW y, NEW z, NEW shift, Booked(m, p, x, y, shift), Position(z),
         SameCounted(y, z)
  PROVE  Booked(m, p, x, z, shift)
BY DEF Booked, SameCounted, HoldsBase, NoBase

(* A position with another value in a field that is not counted.           *)
UncountedFields ==
  { "last_cumulative_funding_rate", "last_base_asset_amount_per_lp",
    "last_quote_asset_amount_per_lp", "per_lp_base" }

LEMMA Uncounted ==
  ASSUME NEW p, Position(p), NEW y, NEW S \in SUBSET UncountedFields, Changed(p, y, S),
         \A f \in S : y[f] \in Int
  PROVE  Position(y) /\ SameCounted(p, y)
<1>1. S \subseteq PositionFields
  BY DEF UncountedFields, PositionFields
<1>2. SameCounted(p, y)
  BY PositionKeeps DEF UncountedFields, SameCounted
<1>3. /\ y.lp_shares >= 0 /\ Multiple(y.base_asset_amount)
      /\ y.remainder_base_asset_amount < order_step_size
      /\ y.remainder_base_asset_amount > -order_step_size
  BY <1>2 DEF SameCounted, Position
<1> QED
  BY <1>1, <1>2, <1>3, PositionChanged

LEMMA FundingBooked ==
  ASSUME NEW m, NEW p, Market(m), Position(p)
  PROVE  LET r == settle_funding_payment(m, p)
         IN  /\ Booked(m, p, r.m, r.p, 0)
             /\ FundingUpToDate(r.m, r.p)
             /\ r.p.base_asset_amount = p.base_asset_amount
<1> DEFINE r == settle_funding_payment(m, p)
<1>1. CASE p.base_asset_amount = 0
  <2>1. r.m = m /\ r.p = p
    BY <1>1 DEF settle_funding_payment
  <2> QED
    BY <1>1, <2>1, BookedNot DEF FundingUpToDate
<1>2. CASE p.base_asset_amount # 0
  <2> DEFINE payment == calculate_funding_payment(m, p)
             rate == CumulativeFundingRate(m, p.base_asset_amount)
             q == [p EXCEPT !.last_cumulative_funding_rate = rate]
             paid == update_quote_asset_and_break_even_amount(m, q, payment)
             pnl == paid.m.net_unsettled_funding_pnl - payment
             x == [paid.m EXCEPT !.net_unsettled_funding_pnl = pnl]
             U == {"last_cumulative_funding_rate"}
             S == {"net_unsettled_funding_pnl"}
  <2>1. rate \in Int /\ p.base_asset_amount \in Int /\ p.last_cumulative_funding_rate \in Int
    BY RateType, PositionNumbers
  <2>2. payment \in Int
    <3>1. rate - p.last_cumulative_funding_rate \in Int
      BY <2>1
    <3> QED
      BY <2>1, <3>1, FundingPaymentType DEF calculate_funding_payment
  <2>3. r = [paid EXCEPT !.m.net_unsettled_funding_pnl = @ - payment]
    BY <1>2 DEF settle_funding_payment
  <2> HIDE DEF payment, rate
  <2>4. Changed(p, q, U) /\ q.last_cumulative_funding_rate = rate
    BY PositionNumbers DEF Changed, PositionFields
  <2> HIDE DEF q
  <2>5. Position(q) /\ SameCounted(p, q)
    <3>1. U \subseteq UncountedFields /\ \A f \in U : q[f] \in Int
      BY <2>1, <2>4 DEF UncountedFields
    <3> QED
      BY <2>4, <3>1, Uncounted
  <2>6. Booked(m, q, paid.m, paid.p, 0) /\ SameFunding(q, paid.p)
    BY <2>2, <2>5, QuoteAndBreakEvenBooked
  <2>7. paid = [m |-> paid.m, p |-> paid.p]
    BY DEF update_quote_asset_and_break_even_amount, update_quote_break_even_amount,
           update_quote_asset_amount
  <2> HIDE DEF paid
  <2>8. Booked(m, p, paid.m, paid.p, 0)
    BY <2>5, <2>6, BookedFrom
  <2>9. Market(paid.m) /\ Position(paid.p)
    BY <2>8 DEF Booked
  <2>10. DOMAIN paid.m = Fields /\ paid.m = [f \in Fields |-> paid.m[f]]
         /\ S \subseteq LedgerFields \ {"base_asset_amount_long", "base_asset_amount_short"}
         /\ LedgerFields \subseteq Fields
    BY <2>9, MarketNumbers DEF LedgerFields, IntegerFields, Fields
  <2>11. pnl \in Int
    BY <2>2, <2>9, TotalNumbers
  <2>12. r.m = x /\ r.p = paid.p
    BY <2>3, <2>7, <2>10
  <2> HIDE DEF pnl
  <2>13. Changed(paid.m, x, S) /\ x.net_unsettled_funding_pnl = pnl
    BY <2>10 DEF Changed
  <2> HIDE DEF x
  <2>14. Booked(paid.m, paid.p, x, paid.p, 0)
    <3>1. \A f \in S : x[f] \in Int
      BY <2>11, <2>13
    <3>2. /\ Market(x) /\ \A f \in KeptFields : x[f] = paid.m[f]
          /\ x.user_lp_shares = paid.m.user_lp_shares
          /\ x.base_asset_amount_with_amm = paid.m.base_asset_amount_with_amm
      BY <2>9, <2>10, <2>13, <3>1, SidesKeptMarket
    <3>3. LedgerKept(paid.m, x, S)
      BY <2>9, <2>13, LedgerKeeps
    <3>4. /\ x.base_asset_amount_long = paid.m.base_asset_amount_long
          /\ x.base_asset_amount_short = paid.m.base_asset_amount_short
          /\ x.quote_asset_amount = paid.m.quote_asset_amount
          /\ x.quote_entry_amount_long = paid.m.quote_entry_amount_long
          /\ x.quote_entry_amount_short = paid.m.quote_entry_amount_short
          /\ x.quote_break_even_amount_long = paid.m.quote_break_even_amount_long
          /\ x.quote_break_even_amount_short = paid.m.quote_break_even_amount_short
          /\ x.number_of_users_with_base = paid.m.number_of_users_with_base
          /\ x.base_asset_amount_with_unsettled_lp = paid.m.base_asset_amount_with_unsettled_lp
      BY <3>3 DEF LedgerKept
    <3>5. HoldsBase(paid.p) \in Int /\ NetBase(paid.m) \in Int
          /\ paid.m.number_of_users_with_base \in Int
      BY <2>9, TotalNumbers DEF HoldsBase
    <3>6. NetBase(x) = NetBase(paid.m) + 0
      BY <3>2, <3>4, <3>5 DEF NetBase
    <3> QED
      BY <2>9, <3>2, <3>4, <3>5, <3>6 DEF Booked
  <2>15. Booked(m, p, x, paid.p, 0)
    <3> DEFINE z == 0
    <3>1. z \in Int /\ z + z = 0 /\ Booked(m, p, paid.m, paid.p, z)
          /\ Booked(paid.m, paid.p, x, paid.p, z)
      BY <2>8, <2>14
    <3> HIDE DEF z
    <3>2. Booked(m, p, x, paid.p, z + z)
      BY <2>9, <3>1, BookedTwice
    <3> QED
      BY <3>1, <3>2
  <2>16. CumulativeFundingRate(x, p.base_asset_amount) = rate
    BY <2>15, RateKept DEF Booked, rate
  <2>17. paid.p.base_asset_amount = p.base_asset_amount
         /\ paid.p.last_cumulative_funding_rate = rate
    BY <2>4, <2>5, <2>6 DEF SameFunding, SameCounted
  <2>18. FundingUpToDate(x, paid.p)
    BY <2>16, <2>17 DEF FundingUpToDate
  <2> QED
    BY <2>12, <2>15, <2>17, <2>18
<1> QED
  BY <1>1, <1>2

(***************************************************************************)
(* A change of a position.                                                 *)
(***************************************************************************)

(* The deltas that fills and settlements come with: whole steps and, for   *)
(* an LP, what is left of a step on the same side.                         *)
GoodDelta(d) ==
  /\ d.base \in Int /\ d.quote \in Int /\ d.remainder \in Int /\ d.lp \in BOOLEAN
  /\ Multiple(d.base)
  /\ ~d.lp => d.remainder = 0
  /\ (d.base >= 0 /\ d.remainder >= 0) \/ (d.base <= 0 /\ d.remainder <= 0)

LEMMA TotalSide ==
  ASSUME NEW base \in Int, NEW remainder \in Int, Multiple(base),
         remainder < order_step_size, remainder > -order_step_size
  PROVE  /\ base > 0 => base + remainder > 0
         /\ base < 0 => base + remainder < 0
         /\ base + remainder = 0 => base = 0 /\ remainder = 0
<1>1. order_step_size \in Nat \ {0}
  BY StepPositive
<1>2. (base > -order_step_size => base >= 0) /\ (base < order_step_size => base <= 0)
  BY MultipleSmall
<1> QED
  BY <1>1, <1>2

LEMMA NewAmounts ==
  ASSUME NEW p, Position(p), NEW d, GoodDelta(d)
  PROVE  LET new == get_new_position_amounts(p, d)
         IN  /\ new.base \in Int /\ new.settled \in Int /\ new.quote \in Int /\ new.remainder \in Int
             /\ Multiple(new.base)
             /\ new.remainder < order_step_size /\ new.remainder > -order_step_size
             /\ new.settled = new.base - p.base_asset_amount
             /\ new.quote = p.quote_asset_amount + d.quote
             /\ new.base + new.remainder = BaseWithRemainder(p) + (d.base + d.remainder)
             /\ ~d.lp => new.settled = d.base
             /\ (/\ p.remainder_base_asset_amount + d.remainder < order_step_size
                 /\ p.remainder_base_asset_amount + d.remainder > -order_step_size)
                  => new.base = p.base_asset_amount + d.base
<1> DEFINE s == order_step_size
           b == p.base_asset_amount
           t == p.remainder_base_asset_amount
           rest == t + d.remainder
           carried == IF d.lp /\ Abs(rest) >= s THEN standardize_base_asset_amount(rest, s) ELSE 0
           new == get_new_position_amounts(p, d)
<1>1. /\ s \in Nat \ {0} /\ b \in Int /\ t \in Int /\ p.quote_asset_amount \in Int
      /\ d.base \in Int /\ d.quote \in Int /\ d.remainder \in Int
  BY StepPositive, PositionNumbers DEF GoodDelta
<1>2. /\ new.base = b + d.base + carried /\ new.settled = d.base + carried
      /\ new.quote = p.quote_asset_amount + d.quote /\ new.remainder = rest - carried
  BY DEF get_new_position_amounts
<1> HIDE DEF new
<1>3. rest \in Int /\ Abs(rest) \in Int
  BY <1>1, AbsType
<1>4. carried \in Int /\ Multiple(carried) /\ rest - carried < s /\ rest - carried > -s
  <2>1. CASE d.lp /\ Abs(rest) >= s
    <3>1. carried = standardize_base_asset_amount(rest, s)
      BY <2>1
    <3>2. /\ standardize_base_asset_amount(rest, s) \in Int
          /\ Multiple(standardize_base_asset_amount(rest, s))
          /\ StepRemainder(rest, s) \in Int
          /\ standardize_base_asset_amount(rest, s) + StepRemainder(rest, s) = rest
          /\ StepRemainder(rest, s) < s /\ StepRemainder(rest, s) > -s
      BY <1>3, Standardized
    <3> HIDE DEF carried, rest, s
    <3> QED
      BY <1>1, <1>3, <3>1, <3>2
  <2>2. CASE ~(d.lp /\ Abs(rest) >= s)
    <3>1. carried = 0
      BY <2>2
    <3>2. rest < s /\ rest > -s
      <4>1. t < s /\ t > -s
        BY DEF Position
      <4>2. CASE d.lp
        BY <1>1, <1>3, <2>2, <4>2 DEF Abs
      <4>3. CASE ~d.lp
        BY <1>1, <4>1, <4>3 DEF GoodDelta
      <4> QED
        BY <4>2, <4>3
    <3> HIDE DEF carried, rest, s
    <3> QED
      BY <1>1, <1>3, <3>1, <3>2, MultipleZero
  <2> QED
    BY <2>1, <2>2
<1>5. /\ ~d.lp => carried = 0
      /\ rest < s /\ rest > -s => carried = 0
  BY <1>1, <1>3 DEF Abs
<1>6. Multiple(b) /\ Multiple(d.base)
  BY DEF Position, GoodDelta
<1>7. Multiple(b + d.base + carried)
  <2>1. Multiple(b + d.base)
    BY <1>6, MultipleAdd
  <2> HIDE DEF carried
  <2> QED
    BY <1>4, <2>1, MultipleAdd
<1>8. BaseWithRemainder(p) = b + t
  BY DEF BaseWithRemainder
<1>9. rest = t + d.remainder
  OBVIOUS
<1> HIDE DEF carried, rest, b, t, s
<1>10. /\ new.base \in Int /\ new.settled \in Int /\ new.quote \in Int /\ new.remainder \in Int
       /\ new.remainder < s /\ new.remainder > -s /\ new.settled = new.base - b
       /\ new.base + new.remainder = (b + t) + (d.base + d.remainder)
       /\ (~d.lp => new.settled = d.base)
       /\ (rest < s /\ rest > -s => new.base = b + d.base)
  <2>1. /\ new.base \in Int /\ new.settled \in Int /\ new.quote \in Int /\ new.remainder \in Int
        /\ new.remainder < s /\ new.remainder > -s
    BY <1>1, <1>2, <1>3, <1>4
  <2>2. new.settled = new.base - b
    BY <1>1, <1>2, <1>4
  <2>3. new.base + new.remainder = (b + t) + (d.base + d.remainder)
    BY <1>1, <1>2, <1>3, <1>4, <1>9
  <2>4. carried = 0 => new.settled = d.base /\ new.base = b + d.base
    BY <1>1, <1>2
  <2> QED
    BY <1>5, <2>1, <2>2, <2>3, <2>4
<1>11. Multiple(new.base)
  BY <1>2, <1>7
<1> QED
  BY <1>2, <1>8, <1>10, <1>11 DEF b, t, s, rest, new

UpdateTypes == {"Open", "Increase", "Reduce", "Close", "Flip"}

(* What the kind of a change says of its size.                             *)
LEMMA UpdateTypeMeans ==
  ASSUME NEW p, Position(p), NEW d, GoodDelta(d), ~(d.base = 0 /\ d.remainder = 0)
  PROVE  LET type == get_position_update_type(p, d)
             position == BaseWithRemainder(p)
             change == d.base + d.remainder
         IN  /\ type \in UpdateTypes
             /\ position \in Int /\ change \in Int /\ change # 0
             /\ type = "Open" <=> NoBase(p)
             /\ type = "Reduce" => /\ position > 0 => change <= 0 /\ position + change > 0
                                   /\ position < 0 => change >= 0 /\ position + change < 0
                                   /\ position # 0
             /\ type = "Close" => position # 0 /\ position + change = 0
<1> DEFINE position == BaseWithRemainder(p)
           change == d.base + d.remainder
           type == get_position_update_type(p, d)
<1>1. position \in Int
  BY PositionNumbers DEF BaseWithRemainder
<1>2. change \in Int /\ change # 0
  BY DEF GoodDelta
<1>3. type = IF NoBase(p) THEN "Open"
             ELSE IF Sign(position) = Sign(change) THEN "Increase"
             ELSE IF Abs(position) > Abs(change) THEN "Reduce"
             ELSE IF Abs(position) = Abs(change) THEN "Close"
             ELSE "Flip"
  BY DEF get_position_update_type
<1> HIDE DEF position, change, type
<1>4. type \in UpdateTypes /\ (type = "Open" <=> NoBase(p))
  BY <1>3 DEF UpdateTypes
<1>5. type \in {"Reduce", "Close"} => Sign(position) # Sign(change)
  BY <1>3
<1>6. type = "Reduce" => Abs(position) > Abs(change)
  BY <1>3
<1>7. type = "Close" => Abs(position) = Abs(change)
  BY <1>3
<1>8. type = "Reduce" => /\ position > 0 => change <= 0 /\ position + change > 0
                         /\ position < 0 => change >= 0 /\ position + change < 0
                         /\ position # 0
  BY <1>1, <1>2, <1>5, <1>6 DEF Abs, Sign
<1>9. type = "Close" => position # 0 /\ position + change = 0
  BY <1>1, <1>2, <1>5, <1>7 DEF Abs, Sign
<1> QED
  BY <1>1, <1>2, <1>4, <1>8, <1>9 DEF position, change, type

LEMMA EntryType ==
  ASSUME NEW p, Position(p), NEW d, GoodDelta(d), ~(d.base = 0 /\ d.remainder = 0),
         NEW amount \in Int
  PROVE  NewEntryAmount(amount, p, d, get_position_update_type(p, d)) \in Int
<1> DEFINE type == get_position_update_type(p, d)
           a == Abs(BaseWithRemainder(p))
           c == Abs(d.base + d.remainder)
<1>1. /\ type \in UpdateTypes
      /\ BaseWithRemainder(p) \in Int /\ d.base + d.remainder \in Int /\ d.base + d.remainder # 0
      /\ type \in {"Reduce", "Close"} => BaseWithRemainder(p) # 0
  BY UpdateTypeMeans
<1>2. a \in Int /\ c \in Int /\ c # 0 /\ (type \in {"Reduce", "Close"} => a # 0)
  BY <1>1, AbsType
<1>3. d.quote \in Int
  BY DEF GoodDelta
<1>4. NewEntryAmount(amount, p, d, type)
        = CASE type \in {"Open", "Increase"} -> amount + d.quote
            [] type \in {"Reduce", "Close"} -> amount - Quot(amount * c, a)
            [] type = "Flip" -> d.quote - Quot(d.quote * a, c)
  BY DEF NewEntryAmount, PartKept
<1> HIDE DEF type, a, c
<1> DEFINE x == amount * c
           y == d.quote * a
<1>5. x \in Int /\ y \in Int
  BY <1>2, <1>3
<1>6. NewEntryAmount(amount, p, d, type)
        = CASE type \in {"Open", "Increase"} -> amount + d.quote
            [] type \in {"Reduce", "Close"} -> amount - Quot(x, a)
            [] type = "Flip" -> d.quote - Quot(y, c)
  BY <1>4
<1> HIDE DEF x, y
<1>7. CASE type \in {"Open", "Increase"}
  BY <1>3, <1>6, <1>7 DEF type
<1>8. CASE type \in {"Reduce", "Close"}
  <2>1. Quot(x, a) \in Int
    BY <1>2, <1>5, <1>8, QuotTypes
  <2>2. NewEntryAmount(amount, p, d, type) = amount - Quot(x, a)
    BY <1>6, <1>8
  <2> QED
    BY <2>1, <2>2 DEF type
<1>9. CASE type = "Flip"
  <2>1. Quot(y, c) \in Int
    BY <1>2, <1>5, QuotTypes
  <2>2. NewEntryAmount(amount, p, d, type) = d.quote - Quot(y, c)
    BY <1>6, <1>9
  <2> QED
    BY <1>3, <2>1, <2>2 DEF type
<1> QED
  BY <1>1, <1>7, <1>8, <1>9 DEF UpdateTypes

(* x is m with its unsettled base, its quote and its count of users moved  *)
(* by unsettled, quote and users.                                          *)
Counted(m, x, unsettled, quote, users) ==
  /\ Market(x)
  /\ \A f \in KeptFields : x[f] = m[f]
  /\ x.user_lp_shares = m.user_lp_shares
  /\ x.base_asset_amount_with_amm = m.base_asset_amount_with_amm
  /\ x.base_asset_amount_long = m.base_asset_amount_long
  /\ x.base_asset_amount_short = m.base_asset_amount_short
  /\ x.quote_entry_amount_long = m.quote_entry_amount_long
  /\ x.quote_entry_amount_short = m.quote_entry_amount_short
  /\ x.quote_break_even_amount_long = m.quote_break_even_amount_long
  /\ x.quote_break_even_amount_short = m.quote_break_even_amount_short
  /\ x.base_asset_amount_with_unsettled_lp = m.base_asset_amount_with_unsettled_lp + unsettled
  /\ x.quote_asset_amount = m.quote_asset_amount + quote
  /\ x.number_of_users_with_base = m.number_of_users_with_base + users

(* From the fields that are changed to what is counted.                    *)
LEMMA CountedFrom ==
  ASSUME NEW m, Market(m), NEW x, NEW S, Changed(m, x, S),
         S \subseteq {"base_asset_amount_with_unsettled_lp", "quote_asset_amount_with_unsettled_lp",
                      "quote_asset_amount", "number_of_users", "number_of_users_with_base"},
         \A f \in S : x[f] \in Int,
         NEW unsettled, NEW quote, NEW users,
         x.base_asset_amount_with_unsettled_lp = m.base_asset_amount_with_unsettled_lp + unsettled,
         x.quote_asset_amount = m.quote_asset_amount + quote,
         x.number_of_users_with_base = m.number_of_users_with_base + users
  PROVE  Counted(m, x, unsettled, quote, users)
<1>1. S \subseteq LedgerFields \ {"base_asset_amount_long", "base_asset_amount_short"}
  BY DEF LedgerFields
<1>2. /\ Market(x) /\ \A f \in KeptFields : x[f] = m[f]
      /\ x.user_lp_shares = m.user_lp_shares
      /\ x.base_asset_amount_with_amm = m.base_asset_amount_with_amm
  BY <1>1, SidesKeptMarket
<1>3. LedgerKept(m, x, S)
  BY LedgerKeeps
<1>4. /\ x.base_asset_amount_long = m.base_asset_amount_long
      /\ x.base_asset_amount_short = m.base_asset_amount_short
      /\ x.quote_entry_amount_long = m.quote_entry_amount_long
      /\ x.quote_entry_amount_short = m.quote_entry_amount_short
      /\ x.quote_break_even_amount_long = m.quote_break_even_amount_long
      /\ x.quote_break_even_amount_short = m.quote_break_even_amount_short
  BY <1>3 DEF LedgerKept
<1> QED
  BY <1>2, <1>4 DEF Counted

LEMMA CounterpartyCounted ==
  ASSUME NEW m, Market(m), NEW d, GoodDelta(d), NEW settled \in Int
  PROVE  Counted(m, update_market_with_counterparty(m, d, settled),
                 IF d.lp THEN settled ELSE 0, 0, 0)
<1> DEFINE base == m.base_asset_amount_with_unsettled_lp + settled
           quote == m.quote_asset_amount_with_unsettled_lp + d.quote
           x == [m EXCEPT !.base_asset_amount_with_unsettled_lp = base,
                          !.quote_asset_amount_with_unsettled_lp = quote]
           S == {"base_asset_amount_with_unsettled_lp", "quote_asset_amount_with_unsettled_lp"}
<1>1. DOMAIN m = Fields /\ m = [f \in Fields |-> m[f]]
  BY MarketNumbers
<1>2. /\ m.base_asset_amount_with_unsettled_lp \in Int /\ m.quote_asset_amount \in Int
      /\ m.quote_asset_amount_with_unsettled_lp \in Int /\ m.number_of_users_with_base \in Int
      /\ d.quote \in Int
  BY TotalNumbers DEF GoodDelta
<1>3. S \subseteq Fields
  BY DEF Fields, IntegerFields, LedgerFields
<1>4. CASE ~d.lp
  <2>1. update_market_with_counterparty(m, d, settled) = m
    BY <1>4 DEF update_market_with_counterparty
  <2>2. Changed(m, m, {})
    BY <1>1 DEF Changed
  <2> QED
    BY <1>2, <1>4, <2>1, <2>2, CountedFrom
<1>5. CASE d.lp
  <2>1. update_market_with_counterparty(m, d, settled) = x
    BY <1>1, <1>3, <1>5 DEF update_market_with_counterparty
  <2>2. base \in Int /\ quote \in Int
    BY <1>2
  <2> HIDE DEF base, quote
  <2>3. /\ Changed(m, x, S) /\ x.base_asset_amount_with_unsettled_lp = base
        /\ x.quote_asset_amount_with_unsettled_lp = quote
    BY <1>1, <1>3 DEF Changed
  <2> HIDE DEF x
  <2>4. LedgerKept(m, x, S)
    BY <2>3, LedgerKeeps
  <2>5. /\ x.quote_asset_amount = m.quote_asset_amount + 0
        /\ x.number_of_users_with_base = m.number_of_users_with_base + 0
    BY <1>2, <2>4 DEF LedgerKept
  <2>6. \A f \in S : x[f] \in Int
    BY <2>2, <2>3
  <2>7. Counted(m, x, settled, 0, 0)
    BY <2>3, <2>5, <2>6, CountedFrom DEF base
  <2> QED
    BY <1>5, <2>1, <2>7
<1> QED
  BY <1>4, <1>5

LEMMA UsersCounted ==
  ASSUME NEW m, Market(m), NEW p, NEW new, NEW type
  PROVE  Counted(m, CountUsers(m, p, new, type), 0, 0,
                 IF type = "Open" THEN 1 ELSE IF type = "Close" THEN -1 ELSE 0)
<1> DEFINE n == IF type = "Open" THEN 1 ELSE -1
           k == IF type = "Open" THEN IF p.quote_asset_amount = 0 /\ p.base_asset_amount = 0
                                        THEN 1 ELSE 0
                ELSE -(IF new.base = 0 /\ new.quote = 0 THEN 1 ELSE 0)
           users == m.number_of_users + k
           holders == m.number_of_users_with_base + n
           x == [m EXCEPT !.number_of_users = users, !.number_of_users_with_base = holders]
           S == {"number_of_users", "number_of_users_with_base"}
<1>1. DOMAIN m = Fields /\ m = [f \in Fields |-> m[f]]
  BY MarketNumbers
<1>2. /\ m.base_asset_amount_with_unsettled_lp \in Int /\ m.quote_asset_amount \in Int
      /\ m.number_of_users \in Int /\ m.number_of_users_with_base \in Int
  BY TotalNumbers
<1>3. S \subseteq Fields
  BY DEF Fields, IntegerFields, LedgerFields
<1>4. CASE type \notin {"Open", "Close"}
  <2>1. CountUsers(m, p, new, type) = m
    BY <1>4 DEF CountUsers
  <2>2. Changed(m, m, {})
    BY <1>1 DEF Changed
  <2> QED
    BY <1>2, <1>4, <2>1, <2>2, CountedFrom
<1>5. CASE type \in {"Open", "Close"}
  <2>1. CountUsers(m, p, new, type) = x
    <3>1. CASE type = "Open"
      BY <1>1, <1>2, <1>3, <3>1 DEF CountUsers
    <3>2. CASE type = "Close"
      BY <1>1, <1>2, <1>3, <3>2 DEF CountUsers
    <3> QED
      BY <1>5, <3>1, <3>2
  <2>2. users \in Int /\ holders \in Int
    BY <1>2
  <2> HIDE DEF users, holders
  <2>3. Changed(m, x, S) /\ x.number_of_users = users /\ x.number_of_users_with_base = holders
    BY <1>1, <1>3 DEF Changed
  <2> HIDE DEF x
  <2>4. LedgerKept(m, x, S)
    BY <2>3, LedgerKeeps
  <2>5. /\ x.quote_asset_amount = m.quote_asset_amount + 0
        /\ x.base_asset_amount_with_unsettled_lp = m.base_asset_amount_with_unsettled_lp + 0
    BY <1>2, <2>4 DEF LedgerKept
  <2>6. \A f \in S : x[f] \in Int
    BY <2>2, <2>3
  <2>7. Counted(m, x, 0, 0, n)
    BY <2>3, <2>5, <2>6, CountedFrom DEF holders
  <2> QED
    BY <1>5, <2>1, <2>7
<1> QED
  BY <1>4, <1>5

LEMMA QuoteCounted ==
  ASSUME NEW m, Market(m), NEW quote \in Int
  PROVE  Counted(m, [m EXCEPT !.quote_asset_amount = @ + quote], 0, quote, 0)
<1> DEFINE v == m.quote_asset_amount + quote
           x == [m EXCEPT !.quote_asset_amount = v]
           S == {"quote_asset_amount"}
<1>1. DOMAIN m = Fields /\ m = [f \in Fields |-> m[f]]
  BY MarketNumbers
<1>2. /\ m.base_asset_amount_with_unsettled_lp \in Int /\ m.quote_asset_amount \in Int
      /\ m.number_of_users_with_base \in Int
  BY TotalNumbers
<1>3. S \subseteq Fields
  BY DEF Fields, IntegerFields, LedgerFields
<1>4. [m EXCEPT !.quote_asset_amount = @ + quote] = x
  BY <1>1, <1>3
<1>5. v \in Int
  BY <1>2
<1> HIDE DEF v
<1>6. Changed(m, x, S) /\ x.quote_asset_amount = v
  BY <1>1, <1>3 DEF Changed
<1> HIDE DEF x
<1>7. LedgerKept(m, x, S)
  BY <1>6, LedgerKeeps
<1>8. /\ x.base_asset_amount_with_unsettled_lp = m.base_asset_amount_with_unsettled_lp + 0
      /\ x.number_of_users_with_base = m.number_of_users_with_base + 0
  BY <1>2, <1>7 DEF LedgerKept
<1>9. \A f \in S : x[f] \in Int
  BY <1>5, <1>6
<1>10. Counted(m, x, 0, quote, 0)
  BY <1>6, <1>8, <1>9, CountedFrom DEF v
<1> QED
  BY <1>4, <1>10

LEMMA CountedThrice ==
  ASSUME NEW m, Market(m), NEW x, NEW y, NEW z, NEW unsettled \in Int, NEW quote \in Int,
         NEW users \in Int, Counted(m, x, unsettled, 0, 0), Counted(x, y, 0, 0, users),
         Counted(y, z, 0, quote, 0)
  PROVE  Counted(m, z, unsettled, quote, users)
<1>1. Market(x) /\ Market(y) /\ Market(z)
  BY DEF Counted
<1>2. /\ m.base_asset_amount_with_unsettled_lp \in Int /\ m.quote_asset_amount \in Int
      /\ m.number_of_users_with_base \in Int
  BY TotalNumbers
<1>3. /\ x.base_asset_amount_with_unsettled_lp \in Int /\ x.quote_asset_amount \in Int
      /\ x.number_of_users_with_base \in Int
  BY <1>1, TotalNumbers
<1>4. /\ y.base_asset_amount_with_unsettled_lp \in Int /\ y.quote_asset_amount \in Int
      /\ y.number_of_users_with_base \in Int
  BY <1>1, TotalNumbers
<1>5. z.base_asset_amount_with_unsettled_lp = m.base_asset_amount_with_unsettled_lp + unsettled
  <2>1. /\ x.base_asset_amount_with_unsettled_lp = m.base_asset_amount_with_unsettled_lp + unsettled
        /\ y.base_asset_amount_with_unsettled_lp = x.base_asset_amount_with_unsettled_lp + 0
        /\ z.base_asset_amount_with_unsettled_lp = y.base_asset_amount_with_unsettled_lp + 0
    BY DEF Counted
  <2> QED
    BY <1>2, <1>3, <1>4, <2>1
<1>6. z.quote_asset_amount = m.quote_asset_amount + quote
  <2>1. /\ x.quote_asset_amount = m.quote_asset_amount + 0
        /\ y.quote_asset_amount = x.quote_asset_amount + 0
        /\ z.quote_asset_amount = y.quote_asset_amount + quote
    BY DEF Counted
  <2> QED
    BY <1>2, <1>3, <1>4, <2>1
<1>7. z.number_of_users_with_base = m.number_of_users_with_base + users
  <2>1. /\ x.number_of_users_with_base = m.number_of_users_with_base + 0
        /\ y.number_of_users_with_base = x.number_of_users_with_base + users
        /\ z.number_of_users_with_base = y.number_of_users_with_base + 0
    BY DEF Counted
  <2> QED
    BY <1>2, <1>3, <1>4, <2>1
<1>8. /\ \A f \in KeptFields : z[f] = m[f]
      /\ z.user_lp_shares = m.user_lp_shares
      /\ z.base_asset_amount_with_amm = m.base_asset_amount_with_amm
      /\ z.base_asset_amount_long = m.base_asset_amount_long
      /\ z.base_asset_amount_short = m.base_asset_amount_short
      /\ z.quote_entry_amount_long = m.quote_entry_amount_long
      /\ z.quote_entry_amount_short = m.quote_entry_amount_short
      /\ z.quote_break_even_amount_long = m.quote_break_even_amount_long
      /\ z.quote_break_even_amount_short = m.quote_break_even_amount_short
  BY DEF Counted
<1> QED
  BY <1>1, <1>5, <1>6, <1>7, <1>8 DEF Counted

(* Both sides together move by what the position does, whichever sides it  *)
(* leaves and joins.                                                       *)
LEMMA InterestAdded ==
  ASSUME NEW m, Market(m), NEW p, Position(p), NEW new, new.base \in Int, new.settled \in Int,
         Multiple(new.base), new.settled = new.base - p.base_asset_amount,
         NEW entry \in Int, NEW even \in Int, NEW type
  PROVE  SidesAdded(m, UpdateOpenInterest(m, p, new, entry, even, type), new.settled,
                    entry - p.quote_entry_amount, even - p.quote_break_even_amount)
<1> DEFINE de == entry - p.quote_entry_amount
           dq == even - p.quote_break_even_amount
           long == IF type \in {"Reduce", "Close"} THEN p.base_asset_amount > 0 ELSE new.base > 0
           ob == -p.base_asset_amount
           oe == -p.quote_entry_amount
           oq == -p.quote_break_even_amount
           b == p.base_asset_amount
           x == UpdateOpenInterest(m, p, new, entry, even, type)
<1>1. /\ b \in Int /\ p.quote_entry_amount \in Int /\ p.quote_break_even_amount \in Int
  BY PositionNumbers
<1>2. de \in Int /\ dq \in Int /\ ob \in Int /\ oe \in Int /\ oq \in Int
  BY <1>1
<1>3. x = IF type # "Flip"
            THEN IF long THEN AddLong(m, new.settled, de, dq) ELSE AddShort(m, new.settled, de, dq)
            ELSE IF long THEN AddLong(AddShort(m, ob, oe, oq), new.base, entry, even)
                 ELSE AddShort(AddLong(m, ob, oe, oq), new.base, entry, even)
  BY DEF UpdateOpenInterest
<1>4. ob + new.base = new.settled /\ oe + entry = de /\ oq + even = dq
  BY <1>1
<1>7. Multiple(ob) /\ Multiple(new.settled)
  BY MultipleAdd DEF Position
<1> HIDE DEF de, dq, long, ob, oe, oq, x
<1>5. CASE type # "Flip"
  <2>1. SidesAdded(m, x, new.settled, de, dq)
    BY <1>2, <1>3, <1>5, <1>7, LongAdded, ShortAdded
  <2> QED
    BY <2>1 DEF de, dq, x
<1>6. CASE type = "Flip"
  <2> DEFINE v == IF long THEN AddShort(m, ob, oe, oq) ELSE AddLong(m, ob, oe, oq)
  <2>1. SidesAdded(m, v, ob, oe, oq)
    BY <1>2, <1>7, LongAdded, ShortAdded
  <2>2. x = IF long THEN AddLong(v, new.base, entry, even) ELSE AddShort(v, new.base, entry, even)
    BY <1>3, <1>6
  <2> HIDE DEF v
  <2>3. Market(v)
    BY <2>1 DEF SidesAdded
  <2>4. SidesAdded(v, x, new.base, entry, even)
    BY <2>2, <2>3, LongAdded, ShortAdded
  <2>5. SidesAdded(m, x, ob + new.base, oe + entry, oq + even)
    BY <1>2, <2>1, <2>4, SidesAddedTwice
  <2> QED
    BY <1>4, <2>5 DEF de, dq, x
<1> QED
  BY <1>5, <1>6

(* The funding rate a changed position goes on from is that of its side.   *)
LEMMA ChangedRate ==
  ASSUME NEW m, NEW p, Market(m), Position(p), FundingUpToDate(m, p), NEW d, GoodDelta(d),
         ~(d.base = 0 /\ d.remainder = 0), NEW x, \A f \in KeptFields : x[f] = m[f]
  PROVE  LET type == get_position_update_type(p, d)
             new == get_new_position_amounts(p, d)
         IN  new.base # 0
               => LastFundingRate(x, p, new, type) = CumulativeFundingRate(x, new.base)
<1> DEFINE type == get_position_update_type(p, d)
           new == get_new_position_amounts(p, d)
           s == order_step_size
           b == p.base_asset_amount
           t == p.remainder_base_asset_amount
           total == new.base + new.remainder
<1>1. /\ new.base \in Int /\ new.remainder \in Int /\ Multiple(new.base)
      /\ new.remainder < s /\ new.remainder > -s
      /\ new.base + new.remainder = BaseWithRemainder(p) + (d.base + d.remainder)
      /\ (t + d.remainder < s /\ t + d.remainder > -s) => new.base = b + d.base
  BY NewAmounts
<1>2. /\ type \in UpdateTypes
      /\ type = "Reduce" => /\ BaseWithRemainder(p) > 0 => d.base + d.remainder <= 0 /\ total > 0
                            /\ BaseWithRemainder(p) < 0 => d.base + d.remainder >= 0 /\ total < 0
                            /\ BaseWithRemainder(p) # 0
      /\ type = "Close" => total = 0
  BY <1>1, UpdateTypeMeans
<1>3. /\ new.base > 0 => total > 0
      /\ new.base < 0 => total < 0
      /\ total = 0 => new.base = 0
  BY <1>1, TotalSide
<1>4. b \in Int /\ t \in Int /\ Multiple(b) /\ t < s /\ t > -s /\ BaseWithRemainder(p) = b + t
  BY PositionNumbers DEF Position, BaseWithRemainder
<1>5. /\ b > 0 => b + t > 0
      /\ b < 0 => b + t < 0
  BY <1>4, TotalSide
<1>6. s \in Nat \ {0}
  BY StepPositive
<1> HIDE DEF type, new, total, s
<1>7. CASE type = "Close"
  BY <1>2, <1>3, <1>7 DEF type, new
<1>8. CASE type = "Reduce"
  <2>1. LastFundingRate(x, p, new, type) = p.last_cumulative_funding_rate
    BY <1>8 DEF LastFundingRate
  <2>2. CASE b # 0
    <3>1. p.last_cumulative_funding_rate = CumulativeFundingRate(m, b)
      BY <2>2 DEF FundingUpToDate
    <3>2. CumulativeFundingRate(m, b) = CumulativeFundingRate(x, b)
      BY RateKept
    <3>3. new.base # 0 => (b > 0 <=> new.base > 0)
      <4>1. b > 0 => total > 0
        BY <1>2, <1>4, <1>5, <1>8
      <4>2. b < 0 => total < 0
        BY <1>2, <1>4, <1>5, <1>8
      <4>3. total \in Int
        BY <1>1 DEF total
      <4> QED
        BY <1>1, <1>3, <1>4, <2>2, <4>1, <4>2, <4>3
    <3>4. new.base # 0 => CumulativeFundingRate(x, b) = CumulativeFundingRate(x, new.base)
      BY <3>3 DEF CumulativeFundingRate
    <3> QED
      BY <2>1, <3>1, <3>2, <3>4 DEF type, new
  <2>3. CASE b = 0
    <3>1. /\ d.base \in Int /\ d.remainder \in Int /\ Multiple(d.base)
          /\ (d.base >= 0 /\ d.remainder >= 0) \/ (d.base <= 0 /\ d.remainder <= 0)
      BY DEF GoodDelta
    <3>2. total = t + (d.base + d.remainder)
      BY <1>1, <1>4, <2>3 DEF total
    <3>3. d.base + d.remainder < s /\ d.base + d.remainder > -s
      BY <1>2, <1>4, <1>6, <1>8, <2>3, <3>1, <3>2
    <3>4. d.base < s /\ d.base > -s
      BY <1>6, <3>1, <3>3
    <3>5. (d.base > -s => d.base >= 0) /\ (d.base < s => d.base <= 0)
      BY <3>1, MultipleSmall DEF s
    <3>6. d.base = 0
      BY <3>1, <3>4, <3>5
    <3>7. t + d.remainder < s /\ t + d.remainder > -s
      BY <1>2, <1>4, <1>6, <1>8, <2>3, <3>1, <3>2, <3>6
    <3>8. new.base = 0
      BY <1>1, <2>3, <3>1, <3>6, <3>7
    <3> QED
      BY <3>8 DEF new
  <2> QED
    BY <2>2, <2>3
<1>9. CASE type \in {"Open", "Increase", "Flip"}
  <2>1. LastFundingRate(x, p, new, type) = CumulativeFundingRate(x, total)
    BY <1>9 DEF LastFundingRate, total
  <2>2. new.base # 0 => (total > 0 <=> new.base > 0)
    <3>1. total \in Int
      BY <1>1 DEF total
    <3> QED
      BY <1>1, <1>3, <3>1
  <2>3. new.base # 0 => CumulativeFundingRate(x, total) = CumulativeFundingRate(x, new.base)
    BY <2>2 DEF CumulativeFundingRate
  <2> QED
    BY <2>1, <2>3 DEF type, new
<1> QED
  BY <1>2, <1>7, <1>8, <1>9 DEF UpdateTypes

LEMMA ChangeBooked ==
  ASSUME NEW m, NEW p, Market(m), Position(p), FundingUpToDate(m, p), NEW d, GoodDelta(d),
         ~(d.base = 0 /\ d.remainder = 0)
  PROVE  LET r == ChangePosition(m, p, d)
         IN  /\ Booked(m, p, r.m, r.p, IF d.lp THEN 0 ELSE d.base)
             /\ FundingUpToDate(r.m, r.p)
             /\ r.p.lp_shares = p.lp_shares
<1> DEFINE type == get_position_update_type(p, d)
           new == get_new_position_amounts(p, d)
           entry == NewEntryAmount(p.quote_entry_amount, p, d, type)
           even == NewEntryAmount(p.quote_break_even_amount, p, d, type)
           m1 == update_market_with_counterparty(m, d, new.settled)
           m2 == CountUsers(m1, p, new, type)
           m3 == [m2 EXCEPT !.quote_asset_amount = @ + d.quote]
           x == UpdateOpenInterest(m3, p, new, entry, even, type)
           rate == LastFundingRate(x, p, new, type)
           y == [p EXCEPT !.base_asset_amount = new.base,
                          !.remainder_base_asset_amount = new.remainder,
                          !.quote_asset_amount = new.quote,
                          !.quote_entry_amount = entry,
                          !.quote_break_even_amount = even,
                          !.last_cumulative_funding_rate = rate]
           users == IF type = "Open" THEN 1 ELSE IF type = "Close" THEN -1 ELSE 0
           unsettled == IF d.lp THEN new.settled ELSE 0
           U == {"base_asset_amount", "remainder_base_asset_amount", "quote_asset_amount",
                 "quote_entry_amount", "quote_break_even_amount", "last_cumulative_funding_rate"}
<1>1. ChangePosition(m, p, d) = [m |-> x, p |-> y]
  BY DEF ChangePosition
<1>2. /\ new.base \in Int /\ new.settled \in Int /\ new.quote \in Int /\ new.remainder \in Int
      /\ Multiple(new.base)
      /\ new.remainder < order_step_size /\ new.remainder > -order_step_size
      /\ new.settled = new.base - p.base_asset_amount
      /\ new.quote = p.quote_asset_amount + d.quote
      /\ new.base + new.remainder = BaseWithRemainder(p) + (d.base + d.remainder)
      /\ ~d.lp => new.settled = d.base
  BY NewAmounts
<1>3. /\ type \in UpdateTypes /\ (type = "Open" <=> NoBase(p))
      /\ type = "Close" => BaseWithRemainder(p) + (d.base + d.remainder) = 0
  BY UpdateTypeMeans
<1>4. /\ DOMAIN p = PositionFields /\ p = [f \in PositionFields |-> p[f]]
      /\ p.base_asset_amount \in Int /\ p.quote_asset_amount \in Int
      /\ p.quote_entry_amount \in Int /\ p.quote_break_even_amount \in Int
      /\ p.lp_shares \in Nat /\ p.last_cumulative_funding_rate \in Int
  BY PositionNumbers
<1>5. entry \in Int /\ even \in Int
  BY <1>4, EntryType
<1>6. d.quote \in Int /\ d.base \in Int
  BY DEF GoodDelta
<1>7. (\A f \in KeptFields : x[f] = m[f]) => (new.base # 0 => rate = CumulativeFundingRate(x, new.base))
  BY ChangedRate
<1> HIDE DEF type, new, entry, even
<1>8. Counted(m, m1, unsettled, 0, 0)
  BY <1>2, CounterpartyCounted
<1> HIDE DEF m1
<1>9. Market(m1)
  BY <1>8 DEF Counted
<1>10. Counted(m1, m2, 0, 0, users)
  BY <1>9, UsersCounted
<1> HIDE DEF m2
<1>11. Market(m2)
  BY <1>10 DEF Counted
<1>12. Counted(m2, m3, 0, d.quote, 0)
  BY <1>6, <1>11, QuoteCounted
<1> HIDE DEF m3
<1>13. users \in Int /\ unsettled \in Int
  BY <1>2
<1>14. Counted(m, m3, unsettled, d.quote, users)
  <2> HIDE DEF users, unsettled
  <2> QED
    BY <1>6, <1>8, <1>10, <1>12, <1>13, CountedThrice
<1>15. Market(m3)
  BY <1>14 DEF Counted
<1>16. SidesAdded(m3, x, new.settled, entry - p.quote_entry_amount,
                  even - p.quote_break_even_amount)
  BY <1>2, <1>5, <1>15, InterestAdded
<1> HIDE DEF x
<1>17. Market(x) /\ \A f \in KeptFields : x[f] = m[f]
  BY <1>14, <1>16 DEF Counted, SidesAdded
<1>18. rate \in Int
  <2>1. /\ \A base : CumulativeFundingRate(x, base) \in Int
    BY <1>17, RateType
  <2> QED
    BY <1>4, <2>1 DEF LastFundingRate
<1>19. U \subseteq PositionFields
  BY DEF PositionFields
<1> HIDE DEF rate
<1>20. /\ Changed(p, y, U)
       /\ y.base_asset_amount = new.base /\ y.remainder_base_asset_amount = new.remainder
       /\ y.quote_asset_amount = new.quote /\ y.quote_entry_amount = entry
       /\ y.quote_break_even_amount = even /\ y.last_cumulative_funding_rate = rate
  BY <1>4, <1>19 DEF Changed
<1> HIDE DEF y
<1>21. y.lp_shares = p.lp_shares
  BY <1>20, PositionKeeps
<1>22. Position(y)
  <2>1. \A f \in U : y[f] \in Int
    BY <1>2, <1>5, <1>18, <1>20
  <2>2. /\ y.lp_shares >= 0 /\ Multiple(y.base_asset_amount)
        /\ y.remainder_base_asset_amount < order_step_size
        /\ y.remainder_base_asset_amount > -order_step_size
    BY <1>2, <1>4, <1>20, <1>21
  <2> QED
    BY <1>19, <1>20, <2>1, <2>2, PositionChanged
<1>23. x.base_asset_amount_long + x.base_asset_amount_short + p.base_asset_amount
         = m.base_asset_amount_long + m.base_asset_amount_short + y.base_asset_amount
  <2>1. x.base_asset_amount_long + x.base_asset_amount_short
          = m.base_asset_amount_long + m.base_asset_amount_short + new.settled
    BY <1>14, <1>16 DEF Counted, SidesAdded
  <2>2. m.base_asset_amount_long \in Int /\ m.base_asset_amount_short \in Int
    BY TotalNumbers
  <2> QED
    BY <1>2, <1>4, <1>20, <2>1, <2>2
<1>24. x.quote_asset_amount + p.quote_asset_amount = m.quote_asset_amount + y.quote_asset_amount
  <2>1. x.quote_asset_amount = m.quote_asset_amount + d.quote
    BY <1>14, <1>16 DEF Counted, SidesAdded
  <2>2. m.quote_asset_amount \in Int
    BY TotalNumbers
  <2> QED
    BY <1>2, <1>4, <1>6, <1>20, <2>1, <2>2
<1>25. x.quote_entry_amount_long + x.quote_entry_amount_short + p.quote_entry_amount
         = m.quote_entry_amount_long + m.quote_entry_amount_short + y.quote_entry_amount
  <2>1. x.quote_entry_amount_long + x.quote_entry_amount_short
          = m.quote_entry_amount_long + m.quote_entry_amount_short
              + (entry - p.quote_entry_amount)
    BY <1>14, <1>16 DEF Counted, SidesAdded
  <2>2. m.quote_entry_amount_long \in Int /\ m.quote_entry_amount_short \in Int
    BY TotalNumbers
  <2> QED
    BY <1>4, <1>5, <1>20, <2>1, <2>2
<1>26. x.quote_break_even_amount_long + x.quote_break_even_amount_short + p.quote_break_even_amount
         = m.quote_break_even_amount_long + m.quote_break_even_amount_short
             + y.quote_break_even_amount
  <2>1. x.quote_break_even_amount_long + x.quote_break_even_amount_short
          = m.quote_break_even_amount_long + m.quote_break_even_amount_short
              + (even - p.quote_break_even_amount)
    BY <1>14, <1>16 DEF Counted, SidesAdded
  <2>2. m.quote_break_even_amount_long \in Int /\ m.quote_break_even_amount_short \in Int
    BY TotalNumbers
  <2> QED
    BY <1>4, <1>5, <1>20, <2>1, <2>2
<1>27. x.user_lp_shares + p.lp_shares = m.user_lp_shares + y.lp_shares
  BY <1>14, <1>16, <1>21 DEF Counted, SidesAdded
<1>28. x.number_of_users_with_base + HoldsBase(p) >= m.number_of_users_with_base + HoldsBase(y)
  <2>1. x.number_of_users_with_base = m.number_of_users_with_base + users
    BY <1>14, <1>16 DEF Counted, SidesAdded
  <2>2. m.number_of_users_with_base \in Int
    BY TotalNumbers
  <2>3. HoldsBase(p) \in {0, 1} /\ HoldsBase(y) \in {0, 1} /\ (HoldsBase(p) = 0 <=> type = "Open")
    BY <1>3 DEF HoldsBase
  <2>4. type = "Close" => HoldsBase(y) = 0
    <3>1. new.base + new.remainder = 0 => new.base = 0 /\ new.remainder = 0
      BY <1>2, TotalSide
    <3> QED
      BY <1>2, <1>3, <1>20, <3>1 DEF HoldsBase, NoBase
  <2>5. users + HoldsBase(p) >= HoldsBase(y)
    BY <2>3, <2>4
  <2> QED
    BY <1>13, <2>1, <2>2, <2>3, <2>5
<1>29. NetBase(x) = NetBase(m) + (IF d.lp THEN 0 ELSE d.base)
  <2>1. x.base_asset_amount_long + x.base_asset_amount_short
          = m.base_asset_amount_long + m.base_asset_amount_short + new.settled
    BY <1>14, <1>16 DEF Counted, SidesAdded
  <2>2. /\ x.base_asset_amount_with_unsettled_lp = m.base_asset_amount_with_unsettled_lp + unsettled
        /\ x.base_asset_amount_with_amm = m.base_asset_amount_with_amm
    BY <1>14, <1>16 DEF Counted, SidesAdded
  <2>3. /\ m.base_asset_amount_long \in Int /\ m.base_asset_amount_short \in Int
        /\ m.base_asset_amount_with_unsettled_lp \in Int /\ m.base_asset_amount_with_amm \in Int
        /\ x.base_asset_amount_long \in Int /\ x.base_asset_amount_short \in Int
    BY <1>17, TotalNumbers
  <2>4. NetBase(x) = NetBase(m) + new.settled - unsettled
    BY <1>2, <1>13, <2>1, <2>2, <2>3 DEF NetBase
  <2>5. NetBase(m) \in Int
    BY TotalNumbers
  <2> QED
    BY <1>2, <1>6, <2>4, <2>5
<1>30. Booked(m, p, x, y, IF d.lp THEN 0 ELSE d.base)
  BY <1>17, <1>22, <1>23, <1>24, <1>25, <1>26, <1>27, <1>28, <1>29 DEF Booked
<1>31. FundingUpToDate(x, y)
  BY <1>7, <1>17, <1>20 DEF FundingUpToDate
<1> QED
  BY <1>1, <1>21, <1>30, <1>31

LEMMA PositionBooked ==
  ASSUME NEW m, NEW p, Market(m), Position(p), FundingUpToDate(m, p), NEW d, GoodDelta(d)
  PROVE  LET r == update_position_and_market(m, p, d)
         IN  /\ Booked(m, p, r.m, r.p, IF d.lp THEN 0 ELSE d.base)
             /\ FundingUpToDate(r.m, r.p)
             /\ r.p.lp_shares = p.lp_shares
             /\ r = [m |-> r.m, p |-> r.p]
<1>1. CASE d.base = 0 /\ d.remainder = 0
  <2> DEFINE r == update_quote_asset_amount(m, p, d.quote)
  <2>1. update_position_and_market(m, p, d) = r
    BY <1>1 DEF update_position_and_market
  <2>2. d.quote \in Int
    BY DEF GoodDelta
  <2>3. Booked(m, p, r.m, r.p, 0) /\ SameFunding(p, r.p)
    BY <2>2, QuoteBooked
  <2>4. r = [m |-> r.m, p |-> r.p]
    BY DEF update_quote_asset_amount
  <2>5. r.p.lp_shares = p.lp_shares
    <3>1. r.p = p \/ r.p = [p EXCEPT !.quote_asset_amount = @ + d.quote]
      BY DEF update_quote_asset_amount
    <3> QED
      BY <3>1, PositionNumbers DEF PositionFields
  <2> HIDE DEF r
  <2>6. CumulativeFundingRate(r.m, p.base_asset_amount) = CumulativeFundingRate(m, p.base_asset_amount)
    BY <2>3, RateKept DEF Booked
  <2>7. FundingUpToDate(r.m, r.p)
    BY <2>3, <2>6 DEF FundingUpToDate, SameFunding
  <2> QED
    BY <1>1, <2>1, <2>3, <2>4, <2>5, <2>7
<1>2. CASE ~(d.base = 0 /\ d.remainder = 0)
  <2>1. update_position_and_market(m, p, d) = ChangePosition(m, p, d)
    BY <1>2 DEF update_position_and_market
  <2>2. ChangePosition(m, p, d) = [m |-> ChangePosition(m, p, d).m, p |-> ChangePosition(m, p, d).p]
    BY DEF ChangePosition
  <2> QED
    BY <1>2, <2>1, <2>2, ChangeBooked
<1> QED
  BY <1>1, <1>2

(* A change of a position touches no field of the curve.                   *)
LEMMA PositionLedger ==
  ASSUME NEW m, Market(m), NEW p, NEW d
  PROVE  Changed(m, update_position_and_market(m, p, d).m, LedgerFields)
<1>0. DOMAIN m = Fields /\ m = [f \in Fields |-> m[f]] /\ LedgerFields \subseteq Fields
  BY MarketNumbers DEF Fields, IntegerFields
<1> DEFINE Plain(x) == DOMAIN x = Fields /\ x = [f \in Fields |-> x[f]]
<1>1. ASSUME NEW x, NEW y, NEW v, Changed(x, y, LedgerFields), Changed(y, v, LedgerFields)
      PROVE  Changed(x, v, LedgerFields)
  <2>1. LedgerFields \cup LedgerFields = LedgerFields
    OBVIOUS
  <2> QED
    BY <1>1, <2>1, ChangedTwice
<1>2. ASSUME NEW x, Plain(x), NEW y, Changed(x, y, LedgerFields)
      PROVE  Plain(y)
  BY <1>2 DEF Changed
<1>3. ASSUME NEW x, Plain(x), NEW b, NEW e, NEW q
      PROVE  /\ Changed(x, AddLong(x, b, e, q), LedgerFields)
             /\ Changed(x, AddShort(x, b, e, q), LedgerFields)
  <2>1. Changed(x, AddLong(x, b, e, q), LedgerFields)
    BY <1>0, <1>3 DEF Changed, AddLong, LedgerFields
  <2>2. Changed(x, AddShort(x, b, e, q), LedgerFields)
    BY <1>0, <1>3 DEF Changed, AddShort, LedgerFields
  <2> QED
    BY <2>1, <2>2
<1>4. ASSUME NEW x, Plain(x), NEW new, NEW entry, NEW even, NEW type
      PROVE  Changed(x, UpdateOpenInterest(x, p, new, entry, even, type), LedgerFields)
  <2> DEFINE ob == -p.base_asset_amount
             oe == -p.quote_entry_amount
             oq == -p.quote_break_even_amount
             de == entry - p.quote_entry_amount
             dq == even - p.quote_break_even_amount
             long == IF type \in {"Reduce", "Close"} THEN p.base_asset_amount > 0 ELSE new.base > 0
             nb == new.base
             ns == new.settled
  <2>1. UpdateOpenInterest(x, p, new, entry, even, type)
          = IF type # "Flip"
              THEN IF long THEN AddLong(x, ns, de, dq) ELSE AddShort(x, ns, de, dq)
              ELSE IF long THEN AddLong(AddShort(x, ob, oe, oq), nb, entry, even)
                   ELSE AddShort(AddLong(x, ob, oe, oq), nb, entry, even)
    BY DEF UpdateOpenInterest
  <2> HIDE DEF ob, oe, oq, de, dq, long, nb, ns
  <2>2. /\ Changed(x, AddLong(x, ns, de, dq), LedgerFields)
        /\ Changed(x, AddShort(x, ns, de, dq), LedgerFields)
        /\ Changed(x, AddLong(x, ob, oe, oq), LedgerFields)
        /\ Changed(x, AddShort(x, ob, oe, oq), LedgerFields)
    BY <1>3, <1>4
  <2>3. Plain(AddLong(x, ob, oe, oq)) /\ Plain(AddShort(x, ob, oe, oq))
    BY <1>2, <1>4, <2>2
  <2>4. /\ Changed(AddShort(x, ob, oe, oq), AddLong(AddShort(x, ob, oe, oq), nb, entry, even),
                   LedgerFields)
        /\ Changed(AddLong(x, ob, oe, oq), AddShort(AddLong(x, ob, oe, oq), nb, entry, even),
                   LedgerFields)
    BY <1>3, <2>3
  <2>5. /\ Changed(x, AddLong(AddShort(x, ob, oe, oq), nb, entry, even), LedgerFields)
        /\ Changed(x, AddShort(AddLong(x, ob, oe, oq), nb, entry, even), LedgerFields)
    BY <1>1, <2>2, <2>4
  <2> QED
    BY <2>1, <2>2, <2>5
<1>5. ASSUME NEW x, Plain(x), NEW new, NEW type
      PROVE  Changed(x, CountUsers(x, p, new, type), LedgerFields)
  <2>1. CASE type = "Open"
    BY <1>0, <1>5, <2>1 DEF Changed, CountUsers, LedgerFields
  <2>2. CASE type = "Close"
    BY <1>0, <1>5, <2>2 DEF Changed, CountUsers, LedgerFields
  <2>3. CASE type \notin {"Open", "Close"}
    <3>1. CountUsers(x, p, new, type) = x
      BY <2>3 DEF CountUsers
    <3> QED
      BY <1>5, <3>1 DEF Changed
  <2> QED
    BY <2>1, <2>2, <2>3
<1>6. ASSUME NEW x, Plain(x), NEW settled
      PROVE  Changed(x, update_market_with_counterparty(x, d, settled), LedgerFields)
  <2>1. CASE d.lp
    BY <1>0, <1>6, <2>1 DEF Changed, update_market_with_counterparty, LedgerFields
  <2>2. CASE ~d.lp
    BY <1>0, <1>6, <2>2 DEF Changed, update_market_with_counterparty
  <2> QED
    BY <2>1, <2>2
<1>7. ASSUME NEW x, Plain(x), NEW quote
      PROVE  Changed(x, [x EXCEPT !.quote_asset_amount = @ + quote], LedgerFields)
  BY <1>0, <1>7 DEF Changed, LedgerFields
<1>8. CASE d.base = 0 /\ d.remainder = 0
  <2>1. update_position_and_market(m, p, d).m = update_quote_asset_amount(m, p, d.quote).m
    BY <1>8 DEF update_position_and_market
  <2>2. CASE d.quote = 0
    <3>1. update_quote_asset_amount(m, p, d.quote).m = m
      BY <2>2 DEF update_quote_asset_amount
    <3> QED
      BY <1>0, <2>1, <3>1 DEF Changed
  <2>3. CASE d.quote # 0
    <3> DEFINE k == m.number_of_users + (IF Vacant(p) THEN 1 ELSE 0)
                      - (IF Vacant([p EXCEPT !.quote_asset_amount = @ + d.quote]) THEN 1 ELSE 0)
               q == m.quote_asset_amount + d.quote
    <3>1. update_quote_asset_amount(m, p, d.quote).m
            = [m EXCEPT !.quote_asset_amount = q, !.number_of_users = k]
      BY <1>0, <2>3 DEF update_quote_asset_amount, LedgerFields
    <3> HIDE DEF k, q
    <3>2. Changed(m, [m EXCEPT !.quote_asset_amount = q, !.number_of_users = k], LedgerFields)
      BY <1>0 DEF Changed, LedgerFields
    <3> QED
      BY <2>1, <3>1, <3>2
  <2> QED
    BY <2>2, <2>3
<1>9. CASE ~(d.base = 0 /\ d.remainder = 0)
  <2> DEFINE type == get_position_update_type(p, d)
             new == get_new_position_amounts(p, d)
             entry == NewEntryAmount(p.quote_entry_amount, p, d, type)
             even == NewEntryAmount(p.quote_break_even_amount, p, d, type)
             ns == new.settled
             m1 == update_market_with_counterparty(m, d, ns)
             m2 == CountUsers(m1, p, new, type)
             q == d.quote
             m3 == [m2 EXCEPT !.quote_asset_amount = @ + q]
             x == UpdateOpenInterest(m3, p, new, entry, even, type)
  <2>1. update_position_and_market(m, p, d).m = x
    BY <1>9 DEF update_position_and_market, ChangePosition
  <2> HIDE DEF type, new, entry, even, ns, q
  <2>2. Plain(m)
    BY <1>0
  <2> HIDE DEF Plain
  <2>3. Changed(m, m1, LedgerFields)
    BY <1>6, <2>2
  <2>4. Plain(m1)
    BY <1>2, <2>2, <2>3
  <2> HIDE DEF m1
  <2>5. Changed(m1, m2, LedgerFields)
    BY <1>5, <2>4
  <2>6. Plain(m2)
    BY <1>2, <2>4, <2>5
  <2> HIDE DEF m2
  <2>7. Changed(m2, m3, LedgerFields)
    BY <1>7, <2>6
  <2>8. Plain(m3)
    BY <1>2, <2>6, <2>7
  <2> HIDE DEF m3
  <2>9. Changed(m3, x, LedgerFields)
    BY <1>4, <2>8
  <2> HIDE DEF x
  <2>10. Changed(m, m2, LedgerFields)
    BY <1>1, <2>3, <2>5
  <2>11. Changed(m, m3, LedgerFields)
    BY <1>1, <2>7, <2>10
  <2>12. Changed(m, x, LedgerFields)
    BY <1>1, <2>9, <2>11
  <2> QED
    BY <2>1, <2>12
<1> QED
  BY <1>8, <1>9

(***************************************************************************)
(* Liquidity providers.                                                    *)
(***************************************************************************)

LEMMA LpNumbers ==
  ASSUME NEW m, Market(m)
  PROVE  /\ m.per_lp_base \in Int /\ Abs(m.per_lp_base) \in 0 .. MaxPerLpBase
         /\ m.base_asset_amount_per_lp \in Int /\ m.quote_asset_amount_per_lp \in Int
<1>1. \A f \in IntegerFields : m[f] \in Int
  BY DEF Market, Typed
<1>2. /\ m.per_lp_base \in Int /\ m.base_asset_amount_per_lp \in Int
      /\ m.quote_asset_amount_per_lp \in Int
  BY <1>1 DEF IntegerFields, OtherFields
<1>3. MaxPerLpBase \in Nat
  BY EnvironmentAssumption DEF EnvironmentAssumption
<1>4. Abs(m.per_lp_base) \in Nat /\ Abs(m.per_lp_base) <= MaxPerLpBase
  BY <1>2, AbsType DEF Market
<1> QED
  BY <1>2, <1>3, <1>4

LEMMA UnitPositive ==
  ASSUME NEW m, Market(m)
  PROVE  get_per_lp_base_unit(m) \in Nat \ {0}
<1> DEFINE n == m.per_lp_base
           P == AMM_RESERVE_PRECISION
           t == Pow10[n]
           w == Pow10[Abs(n)]
<1>1. P \in Nat \ {0} /\ n \in Int /\ Abs(n) \in 0 .. MaxPerLpBase /\ Abs(n) \in Nat
  BY CurveConstants, LpNumbers, AbsType
<1>2. get_per_lp_base_unit(m) = IF n > 0 THEN P * t ELSE P \div w
  BY DEF get_per_lp_base_unit
<1>3. CASE n > 0
  <2>1. t \in Nat \ {0}
    BY <1>1, <1>3, PowerType
  <2>2. P * t \in Nat \ {0}
    <3> HIDE DEF t
    <3> QED
      BY <1>1, <2>1
  <2> QED
    BY <1>2, <1>3, <2>2
<1>4. CASE ~(n > 0)
  <2>1. w \in Nat \ {0}
    BY <1>1, PowerType
  <2>2. w <= P
    BY <1>1, EnvironmentAssumption DEF EnvironmentAssumption
  <2>3. P \div w \in Nat /\ 1 <= P \div w
    <3> HIDE DEF w
    <3>1. 1 * w <= P
      BY <1>1, <2>1, <2>2
    <3> QED
      BY <1>1, <2>1, <3>1, DivBounds, DivAtLeast
  <2> QED
    BY <1>2, <1>4, <2>3
<1> QED
  BY <1>3, <1>4

LEMMA RebasedType ==
  ASSUME NEW amount \in Int, NEW n \in Int
  PROVE  Rebased(amount, n) \in Int
<1>1. CASE n >= 0
  <2>1. Pow10[n] \in Int
    BY <1>1, PowerType
  <2> QED
    BY <1>1, <2>1 DEF Rebased
<1>2. CASE ~(n >= 0)
  <2>1. Abs(n) \in Nat
    BY AbsType
  <2>2. Pow10[Abs(n)] \in Nat \ {0}
    BY <2>1, PowerType
  <2>3. Quot(amount, Pow10[Abs(n)]) \in Int
    BY <2>2, QuotTypes
  <2> QED
    BY <1>2, <2>3 DEF Rebased
<1> QED
  BY <1>1, <1>2

LEMMA PositionRebased ==
  ASSUME NEW m, NEW p, Market(m), Position(p)
  PROVE  LET q == apply_lp_rebase_to_perp_position(m, p)
         IN  Position(q) /\ SameCounted(p, q) /\ SameFunding(p, q)
<1> DEFINE n == m.per_lp_base - p.per_lp_base
           b == Rebased(p.last_base_asset_amount_per_lp, n)
           c == Rebased(p.last_quote_asset_amount_per_lp, n)
           q == [p EXCEPT !.last_base_asset_amount_per_lp = b,
                          !.last_quote_asset_amount_per_lp = c,
                          !.per_lp_base = m.per_lp_base]
           U == {"last_base_asset_amount_per_lp", "last_quote_asset_amount_per_lp", "per_lp_base"}
<1>1. /\ DOMAIN p = PositionFields /\ p = [f \in PositionFields |-> p[f]]
      /\ p.last_base_asset_amount_per_lp \in Int /\ p.last_quote_asset_amount_per_lp \in Int
      /\ p.per_lp_base \in Int /\ m.per_lp_base \in Int
  BY PositionNumbers, LpNumbers
<1>2. U \subseteq UncountedFields /\ U \subseteq PositionFields
  BY DEF UncountedFields, PositionFields
<1>3. n \in Int
  BY <1>1
<1>4. apply_lp_rebase_to_perp_position(m, p) = q
  BY <1>1, <1>2 DEF apply_lp_rebase_to_perp_position
<1> HIDE DEF n
<1>5. b \in Int /\ c \in Int
  BY <1>1, <1>3, RebasedType
<1> HIDE DEF b, c
<1>6. /\ Changed(p, q, U) /\ q.last_base_asset_amount_per_lp = b
      /\ q.last_quote_asset_amount_per_lp = c /\ q.per_lp_base = m.per_lp_base
  BY <1>1, <1>2 DEF Changed
<1> HIDE DEF q
<1>7. \A f \in U : q[f] \in Int
  BY <1>1, <1>5, <1>6
<1>8. Position(q) /\ SameCounted(p, q)
  BY <1>2, <1>6, <1>7, Uncounted
<1>9. SameFunding(p, q)
  BY <1>6, PositionKeeps DEF SameFunding
<1> QED
  BY <1>4, <1>8, <1>9

LEMMA TotalsFollowed ==
  ASSUME NEW m, NEW p, Market(m), Position(p)
  PROVE  LET q == FollowLpTotals(m, p)
         IN  Position(q) /\ SameCounted(p, q) /\ SameFunding(p, q)
<1> DEFINE b == m.base_asset_amount_per_lp
           c == m.quote_asset_amount_per_lp
           q == [p EXCEPT !.last_base_asset_amount_per_lp = b,
                          !.last_quote_asset_amount_per_lp = c]
           U == {"last_base_asset_amount_per_lp", "last_quote_asset_amount_per_lp"}
<1>1. /\ DOMAIN p = PositionFields /\ p = [f \in PositionFields |-> p[f]]
      /\ b \in Int /\ c \in Int
  BY PositionNumbers, LpNumbers
<1>2. U \subseteq UncountedFields /\ U \subseteq PositionFields
  BY DEF UncountedFields, PositionFields
<1>3. FollowLpTotals(m, p) = q
  BY DEF FollowLpTotals
<1> HIDE DEF b, c
<1>4. /\ Changed(p, q, U) /\ q.last_base_asset_amount_per_lp = b
      /\ q.last_quote_asset_amount_per_lp = c
  BY <1>1, <1>2 DEF Changed
<1> HIDE DEF q
<1>5. \A f \in U : q[f] \in Int
  BY <1>1, <1>4
<1>6. Position(q) /\ SameCounted(p, q)
  BY <1>2, <1>4, <1>5, Uncounted
<1>7. SameFunding(p, q)
  BY <1>4, PositionKeeps DEF SameFunding
<1> QED
  BY <1>3, <1>6, <1>7

(* What an LP settles is whole steps and what is left of one.              *)
LEMMA SettledDelta ==
  ASSUME NEW m, NEW p, Market(m), Position(p)
  PROVE  LET d == calculate_settle_lp_metrics(m, p) IN GoodDelta(d) /\ d.lp
<1> DEFINE unit == get_per_lp_base_unit(m)
           a == m.base_asset_amount_per_lp - p.last_base_asset_amount_per_lp
           c == m.quote_asset_amount_per_lp - p.last_quote_asset_amount_per_lp
           base == SettledPart(m.base_asset_amount_per_lp, p.last_base_asset_amount_per_lp, p, m)
           quote == SettledPart(m.quote_asset_amount_per_lp, p.last_quote_asset_amount_per_lp, p, m)
           d == calculate_settle_lp_metrics(m, p)
           s == order_step_size
<1>1. unit \in Int /\ unit # 0
  BY UnitPositive
<1>2. /\ a \in Int /\ c \in Int /\ p.lp_shares \in Int
  BY PositionNumbers, LpNumbers
<1>3. base = Quot(a * p.lp_shares, unit) /\ quote = Quot(c * p.lp_shares, unit)
  BY DEF SettledPart
<1>4. d = [base |-> standardize_base_asset_amount(base, s), remainder |-> StepRemainder(base, s),
           quote |-> quote, lp |-> TRUE]
  BY DEF calculate_settle_lp_metrics
<1> HIDE DEF unit, a, c, base, quote, d
<1>5. a * p.lp_shares \in Int /\ c * p.lp_shares \in Int
  BY <1>2
<1>6. base \in Int /\ quote \in Int
  BY <1>1, <1>3, <1>5, QuotTypes
<1>7. /\ StepRemainder(base, s) \in Int
      /\ standardize_base_asset_amount(base, s) \in Int
      /\ Multiple(standardize_base_asset_amount(base, s))
      /\ base >= 0 => StepRemainder(base, s) >= 0 /\ standardize_base_asset_amount(base, s) >= 0
      /\ base <= 0 => StepRemainder(base, s) <= 0 /\ standardize_base_asset_amount(base, s) <= 0
  BY <1>6, Standardized
<1>8. GoodDelta(d) /\ d.lp
  BY <1>4, <1>6, <1>7 DEF GoodDelta
<1> QED
  BY <1>8 DEF d

LEMMA LpBooked ==
  ASSUME NEW m, NEW p, Market(m), Position(p), FundingUpToDate(m, p)
  PROVE  LET r == settle_lp_position(m, p)
         IN  /\ Booked(m, p, r.m, r.p, 0)
             /\ FundingUpToDate(r.m, r.p)
             /\ r.p.lp_shares = p.lp_shares
             /\ Changed(m, r.m, LedgerFields)
             /\ r = [m |-> r.m, p |-> r.p]
<1> DEFINE q == apply_lp_rebase_to_perp_position(m, p)
           d == calculate_settle_lp_metrics(m, q)
           a == update_position_and_market(m, q, d)
           y == FollowLpTotals(m, a.p)
           r == settle_lp_position(m, p)
<1>1. Position(q) /\ SameCounted(p, q) /\ SameFunding(p, q)
  BY PositionRebased
<1>2. r = [a EXCEPT !.p = FollowLpTotals(m, @)]
  BY DEF settle_lp_position
<1> HIDE DEF q, r
<1>3. GoodDelta(d) /\ d.lp
  BY <1>1, SettledDelta
<1>4. FundingUpToDate(m, q)
  BY <1>1 DEF FundingUpToDate, SameFunding
<1> HIDE DEF d
<1>5. /\ Booked(m, q, a.m, a.p, 0) /\ FundingUpToDate(a.m, a.p) /\ a.p.lp_shares = q.lp_shares
      /\ a = [m |-> a.m, p |-> a.p]
  BY <1>1, <1>3, <1>4, PositionBooked
<1>6. Changed(m, a.m, LedgerFields)
  BY PositionLedger
<1> HIDE DEF a
<1>7. r = [m |-> a.m, p |-> y]
  BY <1>2, <1>5
<1>8. Position(a.p)
  BY <1>5 DEF Booked
<1>9. Position(y) /\ SameCounted(a.p, y) /\ SameFunding(a.p, y)
  BY <1>8, TotalsFollowed
<1> HIDE DEF y
<1>10. Booked(m, p, a.m, a.p, 0)
  BY <1>1, <1>5, BookedFrom
<1>11. Booked(m, p, a.m, y, 0)
  BY <1>9, <1>10, BookedTo
<1>12. FundingUpToDate(a.m, y)
  BY <1>5, <1>9 DEF FundingUpToDate, SameFunding
<1>13. y.lp_shares = p.lp_shares
  BY <1>1, <1>5, <1>9 DEF SameCounted
<1>14. r.m = a.m /\ r.p = y
  BY <1>7
<1> QED
  BY <1>6, <1>7, <1>11, <1>12, <1>13, <1>14 DEF r

(* A market with other numbers in fields the curve does not divide by.     *)
PlainFields ==
  IntegerFields \ {"base_asset_reserve", "quote_asset_reserve", "sqrt_k", "concentration_coef",
                   "long_spread", "short_spread", "user_lp_shares", "total_social_loss",
                   "per_lp_base", "base_asset_amount_long", "base_asset_amount_short",
                   "revenue_withdraw_since_last_settle"}

LEMMA PlainMarket ==
  ASSUME NEW m, Market(m), NEW x, NEW S \in SUBSET PlainFields, Changed(m, x, S),
         \A f \in S : x[f] \in Int
  PROVE  Market(x)
<1>1. S \subseteq IntegerFields
  BY DEF PlainFields
<1>2. Typed(x)
  BY <1>1, ChangedTyped DEF Market
<1>3. {"base_asset_reserve", "quote_asset_reserve", "sqrt_k", "concentration_coef", "long_spread",
       "short_spread"} \cup BoundedFields \subseteq Fields \ S
  BY DEF BoundedFields, PlainFields, Fields, IntegerFields, CurveFields, LedgerFields, OtherFields
<1>4. DOMAIN m = Fields
  BY MarketNumbers
<1>5. Curved(x)
  BY <1>3, <1>4 DEF Changed, Market, Curved
<1>6. \A f \in BoundedFields : x[f] = m[f]
  BY <1>3, <1>4 DEF Changed
<1> QED
  BY <1>2, <1>5, <1>6, BoundedKept

(* The totals that a change of the market alone must leave.                *)
CountedFields ==
  { "base_asset_amount_long", "base_asset_amount_short", "quote_asset_amount",
    "quote_entry_amount_long", "quote_entry_amount_short",
    "quote_break_even_amount_long", "quote_break_even_amount_short",
    "user_lp_shares", "number_of_users_with_base" }

LEMMA MarketBooked ==
  ASSUME NEW m, NEW p, Market(m), Position(p), NEW x, Market(x), NEW S, Changed(m, x, S),
         S \cap (KeptFields \cup CountedFields) = {}, NEW shift \in Int,
         x.base_asset_amount_with_amm + x.base_asset_amount_with_unsettled_lp + shift
           = m.base_asset_amount_with_amm + m.base_asset_amount_with_unsettled_lp
  PROVE  Booked(m, p, x, p, shift)
<1>1. DOMAIN m = Fields
  BY MarketNumbers
<1>2. KeptFields \cup CountedFields \subseteq Fields
  BY DEF KeptFields, CountedFields, Fields, IntegerFields, LedgerFields, OtherFields
<1>3. \A f \in KeptFields \cup CountedFields : x[f] = m[f]
  BY <1>1, <1>2 DEF Changed
<1>4. \A f \in KeptFields : x[f] = m[f]
  BY <1>3
<1>5. /\ x.base_asset_amount_long = m.base_asset_amount_long
      /\ x.base_asset_amount_short = m.base_asset_amount_short
      /\ x.quote_asset_amount = m.quote_asset_amount
      /\ x.quote_entry_amount_long = m.quote_entry_amount_long
      /\ x.quote_entry_amount_short = m.quote_entry_amount_short
      /\ x.quote_break_even_amount_long = m.quote_break_even_amount_long
      /\ x.quote_break_even_amount_short = m.quote_break_even_amount_short
      /\ x.user_lp_shares = m.user_lp_shares
      /\ x.number_of_users_with_base = m.number_of_users_with_base
  BY <1>3 DEF CountedFields
<1>6. HoldsBase(p) \in Int /\ m.number_of_users_with_base \in Int
  BY TotalNumbers DEF HoldsBase
<1>7. NetBase(x) = NetBase(m) + shift
  <2>1. /\ m.base_asset_amount_long \in Int /\ m.base_asset_amount_short \in Int
        /\ m.base_asset_amount_with_amm \in Int /\ m.base_asset_amount_with_unsettled_lp \in Int
        /\ x.base_asset_amount_with_amm \in Int /\ x.base_asset_amount_with_unsettled_lp \in Int
    BY TotalNumbers
  <2> QED
    BY <1>5, <2>1 DEF NetBase
<1> QED
  BY <1>4, <1>5, <1>6, <1>7 DEF Booked

LEMMA PerLpTypes ==
  ASSUME NEW m, Market(m), NEW d, d.base \in Int, d.quote \in Int, NEW fee \in Int, NEW split,
         m.user_lp_shares > 0
  PROVE  LET per_lp == calculate_per_lp_delta(m, d, fee, split)
         IN  /\ per_lp.base \in Int /\ per_lp.quote \in Int /\ per_lp.fee \in Int
             /\ calculate_lp_base_delta(m, per_lp.base) \in Int
             /\ calculate_lp_base_delta(m, per_lp.quote) \in Int
<1> DEFINE unit == get_per_lp_base_unit(m)
           shares == TotalLpShares(m, split)
           base == get_proportion_i128(d.base, unit, shares)
           quote == get_proportion_i128(d.quote, unit, shares)
           slice == get_proportion_i128(fee, LP_FEE_SLICE_NUMERATOR, LP_FEE_SLICE_DENOMINATOR)
           part == (slice * unit) \div shares
           per_lp == calculate_per_lp_delta(m, d, fee, split)
<1>1. unit \in Nat \ {0} /\ unit \in Int
  BY UnitPositive
<1>2. shares \in Nat \ {0} /\ m.user_lp_shares \in Int
  BY MarketNumbers DEF TotalLpShares
<1>3. per_lp = [base |-> base, quote |-> quote + (IF base < 0 THEN 1 ELSE 0),
                fee |-> IF fee > 0 THEN part ELSE 0]
  BY DEF calculate_per_lp_delta
<1>4. slice \in Int
  BY OtherConstants, ProportionTypes
<1> HIDE DEF unit, shares, slice
<1>5. base \in Int /\ quote \in Int
  BY <1>1, <1>2, ProportionTypes
<1>6. part \in Int
  BY <1>1, <1>2, <1>4, ProductOver
<1> HIDE DEF base, quote, part, per_lp
<1>7. per_lp.base \in Int /\ per_lp.quote \in Int /\ per_lp.fee \in Int
  BY <1>3, <1>5, <1>6
<1>8. /\ calculate_lp_base_delta(m, per_lp.base) \in Int
      /\ calculate_lp_base_delta(m, per_lp.quote) \in Int
  BY <1>1, <1>2, <1>7, ProportionTypes DEF calculate_lp_base_delta, unit
<1> QED
  BY <1>7, <1>8 DEF per_lp

LEMMA LpsTake ==
  ASSUME NEW m, Market(m), NEW d, d.base \in Int, d.quote \in Int, NEW fee \in Int, NEW split,
         NEW p, Position(p)
  PROVE  Booked(m, p, update_lp_market_position(m, d, fee, split), p, 0)
<1>1. CASE m.user_lp_shares = 0 \/ split = "ProtocolOwned"
  <2>1. update_lp_market_position(m, d, fee, split) = m
    BY <1>1 DEF update_lp_market_position
  <2> QED
    BY <2>1, BookedNot
<1>2. CASE ~(m.user_lp_shares = 0 \/ split = "ProtocolOwned")
  <2> DEFINE per_lp == calculate_per_lp_delta(m, d, fee, split)
             taken == calculate_lp_base_delta(m, per_lp.base)
             quote == calculate_lp_base_delta(m, per_lp.quote)
             a == m.base_asset_amount_per_lp - per_lp.base
             b == m.quote_asset_amount_per_lp - per_lp.quote + per_lp.fee
             c == m.base_asset_amount_with_amm - taken
             e == m.base_asset_amount_with_unsettled_lp + taken
             g == m.quote_asset_amount_with_unsettled_lp + quote
             x == [m EXCEPT !.base_asset_amount_per_lp = a,
                            !.quote_asset_amount_per_lp = b,
                            !.base_asset_amount_with_amm = c,
                            !.base_asset_amount_with_unsettled_lp = e,
                            !.quote_asset_amount_with_unsettled_lp = g]
             S == {"base_asset_amount_per_lp", "quote_asset_amount_per_lp",
                   "base_asset_amount_with_amm", "base_asset_amount_with_unsettled_lp",
                   "quote_asset_amount_with_unsettled_lp"}
  <2>1. m.user_lp_shares > 0
    BY <1>2, MarketNumbers
  <2>2. per_lp.base \in Int /\ per_lp.quote \in Int /\ per_lp.fee \in Int
        /\ taken \in Int /\ quote \in Int
    BY <2>1, PerLpTypes
  <2>3. DOMAIN m = Fields /\ m = [f \in Fields |-> m[f]]
    BY MarketNumbers
  <2>4. S \subseteq Fields /\ S \subseteq PlainFields
    BY DEF Fields, IntegerFields, LedgerFields, OtherFields, PlainFields
  <2>5. update_lp_market_position(m, d, fee, split) = x
    BY <1>2, <2>3, <2>4 DEF update_lp_market_position
  <2> HIDE DEF per_lp, taken, quote
  <2>6. /\ m.base_asset_amount_per_lp \in Int /\ m.quote_asset_amount_per_lp \in Int
        /\ m.base_asset_amount_with_amm \in Int /\ m.base_asset_amount_with_unsettled_lp \in Int
        /\ m.quote_asset_amount_with_unsettled_lp \in Int
    BY LpNumbers, TotalNumbers
  <2>7. a \in Int /\ b \in Int /\ c \in Int /\ e \in Int /\ g \in Int
    BY <2>2, <2>6
  <2>8. c + e + 0 = m.base_asset_amount_with_amm + m.base_asset_amount_with_unsettled_lp
    BY <2>2, <2>6
  <2> HIDE DEF a, b, c, e, g
  <2>9. /\ Changed(m, x, S) /\ x.base_asset_amount_per_lp = a /\ x.quote_asset_amount_per_lp = b
        /\ x.base_asset_amount_with_amm = c /\ x.base_asset_amount_with_unsettled_lp = e
        /\ x.quote_asset_amount_with_unsettled_lp = g
    BY <2>3, <2>4 DEF Changed
  <2> HIDE DEF x
  <2>10. \A f \in S : x[f] \in Int
    BY <2>7, <2>9
  <2>11. Market(x)
    BY <2>4, <2>9, <2>10, PlainMarket
  <2>12. S \cap (KeptFields \cup CountedFields) = {}
    BY DEF KeptFields, CountedFields
  <2>13. Booked(m, p, x, p, 0)
    BY <2>8, <2>9, <2>11, <2>12, MarketBooked
  <2> QED
    BY <2>5, <2>13
<1> QED
  BY <1>1, <1>2

(* Whether k may change depends on the curve alone.                        *)
LEMMA SameK ==
  ASSUME NEW m, NEW x, x.status = m.status, x.sqrt_k = m.sqrt_k,
         x.base_asset_reserve = m.base_asset_reserve,
         x.base_asset_amount_with_amm = m.base_asset_amount_with_amm, NEW k, NEW bound_update,
         UpdateKValid(m, k, bound_update)
  PROVE  UpdateKValid(x, k, bound_update)
BY DEF UpdateKValid, KRatio, KResultValid, get_update_k_result

LEMMA LedgerSameK ==
  ASSUME NEW m, Market(m), NEW x, Changed(m, x, LedgerFields)
  PROVE  /\ x.status = m.status /\ x.sqrt_k = m.sqrt_k
         /\ x.base_asset_reserve = m.base_asset_reserve
         /\ x.base_asset_amount_with_amm = m.base_asset_amount_with_amm
         /\ x.user_lp_shares = m.user_lp_shares
         /\ x.per_lp_base = m.per_lp_base
<1>1. DOMAIN m = Fields
  BY MarketNumbers
<1>2. {"status", "sqrt_k", "base_asset_reserve", "base_asset_amount_with_amm", "user_lp_shares",
       "per_lp_base"} \subseteq Fields \ LedgerFields
  BY DEF Fields, IntegerFields, CurveFields, OtherFields, LedgerFields
<1> QED
  BY <1>1, <1>2 DEF Changed

LEMMA SharesBooked ==
  ASSUME NEW m, NEW p, Market(m), Position(p), NEW x, Changed(m, x, {"user_lp_shares"}),
         NEW y, Changed(p, y, {"lp_shares"}), NEW n \in Int,
         x.user_lp_shares = m.user_lp_shares + n, x.user_lp_shares >= 0,
         y.lp_shares = p.lp_shares + n, y.lp_shares >= 0
  PROVE  Booked(m, p, x, y, 0) /\ SameFunding(p, y)
<1> DEFINE S == {"user_lp_shares"}
           U == {"lp_shares"}
<1>1. DOMAIN m = Fields /\ m.user_lp_shares \in Int /\ p.lp_shares \in Int
  BY MarketNumbers, PositionNumbers
<1>2. S \subseteq IntegerFields /\ U \subseteq PositionFields
  BY DEF IntegerFields, OtherFields, PositionFields
<1>3. x.user_lp_shares \in Int /\ y.lp_shares \in Int
  BY <1>1
<1>4. Typed(x)
  BY <1>2, <1>3, ChangedTyped DEF Market
<1>5. {"base_asset_reserve", "quote_asset_reserve", "sqrt_k", "concentration_coef",
       "long_spread", "short_spread", "total_social_loss", "per_lp_base",
       "base_asset_amount_long", "base_asset_amount_short", "revenue_withdraw_since_last_settle"}
         \subseteq Fields \ S
  BY DEF Fields, IntegerFields, CurveFields, LedgerFields, OtherFields
<1>6. Market(x)
  BY <1>1, <1>4, <1>5 DEF Changed, Market, Curved
<1>7. /\ y.base_asset_amount = p.base_asset_amount
      /\ y.remainder_base_asset_amount = p.remainder_base_asset_amount
      /\ y.quote_asset_amount = p.quote_asset_amount
      /\ y.quote_entry_amount = p.quote_entry_amount
      /\ y.quote_break_even_amount = p.quote_break_even_amount
      /\ y.last_cumulative_funding_rate = p.last_cumulative_funding_rate
  BY PositionKeeps
<1>8. Position(y)
  <2>1. /\ Multiple(y.base_asset_amount) /\ y.remainder_base_asset_amount < order_step_size
        /\ y.remainder_base_asset_amount > -order_step_size
    BY <1>7 DEF Position
  <2> QED
    BY <1>2, <1>3, <2>1, PositionChanged
<1>9. KeptFields \cup (TotalFields \ S) \subseteq Fields \ S
  BY DEF KeptFields, TotalFields, Fields, IntegerFields, LedgerFields, OtherFields
<1>10. \A f \in KeptFields \cup (TotalFields \ S) : x[f] = m[f]
  BY <1>1, <1>9 DEF Changed
<1>11. \A f \in KeptFields : x[f] = m[f]
  BY <1>10
<1>12. /\ x.base_asset_amount_long = m.base_asset_amount_long
       /\ x.base_asset_amount_short = m.base_asset_amount_short
       /\ x.quote_asset_amount = m.quote_asset_amount
       /\ x.quote_entry_amount_long = m.quote_entry_amount_long
       /\ x.quote_entry_amount_short = m.quote_entry_amount_short
       /\ x.quote_break_even_amount_long = m.quote_break_even_amount_long
       /\ x.quote_break_even_amount_short = m.quote_break_even_amount_short
       /\ x.number_of_users_with_base = m.number_of_users_with_base
       /\ x.base_asset_amount_with_amm = m.base_asset_amount_with_amm
       /\ x.base_asset_amount_with_unsettled_lp = m.base_asset_amount_with_unsettled_lp
  BY <1>10 DEF TotalFields
<1>13. HoldsBase(y) = HoldsBase(p) /\ HoldsBase(p) \in Int /\ NetBase(m) \in Int
       /\ m.number_of_users_with_base \in Int
  BY <1>7, TotalNumbers DEF HoldsBase, NoBase
<1>14. NetBase(x) = NetBase(m) + 0
  BY <1>12, <1>13 DEF NetBase
<1>15. x.user_lp_shares + p.lp_shares = m.user_lp_shares + y.lp_shares
  BY <1>1
<1>16. x.number_of_users_with_base + HoldsBase(p) >= m.number_of_users_with_base + HoldsBase(y)
  BY <1>12, <1>13
<1> QED
  BY <1>6, <1>7, <1>8, <1>11, <1>12, <1>14, <1>15, <1>16 DEF Booked, SameFunding

(* Shares are minted on the market and the position alike.                 *)
LEMMA MintBooked ==
  ASSUME NEW m, NEW p, Market(m), Position(p), NEW n \in Nat, UpdateKValid(m, m.sqrt_k + n, TRUE)
  PROVE  LET r == MintShares([m |-> m, p |-> p], n)
         IN  Booked(m, p, r.m, r.p, 0) /\ SameFunding(p, r.p)
<1> DEFINE k == m.sqrt_k + n
           v == update_k(m, get_update_k_result(m, k))
           a == v.user_lp_shares + n
           b == p.lp_shares + n
           x == [v EXCEPT !.user_lp_shares = a]
           y == [p EXCEPT !.lp_shares = b]
           r == MintShares([m |-> m, p |-> p], n)
           z == 0
<1>1. k \in Int
  BY MarketNumbers
<1>2. r.m = [v EXCEPT !.user_lp_shares = @ + n] /\ r.p = [p EXCEPT !.lp_shares = @ + n]
  BY DEF MintShares, UpdateLpShares
<1>3. UpdateKValid(m, k, TRUE)
  OBVIOUS
<1> HIDE DEF k
<1>4. Moved(m, v)
  BY <1>1, <1>3, NewKMoves
<1> HIDE DEF v
<1>5. Booked(m, p, v, p, 0) /\ Market(v)
  BY <1>4, MovedBooked DEF Moved
<1>6. DOMAIN v = Fields /\ v = [f \in Fields |-> v[f]] /\ v.user_lp_shares \in Nat
  BY <1>5, MarketNumbers
<1>7. DOMAIN p = PositionFields /\ p = [f \in PositionFields |-> p[f]] /\ p.lp_shares \in Nat
  BY PositionNumbers
<1>8. "user_lp_shares" \in Fields /\ "lp_shares" \in PositionFields
  BY DEF Fields, IntegerFields, OtherFields, PositionFields
<1>9. r.m = x /\ r.p = y
  BY <1>2, <1>6, <1>7, <1>8
<1>10. a = v.user_lp_shares + n /\ b = p.lp_shares + n /\ a >= 0 /\ b >= 0
  BY <1>6, <1>7
<1> HIDE DEF a, b
<1>11. Changed(v, x, {"user_lp_shares"}) /\ x.user_lp_shares = a
  BY <1>6, <1>8 DEF Changed
<1>12. Changed(p, y, {"lp_shares"}) /\ y.lp_shares = b
  BY <1>7, <1>8 DEF Changed
<1> HIDE DEF x, y, r
<1>13. Booked(v, p, x, y, 0) /\ SameFunding(p, y)
  BY <1>5, <1>10, <1>11, <1>12, SharesBooked
<1>14. z \in Int /\ z + z = 0 /\ Booked(m, p, v, p, z) /\ Booked(v, p, x, y, z)
  BY <1>5, <1>13
<1> HIDE DEF z
<1>15. Booked(m, p, x, y, z + z)
  BY <1>14, BookedTwice
<1> QED
  BY <1>9, <1>13, <1>14, <1>15 DEF r

LEMMA BookedOnward ==
  ASSUME NEW m, NEW p, Market(m), Position(p), NEW x, NEW y, Booked(m, p, x, y, 0),
         NEW v, NEW w, NEW b \in Int, Booked(x, y, v, w, b)
  PROVE  Booked(m, p, v, w, b)
<1> DEFINE z == 0
<1>1. z \in Int /\ z + b = b /\ Booked(m, p, x, y, z)
  OBVIOUS
<1> HIDE DEF z
<1>2. Booked(m, p, v, w, z + b)
  BY <1>1, BookedTwice
<1> QED
  BY <1>1, <1>2

LEMMA BookedLast ==
  ASSUME NEW m, NEW p, Market(m), Position(p), NEW x, NEW y, NEW b \in Int, Booked(m, p, x, y, b),
         NEW v, NEW w, Booked(x, y, v, w, 0)
  PROVE  Booked(m, p, v, w, b)
<1> DEFINE z == 0
<1>1. z \in Int /\ b + z = b /\ Booked(x, y, v, w, z)
  OBVIOUS
<1> HIDE DEF z
<1>2. Booked(m, p, v, w, b + z)
  BY <1>1, BookedTwice
<1> QED
  BY <1>1, <1>2

LEMMA FundingKept ==
  ASSUME NEW m, NEW p, NEW x, NEW y, NEW b, Booked(m, p, x, y, b), SameFunding(p, y)
  PROVE  FundingUpToDate(m, p) => FundingUpToDate(x, y)
<1>1. CumulativeFundingRate(x, p.base_asset_amount) = CumulativeFundingRate(m, p.base_asset_amount)
  BY RateKept DEF Booked
<1> QED
  BY <1>1 DEF FundingUpToDate, SameFunding

LEMMA SharesMinted ==
  ASSUME NEW m, NEW p, Market(m), Position(p), FundingUpToDate(m, p), NEW n \in Nat,
         UpdateKValid(m, m.sqrt_k + n, TRUE)
  PROVE  LET r == mint_lp_shares(m, p, n)
         IN  Booked(m, p, r.m, r.p, 0) /\ FundingUpToDate(r.m, r.p)
<1> DEFINE q == FollowLpTotals(m, p)
           w == [q EXCEPT !.per_lp_base = m.per_lp_base]
           a == IF p.lp_shares > 0 THEN settle_lp_position(m, p) ELSE [m |-> m, p |-> w]
           r == mint_lp_shares(m, p, n)
<1>1. r = MintShares(a, n)
  BY DEF mint_lp_shares
<1>2. Position(w) /\ SameCounted(p, w) /\ SameFunding(p, w)
  <2>1. Position(q) /\ SameCounted(p, q) /\ SameFunding(p, q)
    BY TotalsFollowed
  <2>2. DOMAIN q = PositionFields /\ q = [f \in PositionFields |-> q[f]] /\ m.per_lp_base \in Int
    BY <2>1, PositionNumbers, LpNumbers
  <2> HIDE DEF q
  <2> DEFINE U == {"per_lp_base"}
  <2>3. U \subseteq UncountedFields /\ U \subseteq PositionFields
    BY DEF UncountedFields, PositionFields
  <2>4. Changed(q, w, U) /\ w.per_lp_base = m.per_lp_base
    BY <2>2, <2>3 DEF Changed
  <2> HIDE DEF w
  <2>5. \A f \in U : w[f] \in Int
    BY <2>2, <2>4
  <2>6. Position(w) /\ SameCounted(q, w)
    BY <2>1, <2>3, <2>4, <2>5, Uncounted
  <2>7. SameFunding(q, w)
    BY <2>1, <2>4, PositionKeeps DEF SameFunding
  <2> QED
    BY <2>1, <2>6, <2>7 DEF SameCounted, SameFunding
<1>3. /\ Booked(m, p, a.m, a.p, 0) /\ FundingUpToDate(a.m, a.p)
      /\ UpdateKValid(a.m, a.m.sqrt_k + n, TRUE)
      /\ a = [m |-> a.m, p |-> a.p]
  <2>1. CASE p.lp_shares > 0
    <3> DEFINE b == settle_lp_position(m, p)
    <3>1. a = b
      BY <2>1
    <3>2. /\ Booked(m, p, b.m, b.p, 0) /\ FundingUpToDate(b.m, b.p)
          /\ Changed(m, b.m, LedgerFields) /\ b = [m |-> b.m, p |-> b.p]
      BY LpBooked
    <3> HIDE DEF b
    <3>3. /\ b.m.status = m.status /\ b.m.sqrt_k = m.sqrt_k
          /\ b.m.base_asset_reserve = m.base_asset_reserve
          /\ b.m.base_asset_amount_with_amm = m.base_asset_amount_with_amm
      BY <3>2, LedgerSameK
    <3>4. UpdateKValid(b.m, m.sqrt_k + n, TRUE)
      BY <3>3, SameK
    <3>5. UpdateKValid(b.m, b.m.sqrt_k + n, TRUE)
      BY <3>3, <3>4
    <3> QED
      BY <3>1, <3>2, <3>5
  <2>2. CASE ~(p.lp_shares > 0)
    <3> HIDE DEF w
    <3>1. a = [m |-> m, p |-> w]
      BY <2>2
    <3>2. a.m = m /\ a.p = w
      BY <3>1
    <3>3. Booked(m, p, m, w, 0)
      BY <1>2, BookedNot, BookedTo
    <3>4. FundingUpToDate(m, w)
      BY <1>2 DEF FundingUpToDate, SameFunding
    <3> QED
      BY <3>1, <3>2, <3>3, <3>4
  <2> QED
    BY <2>1, <2>2
<1> HIDE DEF a, r
<1>4. Market(a.m) /\ Position(a.p)
  BY <1>3 DEF Booked
<1>5. r = MintShares([m |-> a.m, p |-> a.p], n)
  BY <1>1, <1>3
<1>6. Booked(a.m, a.p, r.m, r.p, 0) /\ SameFunding(a.p, r.p)
  BY <1>3, <1>4, <1>5, MintBooked
<1>7. Booked(m, p, r.m, r.p, 0)
  BY <1>3, <1>6, BookedOnward
<1>8. FundingUpToDate(r.m, r.p)
  BY <1>3, <1>6, FundingKept
<1> QED
  BY <1>7, <1>8 DEF r

LEMMA RemainderBooked ==
  ASSUME NEW m, NEW p, Market(m), Position(p), NEW remainder \in Int, NEW price \in Int
  PROVE  LET r == BurnRemainder(m, p, remainder, price)
         IN  /\ Booked(m, p, r.m, r.p, 0) /\ SameFunding(p, r.p)
             /\ r.p.lp_shares = p.lp_shares /\ r.m.user_lp_shares = m.user_lp_shares
             /\ r.m.sqrt_k = m.sqrt_k /\ r = [m |-> r.m, p |-> r.p]
<1> DEFINE z == 0
           y == [p EXCEPT !.remainder_base_asset_amount = z]
           a == m.base_asset_amount_with_amm - remainder
           b == m.base_asset_amount_with_unsettled_lp + remainder
           x == [m EXCEPT !.base_asset_amount_with_amm = a,
                          !.base_asset_amount_with_unsettled_lp = b]
           value == calculate_base_asset_value_with_oracle_price(remainder, price)
           dust == -(value + 1)
           v == update_quote_asset_amount(x, y, dust)
           r == BurnRemainder(m, p, remainder, price)
           U == {"remainder_base_asset_amount"}
           S == {"base_asset_amount_with_amm", "base_asset_amount_with_unsettled_lp"}
<1>1. DOMAIN m = Fields /\ m = [f \in Fields |-> m[f]] /\ S \subseteq Fields /\ S \subseteq PlainFields
      /\ {"user_lp_shares", "sqrt_k"} \subseteq Fields \ S
  BY MarketNumbers DEF Fields, IntegerFields, LedgerFields, OtherFields, CurveFields, PlainFields
<1>2. DOMAIN p = PositionFields /\ p = [f \in PositionFields |-> p[f]] /\ U \subseteq PositionFields
  BY PositionNumbers DEF PositionFields
<1>3. r = IF remainder = 0 THEN [m |-> m, p |-> y] ELSE v
  BY <1>1 DEF BurnRemainder
<1>4. z \in Int /\ z < order_step_size /\ z > -order_step_size
  BY StepPositive
<1> HIDE DEF r
<1>5. Changed(p, y, U) /\ y.remainder_base_asset_amount = z
  BY <1>2 DEF Changed
<1> HIDE DEF z
<1>6. z = 0
  BY DEF z
<1> HIDE DEF y
<1>7. /\ y.base_asset_amount = p.base_asset_amount /\ y.lp_shares = p.lp_shares
      /\ y.quote_asset_amount = p.quote_asset_amount
      /\ y.quote_entry_amount = p.quote_entry_amount
      /\ y.quote_break_even_amount = p.quote_break_even_amount
      /\ y.last_cumulative_funding_rate = p.last_cumulative_funding_rate
  BY <1>5, PositionKeeps
<1>8. Position(y)
  <2>1. \A f \in U : y[f] \in Int
    BY <1>4, <1>5
  <2>2. y.lp_shares >= 0 /\ Multiple(y.base_asset_amount)
    BY <1>7 DEF Position
  <2> QED
    BY <1>2, <1>4, <1>5, <2>1, <2>2, PositionChanged
<1>9. Booked(m, p, m, y, 0)
  <2>1. HoldsBase(p) \in {0, 1} /\ HoldsBase(y) \in {0, 1} /\ HoldsBase(p) >= HoldsBase(y)
    BY <1>5, <1>6, <1>7 DEF HoldsBase, NoBase
  <2>2. m.number_of_users_with_base \in Int /\ NetBase(m) \in Int
    BY TotalNumbers
  <2>3. m.number_of_users_with_base + HoldsBase(p) >= m.number_of_users_with_base + HoldsBase(y)
    BY <2>1, <2>2
  <2>4. NetBase(m) = NetBase(m) + 0
    BY <2>2
  <2> QED
    BY <1>7, <1>8, <2>3, <2>4 DEF Booked
<1>10. SameFunding(p, y)
  BY <1>7 DEF SameFunding
<1>11. CASE remainder = 0
  <2>1. r = [m |-> m, p |-> y]
    BY <1>3, <1>11
  <2>2. r.m = m /\ r.p = y
    BY <2>1
  <2> QED
    BY <1>7, <1>9, <1>10, <2>1, <2>2 DEF r
<1>12. CASE remainder # 0
  <2>1. a \in Int /\ b \in Int
        /\ a + b + 0 = m.base_asset_amount_with_amm + m.base_asset_amount_with_unsettled_lp
    BY TotalNumbers
  <2> HIDE DEF a, b
  <2>2. /\ Changed(m, x, S) /\ x.base_asset_amount_with_amm = a
        /\ x.base_asset_amount_with_unsettled_lp = b
        /\ x.user_lp_shares = m.user_lp_shares /\ x.sqrt_k = m.sqrt_k
    BY <1>1 DEF Changed
  <2> HIDE DEF x
  <2>3. \A f \in S : x[f] \in Int
    BY <2>1, <2>2
  <2>4. Market(x)
    BY <1>1, <2>2, <2>3, PlainMarket
  <2>5. S \cap (KeptFields \cup CountedFields) = {}
    BY DEF KeptFields, CountedFields
  <2>6. Booked(m, y, x, y, 0)
    BY <1>8, <2>1, <2>2, <2>4, <2>5, MarketBooked
  <2>7. dust \in Int
    <3>1. Abs(remainder) \in Int /\ AMM_RESERVE_PRECISION \in Nat \ {0}
      BY AbsType, CurveConstants
    <3>2. value \in Int
      BY <3>1, ProductOver DEF calculate_base_asset_value_with_oracle_price
    <3> HIDE DEF value
    <3> QED
      BY <3>2
  <2> HIDE DEF dust
  <2>8. Booked(x, y, v.m, v.p, 0) /\ SameFunding(y, v.p)
    BY <1>8, <2>4, <2>7, QuoteBooked
  <2>9. /\ v = [m |-> v.m, p |-> v.p]
        /\ (v.m = x \/ \E i, j : v.m = [x EXCEPT !.quote_asset_amount = i, !.number_of_users = j])
        /\ (v.p = y \/ \E i : v.p = [y EXCEPT !.quote_asset_amount = i])
    BY DEF update_quote_asset_amount
  <2> HIDE DEF v
  <2>10. v.m.user_lp_shares = m.user_lp_shares /\ v.m.sqrt_k = m.sqrt_k
    <3>1. DOMAIN x = Fields
      BY <2>4, MarketNumbers
    <3> QED
      BY <1>1, <2>2, <2>9, <3>1
  <2>11. v.p.lp_shares = p.lp_shares
    <3>1. DOMAIN y = PositionFields /\ "lp_shares" \in PositionFields
      BY <1>8, PositionNumbers DEF PositionFields
    <3> QED
      BY <1>7, <2>9, <3>1
  <2>12. Booked(m, p, x, y, 0)
    BY <1>8, <1>9, <2>6, BookedOnward
  <2>13. Booked(m, p, v.m, v.p, 0)
    BY <2>8, <2>12, BookedOnward
  <2>14. SameFunding(p, v.p)
    BY <1>10, <2>8 DEF SameFunding
  <2>15. r = v
    BY <1>3, <1>12
  <2> QED
    BY <2>9, <2>10, <2>11, <2>13, <2>14, <2>15 DEF r
<1> QED
  BY <1>11, <1>12

LEMMA BurnBooked ==
  ASSUME NEW m, NEW p, Market(m), Position(p), NEW n \in Nat, n <= p.lp_shares,
         n <= m.user_lp_shares, UpdateKValid(m, m.sqrt_k - n, FALSE)
  PROVE  LET r == BurnShares([m |-> m, p |-> p], n)
         IN  Booked(m, p, r.m, r.p, 0) /\ SameFunding(p, r.p)
<1> DEFINE a == m.user_lp_shares - n
           b == p.lp_shares - n
           i == -n
           v == [m EXCEPT !.user_lp_shares = a]
           y == [p EXCEPT !.lp_shares = b]
           k == v.sqrt_k - n
           x == update_k(v, get_update_k_result(v, k))
           r == BurnShares([m |-> m, p |-> p], n)
<1>1. DOMAIN m = Fields /\ m = [f \in Fields |-> m[f]] /\ m.user_lp_shares \in Nat /\ m.sqrt_k \in Nat
      /\ {"status", "sqrt_k", "base_asset_reserve", "base_asset_amount_with_amm"}
           \subseteq Fields \ {"user_lp_shares"}
      /\ "user_lp_shares" \in Fields
  BY MarketNumbers DEF Fields, IntegerFields, CurveFields, OtherFields
<1>2. DOMAIN p = PositionFields /\ p = [f \in PositionFields |-> p[f]] /\ p.lp_shares \in Nat
      /\ "lp_shares" \in PositionFields
  BY PositionNumbers DEF PositionFields
<1>3. r.m = x /\ r.p = y
  BY <1>1, <1>2 DEF BurnShares, ThinCurve
<1>4. /\ i \in Int /\ a = m.user_lp_shares + i /\ b = p.lp_shares + i /\ a >= 0 /\ b >= 0
  BY <1>1, <1>2
<1> HIDE DEF a, b, i, r, x
<1>5. /\ Changed(m, v, {"user_lp_shares"}) /\ v.user_lp_shares = a
      /\ v.status = m.status /\ v.sqrt_k = m.sqrt_k /\ v.base_asset_reserve = m.base_asset_reserve
      /\ v.base_asset_amount_with_amm = m.base_asset_amount_with_amm
  BY <1>1 DEF Changed
<1>6. Changed(p, y, {"lp_shares"}) /\ y.lp_shares = b
  BY <1>2 DEF Changed
<1> HIDE DEF v, y
<1>7. Booked(m, p, v, y, 0) /\ SameFunding(p, y)
  BY <1>4, <1>5, <1>6, SharesBooked
<1>8. Market(v) /\ Position(y)
  BY <1>7 DEF Booked
<1>9. k \in Int /\ UpdateKValid(v, k, FALSE)
  <2>1. k = m.sqrt_k - n /\ k \in Int
    BY <1>1, <1>5
  <2>2. UpdateKValid(m, k, FALSE)
    BY <2>1
  <2> HIDE DEF k
  <2> QED
    BY <1>5, <2>1, <2>2, SameK
<1> HIDE DEF k
<1>10. Moved(v, x)
  BY <1>8, <1>9, NewKMoves DEF x
<1>11. Booked(v, y, x, y, 0)
  BY <1>8, <1>10, MovedBooked
<1>12. Booked(m, p, x, y, 0)
  BY <1>7, <1>11, BookedOnward
<1> QED
  BY <1>3, <1>7, <1>12 DEF r

LEMMA SharesBurnt ==
  ASSUME NEW m, NEW p, Market(m), Position(p), FundingUpToDate(m, p), NEW n \in Nat,
         n <= p.lp_shares, n <= m.user_lp_shares, NEW price \in Int, BurnValid(m, p, n, price)
  PROVE  LET r == burn_lp_shares(m, p, n, price)
         IN  Booked(m, p, r.m, r.p, 0) /\ FundingUpToDate(r.m, r.p)
<1> DEFINE a == settle_lp_position(m, p)
           e == RemainderToBurn(a.m, a.p, n)
           c == BurnRemainder(a.m, a.p, e, price)
           r == burn_lp_shares(m, p, n, price)
<1>1. r = BurnShares(c, n)
  BY DEF burn_lp_shares, BurnSettled
<1>2. UpdateKValid(c.m, a.m.sqrt_k - n, FALSE)
  BY DEF BurnValid, BurnSettledValid
<1>3. /\ Booked(m, p, a.m, a.p, 0) /\ FundingUpToDate(a.m, a.p) /\ a.p.lp_shares = p.lp_shares
      /\ Changed(m, a.m, LedgerFields)
  BY LpBooked
<1> HIDE DEF a, r
<1>4. Market(a.m) /\ Position(a.p)
  BY <1>3 DEF Booked
<1>5. a.m.user_lp_shares = m.user_lp_shares
  BY <1>3, LedgerSameK
<1>6. e \in Int
  <2>1. a.p.remainder_base_asset_amount \in Int /\ a.m.base_asset_amount_with_unsettled_lp \in Int
    BY <1>4, PositionNumbers, TotalNumbers
  <2> QED
    BY <2>1 DEF RemainderToBurn, UnsettledRemainder
<1> HIDE DEF e
<1>7. /\ Booked(a.m, a.p, c.m, c.p, 0) /\ SameFunding(a.p, c.p)
      /\ c.p.lp_shares = a.p.lp_shares /\ c.m.user_lp_shares = a.m.user_lp_shares
      /\ c.m.sqrt_k = a.m.sqrt_k /\ c = [m |-> c.m, p |-> c.p]
  BY <1>4, <1>6, RemainderBooked
<1> HIDE DEF c
<1>8. Market(c.m) /\ Position(c.p)
  BY <1>7 DEF Booked
<1>9. n <= c.p.lp_shares /\ n <= c.m.user_lp_shares /\ UpdateKValid(c.m, c.m.sqrt_k - n, FALSE)
  BY <1>2, <1>3, <1>5, <1>7
<1>10. r = BurnShares([m |-> c.m, p |-> c.p], n)
  BY <1>1, <1>7
<1>11. Booked(c.m, c.p, r.m, r.p, 0) /\ SameFunding(c.p, r.p)
  BY <1>8, <1>9, <1>10, BurnBooked
<1>12. Booked(m, p, c.m, c.p, 0)
  BY <1>3, <1>7, BookedOnward
<1>13. Booked(m, p, r.m, r.p, 0)
  BY <1>11, <1>12, BookedOnward
<1>14. FundingUpToDate(c.m, c.p)
  BY <1>3, <1>7, FundingKept
<1>15. FundingUpToDate(r.m, r.p)
  BY <1>11, <1>14, FundingKept
<1> QED
  BY <1>13, <1>15 DEF r

(* A position after its funding and then its LP shares were settled.       *)
LEMMA FundingThenLpBooked ==
  ASSUME NEW m, NEW p, Market(m), Position(p)
  PROVE  LET r == settle_funding_payment_then_lp(m, p)
         IN  Booked(m, p, r.m, r.p, 0) /\ FundingUpToDate(r.m, r.p)
<1> DEFINE a == settle_funding_payment(m, p)
           r == settle_funding_payment_then_lp(m, p)
           c == settle_lp_position(a.m, a.p)
<1>1. r = IF a.p.lp_shares > 0 THEN c ELSE [m |-> a.m, p |-> a.p]
  BY DEF settle_funding_payment_then_lp, ThenSettleLp, settle_lp
<1>2. Booked(m, p, a.m, a.p, 0) /\ FundingUpToDate(a.m, a.p)
  BY FundingBooked
<1> HIDE DEF a, r
<1>3. Market(a.m) /\ Position(a.p)
  BY <1>2 DEF Booked
<1>4. Booked(a.m, a.p, c.m, c.p, 0) /\ FundingUpToDate(c.m, c.p)
  BY <1>2, <1>3, LpBooked
<1> HIDE DEF c
<1>5. Booked(m, p, c.m, c.p, 0)
  BY <1>2, <1>4, BookedOnward
<1>6. r = c \/ (r.m = a.m /\ r.p = a.p)
  BY <1>1
<1> QED
  BY <1>2, <1>4, <1>5, <1>6 DEF r

(***************************************************************************)
(* The market with all of its positions.                                   *)
(***************************************************************************)

LEMMA EmptyIsPosition == Position(EmptyPosition)
<1>1. /\ DOMAIN EmptyPosition = PositionFields
      /\ EmptyPosition = [f \in PositionFields |-> EmptyPosition[f]]
  BY DEF EmptyPosition, PositionFields
<1>2. \A f \in PositionFields : EmptyPosition[f] = 0
  BY DEF EmptyPosition, PositionFields
<1>3. order_step_size \in Nat \ {0}
  BY StepPositive
<1>4. 0 < order_step_size /\ 0 > -order_step_size
  BY <1>3
<1>5. /\ EmptyPosition.lp_shares = 0 /\ EmptyPosition.base_asset_amount = 0
      /\ EmptyPosition.remainder_base_asset_amount = 0
  BY <1>2 DEF PositionFields
<1> QED
  BY <1>1, <1>2, <1>4, <1>5, MultipleZero DEF Position

(* The totals of a market are those of its positions.                      *)
Bases(ps) == [u \in Users |-> ps[u].base_asset_amount]
QuotesOf(ps) == [u \in Users |-> ps[u].quote_asset_amount]
Entries(ps) == [u \in Users |-> ps[u].quote_entry_amount]
BreakEvens(ps) == [u \in Users |-> ps[u].quote_break_even_amount]
Shares(ps) == [u \in Users |-> ps[u].lp_shares]
Holders(ps) == [u \in Users |-> HoldsBase(ps[u])]

TotalsMatch(m, ps) ==
  /\ m.base_asset_amount_long + m.base_asset_amount_short = TotalOf(Bases(ps))
  /\ m.quote_asset_amount = TotalOf(QuotesOf(ps))
  /\ m.quote_entry_amount_long + m.quote_entry_amount_short = TotalOf(Entries(ps))
  /\ m.quote_break_even_amount_long + m.quote_break_even_amount_short = TotalOf(BreakEvens(ps))
  /\ m.user_lp_shares = TotalOf(Shares(ps))
  /\ m.number_of_users_with_base >= TotalOf(Holders(ps))

Sound(s) ==
  /\ s = [m |-> s.m, positions |-> s.positions]
  /\ Market(s.m)
  /\ s.positions = [u \in Users |-> s.positions[u]]
  /\ \A u \in Users : Position(s.positions[u])
  /\ TotalsMatch(s.m, s.positions)

LEMMA PositionTotals ==
  ASSUME NEW ps, \A u \in Users : Position(ps[u])
  PROVE  /\ Bases(ps) \in [Users -> Int] /\ QuotesOf(ps) \in [Users -> Int]
         /\ Entries(ps) \in [Users -> Int] /\ BreakEvens(ps) \in [Users -> Int]
         /\ Shares(ps) \in [Users -> Int] /\ Shares(ps) \in [Users -> Nat]
         /\ Holders(ps) \in [Users -> Int] /\ Holders(ps) \in [Users -> Nat]
         /\ TotalOf(Bases(ps)) \in Int /\ TotalOf(QuotesOf(ps)) \in Int /\ TotalOf(Entries(ps)) \in Int
         /\ TotalOf(BreakEvens(ps)) \in Int /\ TotalOf(Shares(ps)) \in Int /\ TotalOf(Holders(ps)) \in Int
<1>1. IsFiniteSet(Users)
  BY EnvironmentAssumption DEF EnvironmentAssumption
<1>2. /\ Bases(ps) \in [Users -> Int] /\ QuotesOf(ps) \in [Users -> Int]
      /\ Entries(ps) \in [Users -> Int] /\ BreakEvens(ps) \in [Users -> Int]
      /\ Shares(ps) \in [Users -> Int] /\ Shares(ps) \in [Users -> Nat]
  BY PositionNumbers DEF Bases, QuotesOf, Entries, BreakEvens, Shares
<1>3. Holders(ps) \in [Users -> Int] /\ Holders(ps) \in [Users -> Nat]
  BY DEF Holders, HoldsBase
<1> QED
  BY <1>1, <1>2, <1>3, TotalType

(* The totals after one position changed.                                  *)
LEMMA TotalsStep ==
  ASSUME NEW s, Sound(s), NEW u \in Users, NEW x, NEW y, NEW shift, Booked(s.m, s.positions[u], x, y, shift)
  PROVE  Sound([m |-> x, positions |-> [s.positions EXCEPT ![u] = y]])
<1> DEFINE ps == s.positions
           qs == [ps EXCEPT ![u] = y]
           p == ps[u]
           m == s.m
<1>1. IsFiniteSet(Users)
  BY EnvironmentAssumption DEF EnvironmentAssumption
<1>2. Market(m) /\ Market(x) /\ Position(p) /\ Position(y)
  BY DEF Sound, Booked
<1>3. ps = [v \in Users |-> ps[v]]
  BY DEF Sound
<1>4. qs = [v \in Users |-> qs[v]] /\ qs[u] = y /\ \A v \in Users : v # u => qs[v] = ps[v]
  BY <1>3
<1>5. \A v \in Users : Position(ps[v])
  BY DEF Sound
<1> HIDE DEF qs
<1>6. \A v \in Users : Position(qs[v])
  BY <1>2, <1>4, <1>5
<1>7. /\ Bases(ps) \in [Users -> Int] /\ QuotesOf(ps) \in [Users -> Int]
      /\ Entries(ps) \in [Users -> Int] /\ BreakEvens(ps) \in [Users -> Int]
      /\ Shares(ps) \in [Users -> Int] /\ Holders(ps) \in [Users -> Int]
      /\ TotalOf(Bases(ps)) \in Int /\ TotalOf(QuotesOf(ps)) \in Int /\ TotalOf(Entries(ps)) \in Int
      /\ TotalOf(BreakEvens(ps)) \in Int /\ TotalOf(Shares(ps)) \in Int /\ TotalOf(Holders(ps)) \in Int
  BY <1>5, PositionTotals
<1>8. /\ Bases(qs) \in [Users -> Int] /\ QuotesOf(qs) \in [Users -> Int]
      /\ Entries(qs) \in [Users -> Int] /\ BreakEvens(qs) \in [Users -> Int]
      /\ Shares(qs) \in [Users -> Int] /\ Holders(qs) \in [Users -> Int]
  BY <1>6, PositionTotals
<1>9. /\ p.base_asset_amount \in Int /\ y.base_asset_amount \in Int
      /\ p.quote_asset_amount \in Int /\ y.quote_asset_amount \in Int
      /\ p.quote_entry_amount \in Int /\ y.quote_entry_amount \in Int
      /\ p.quote_break_even_amount \in Int /\ y.quote_break_even_amount \in Int
      /\ p.lp_shares \in Int /\ y.lp_shares \in Int
      /\ HoldsBase(p) \in Int /\ HoldsBase(y) \in Int
  BY <1>2, PositionNumbers DEF HoldsBase
<1>10. TotalOf(Bases(qs)) = TotalOf(Bases(ps)) - p.base_asset_amount + y.base_asset_amount
  <2>1. Bases(qs)[u] = y.base_asset_amount /\ Bases(ps)[u] = p.base_asset_amount
        /\ \A v \in Users : v # u => Bases(qs)[v] = Bases(ps)[v]
    BY <1>4 DEF Bases
  <2> QED
    BY <1>1, <1>7, <1>8, <2>1, TotalUpdate
<1>11. TotalOf(QuotesOf(qs)) = TotalOf(QuotesOf(ps)) - p.quote_asset_amount + y.quote_asset_amount
  <2>1. QuotesOf(qs)[u] = y.quote_asset_amount /\ QuotesOf(ps)[u] = p.quote_asset_amount
        /\ \A v \in Users : v # u => QuotesOf(qs)[v] = QuotesOf(ps)[v]
    BY <1>4 DEF QuotesOf
  <2> QED
    BY <1>1, <1>7, <1>8, <2>1, TotalUpdate
<1>12. TotalOf(Entries(qs)) = TotalOf(Entries(ps)) - p.quote_entry_amount + y.quote_entry_amount
  <2>1. Entries(qs)[u] = y.quote_entry_amount /\ Entries(ps)[u] = p.quote_entry_amount
        /\ \A v \in Users : v # u => Entries(qs)[v] = Entries(ps)[v]
    BY <1>4 DEF Entries
  <2> QED
    BY <1>1, <1>7, <1>8, <2>1, TotalUpdate
<1>13. TotalOf(BreakEvens(qs))
         = TotalOf(BreakEvens(ps)) - p.quote_break_even_amount + y.quote_break_even_amount
  <2>1. BreakEvens(qs)[u] = y.quote_break_even_amount /\ BreakEvens(ps)[u] = p.quote_break_even_amount
        /\ \A v \in Users : v # u => BreakEvens(qs)[v] = BreakEvens(ps)[v]
    BY <1>4 DEF BreakEvens
  <2> QED
    BY <1>1, <1>7, <1>8, <2>1, TotalUpdate
<1>14. TotalOf(Shares(qs)) = TotalOf(Shares(ps)) - p.lp_shares + y.lp_shares
  <2>1. Shares(qs)[u] = y.lp_shares /\ Shares(ps)[u] = p.lp_shares
        /\ \A v \in Users : v # u => Shares(qs)[v] = Shares(ps)[v]
    BY <1>4 DEF Shares
  <2> QED
    BY <1>1, <1>7, <1>8, <2>1, TotalUpdate
<1>15. TotalOf(Holders(qs)) = TotalOf(Holders(ps)) - HoldsBase(p) + HoldsBase(y)
  <2>1. Holders(qs)[u] = HoldsBase(y) /\ Holders(ps)[u] = HoldsBase(p)
        /\ \A v \in Users : v # u => Holders(qs)[v] = Holders(ps)[v]
    BY <1>4 DEF Holders
  <2> QED
    BY <1>1, <1>7, <1>8, <2>1, TotalUpdate
<1>16. /\ m.base_asset_amount_long \in Int /\ m.base_asset_amount_short \in Int
       /\ m.quote_asset_amount \in Int
       /\ m.quote_entry_amount_long \in Int /\ m.quote_entry_amount_short \in Int
       /\ m.quote_break_even_amount_long \in Int /\ m.quote_break_even_amount_short \in Int
       /\ m.user_lp_shares \in Int /\ m.number_of_users_with_base \in Int
  BY <1>2, TotalNumbers
<1>17. /\ x.base_asset_amount_long \in Int /\ x.base_asset_amount_short \in Int
       /\ x.quote_asset_amount \in Int
       /\ x.quote_entry_amount_long \in Int /\ x.quote_entry_amount_short \in Int
       /\ x.quote_break_even_amount_long \in Int /\ x.quote_break_even_amount_short \in Int
       /\ x.user_lp_shares \in Int /\ x.number_of_users_with_base \in Int
  BY <1>2, TotalNumbers
<1>18. x.base_asset_amount_long + x.base_asset_amount_short = TotalOf(Bases(qs))
  <2>1. x.base_asset_amount_long + x.base_asset_amount_short + p.base_asset_amount
          = m.base_asset_amount_long + m.base_asset_amount_short + y.base_asset_amount
    BY DEF Booked
  <2>2. m.base_asset_amount_long + m.base_asset_amount_short = TotalOf(Bases(ps))
    BY DEF Sound, TotalsMatch
  <2> DEFINE a == x.base_asset_amount_long + x.base_asset_amount_short
             b == m.base_asset_amount_long + m.base_asset_amount_short
             old == p.base_asset_amount
             new == y.base_asset_amount
             t == TotalOf(Bases(ps))
  <2>3. a \in Int /\ b \in Int /\ old \in Int /\ new \in Int /\ t \in Int
    BY <1>7, <1>9, <1>16, <1>17
  <2>4. a + old = b + new /\ b = t /\ TotalOf(Bases(qs)) = t - old + new
    BY <1>10, <2>1, <2>2
  <2> HIDE DEF a, b, old, new, t
  <2>5. a = TotalOf(Bases(qs))
    BY <2>3, <2>4
  <2> QED
    BY <2>5 DEF a
<1>19. x.quote_asset_amount = TotalOf(QuotesOf(qs))
  <2>1. x.quote_asset_amount + p.quote_asset_amount = m.quote_asset_amount + y.quote_asset_amount
    BY DEF Booked
  <2>2. m.quote_asset_amount = TotalOf(QuotesOf(ps))
    BY DEF Sound, TotalsMatch
  <2> DEFINE a == x.quote_asset_amount
             b == m.quote_asset_amount
             old == p.quote_asset_amount
             new == y.quote_asset_amount
             t == TotalOf(QuotesOf(ps))
  <2>3. a \in Int /\ b \in Int /\ old \in Int /\ new \in Int /\ t \in Int
    BY <1>7, <1>9, <1>16, <1>17
  <2>4. a + old = b + new /\ b = t /\ TotalOf(QuotesOf(qs)) = t - old + new
    BY <1>11, <2>1, <2>2
  <2> HIDE DEF a, b, old, new, t
  <2>5. a = TotalOf(QuotesOf(qs))
    BY <2>3, <2>4
  <2> QED
    BY <2>5 DEF a
<1>20. x.quote_entry_amount_long + x.quote_entry_amount_short = TotalOf(Entries(qs))
  <2>1. x.quote_entry_amount_long + x.quote_entry_amount_short + p.quote_entry_amount
          = m.quote_entry_amount_long + m.quote_entry_amount_short + y.quote_entry_amount
    BY DEF Booked
  <2>2. m.quote_entry_amount_long + m.quote_entry_amount_short = TotalOf(Entries(ps))
    BY DEF Sound, TotalsMatch
  <2> DEFINE a == x.quote_entry_amount_long + x.quote_entry_amount_short
             b == m.quote_entry_amount_long + m.quote_entry_amount_short
             old == p.quote_entry_amount
             new == y.quote_entry_amount
             t == TotalOf(Entries(ps))
  <2>3. a \in Int /\ b \in Int /\ old \in Int /\ new \in Int /\ t \in Int
    BY <1>7, <1>9, <1>16, <1>17
  <2>4. a + old = b + new /\ b = t /\ TotalOf(Entries(qs)) = t - old + new
    BY <1>12, <2>1, <2>2
  <2> HIDE DEF a, b, old, new, t
  <2>5. a = TotalOf(Entries(qs))
    BY <2>3, <2>4
  <2> QED
    BY <2>5 DEF a
<1>21. x.quote_break_even_amount_long + x.quote_break_even_amount_short = TotalOf(BreakEvens(qs))
  <2>1. x.quote_break_even_amount_long + x.quote_break_even_amount_short + p.quote_break_even_amount
          = m.quote_break_even_amount_long + m.quote_break_even_amount_short
              + y.quote_break_even_amount
    BY DEF Booked
  <2>2. m.quote_break_even_amount_long + m.quote_break_even_amount_short = TotalOf(BreakEvens(ps))
    BY DEF Sound, TotalsMatch
  <2> DEFINE a == x.quote_break_even_amount_long + x.quote_break_even_amount_short
             b == m.quote_break_even_amount_long + m.quote_break_even_amount_short
             old == p.quote_break_even_amount
             new == y.quote_break_even_amount
             t == TotalOf(BreakEvens(ps))
  <2>3. a \in Int /\ b \in Int /\ old \in Int /\ new \in Int /\ t \in Int
    BY <1>7, <1>9, <1>16, <1>17
  <2>4. a + old = b + new /\ b = t /\ TotalOf(BreakEvens(qs)) = t - old + new
    BY <1>13, <2>1, <2>2
  <2> HIDE DEF a, b, old, new, t
  <2>5. a = TotalOf(BreakEvens(qs))
    BY <2>3, <2>4
  <2> QED
    BY <2>5 DEF a
<1>22. x.user_lp_shares = TotalOf(Shares(qs))
  <2>1. x.user_lp_shares + p.lp_shares = m.user_lp_shares + y.lp_shares
    BY DEF Booked
  <2>2. m.user_lp_shares = TotalOf(Shares(ps))
    BY DEF Sound, TotalsMatch
  <2> DEFINE a == x.user_lp_shares
             b == m.user_lp_shares
             old == p.lp_shares
             new == y.lp_shares
             t == TotalOf(Shares(ps))
  <2>3. a \in Int /\ b \in Int /\ old \in Int /\ new \in Int /\ t \in Int
    BY <1>7, <1>9, <1>16, <1>17
  <2>4. a + old = b + new /\ b = t /\ TotalOf(Shares(qs)) = t - old + new
    BY <1>14, <2>1, <2>2
  <2> HIDE DEF a, b, old, new, t
  <2>5. a = TotalOf(Shares(qs))
    BY <2>3, <2>4
  <2> QED
    BY <2>5 DEF a
<1>23. x.number_of_users_with_base >= TotalOf(Holders(qs))
  <2>1. x.number_of_users_with_base + HoldsBase(p) >= m.number_of_users_with_base + HoldsBase(y)
    BY DEF Booked
  <2>2. m.number_of_users_with_base >= TotalOf(Holders(ps))
    BY DEF Sound, TotalsMatch
  <2> QED
    BY <1>7, <1>9, <1>15, <1>16, <1>17, <2>1, <2>2
<1> DEFINE z == [m |-> x, positions |-> qs]
<1>24. z.m = x /\ z.positions = qs /\ z = [m |-> z.m, positions |-> z.positions]
  OBVIOUS
<1> HIDE DEF z
<1>25. TotalsMatch(x, qs)
  BY <1>18, <1>19, <1>20, <1>21, <1>22, <1>23 DEF TotalsMatch
<1>26. Sound(z)
  BY <1>2, <1>4, <1>6, <1>24, <1>25 DEF Sound
<1> QED
  BY <1>26 DEF z, qs

(* The state s that a handler has reached from t: it kept the status, the  *)
(* rates and the pools, its net base differs by n from what the AMM and LPs*)
(* hold, the users in U owe no funding and the others what they owed.      *)
Reached(t, s, U, n) ==
  /\ Sound(s)
  /\ \A f \in KeptFields : s.m[f] = t.m[f]
  /\ NetBase(s.m) = n
  /\ \A u \in Users : u \in U => FundingUpToDate(s.m, s.positions[u])
  /\ \A u \in Users : u \notin U => SameFunding(t.positions[u], s.positions[u])

LEMMA ReachedNow ==
  ASSUME NEW t, Sound(t), NetBase(t.m) = 0
  PROVE  Reached(t, t, {}, 0)
BY DEF Reached, SameFunding

LEMMA ReachedParts ==
  ASSUME NEW t, NEW s, NEW U, NEW n, Reached(t, s, U, n)
  PROVE  /\ Sound(s) /\ s = [m |-> s.m, positions |-> s.positions] /\ Market(s.m)
         /\ \A u \in Users : Position(s.positions[u])
         /\ \A u \in Users \cap U : FundingUpToDate(s.m, s.positions[u])
         /\ s.positions = [u \in Users |-> s.positions[u]]
BY DEF Reached, Sound

(* One user's position changed and its funding is settled.                 *)
LEMMA ReachedUser ==
  ASSUME NEW t, NEW s, NEW U, NEW n, Reached(t, s, U, n), NEW u \in Users, NEW r, NEW b,
         Booked(s.m, s.positions[u], r.m, r.p, b), FundingUpToDate(r.m, r.p)
  PROVE  Reached(t, With(s, u, r), U \cup {u}, n + b)
<1> DEFINE z == With(s, u, r)
<1>1. Sound(z)
  BY TotalsStep DEF Reached, With
<1>2. s.positions = [v \in Users |-> s.positions[v]]
  BY DEF Reached, Sound
<1>3. z.m = r.m /\ z.positions[u] = r.p /\ \A v \in Users : v # u => z.positions[v] = s.positions[v]
  BY <1>2 DEF With
<1> HIDE DEF z
<1>4. (\A f \in KeptFields : z.m[f] = s.m[f]) /\ NetBase(z.m) = n + b
  BY <1>3 DEF Booked, Reached
<1>5. \A f \in KeptFields : z.m[f] = t.m[f]
  BY <1>4 DEF Reached
<1>6. ASSUME NEW v \in Users, v \in U \cup {u}
      PROVE  FundingUpToDate(z.m, z.positions[v])
  <2>1. CASE v = u
    BY <1>3, <2>1
  <2>2. CASE v # u
    <3>1. FundingUpToDate(s.m, z.positions[v])
      BY <1>3, <1>6, <2>2 DEF Reached
    <3> QED
      BY <1>4, <3>1, RateKept DEF FundingUpToDate
  <2> QED
    BY <2>1, <2>2
<1>7. \A v \in Users : v \notin U \cup {u} => SameFunding(t.positions[v], z.positions[v])
  BY <1>3 DEF Reached
<1>8. Reached(t, z, U \cup {u}, n + b)
  BY <1>1, <1>4, <1>5, <1>6, <1>7 DEF Reached
<1> QED
  BY <1>8 DEF z

(* The same when nothing moved between the users and the AMM.              *)
LEMMA ReachedSettled ==
  ASSUME NEW t, NEW s, NEW U, NEW n \in Int, Reached(t, s, U, n), NEW u \in Users, NEW r,
         Booked(s.m, s.positions[u], r.m, r.p, 0), FundingUpToDate(r.m, r.p)
  PROVE  Reached(t, With(s, u, r), U \cup {u}, n)
<1> DEFINE z == 0
<1>1. n + z = n /\ Booked(s.m, s.positions[u], r.m, r.p, z)
  OBVIOUS
<1> HIDE DEF z
<1>2. Reached(t, With(s, u, r), U \cup {u}, n + z)
  BY <1>1, ReachedUser
<1> QED
  BY <1>1, <1>2

(* One user's position changed, and not the funding it owes.               *)
LEMMA ReachedPaid ==
  ASSUME NEW t, NEW s, NEW U, NEW n \in Int, Reached(t, s, U, n), NEW u \in Users, NEW r,
         Booked(s.m, s.positions[u], r.m, r.p, 0), SameFunding(s.positions[u], r.p)
  PROVE  Reached(t, With(s, u, r), U, n)
<1> DEFINE z == With(s, u, r)
<1>1. Sound(z)
  BY TotalsStep DEF Reached, With
<1>2. s.positions = [v \in Users |-> s.positions[v]]
  BY DEF Reached, Sound
<1>3. z.m = r.m /\ z.positions[u] = r.p /\ \A v \in Users : v # u => z.positions[v] = s.positions[v]
  BY <1>2 DEF With
<1> HIDE DEF z
<1>4. (\A f \in KeptFields : z.m[f] = s.m[f]) /\ NetBase(z.m) = n + 0
  BY <1>3 DEF Booked, Reached
<1>5. \A f \in KeptFields : z.m[f] = t.m[f]
  BY <1>4 DEF Reached
<1>6. \A v \in Users : SameFunding(s.positions[v], z.positions[v])
  BY <1>3 DEF SameFunding
<1>7. ASSUME NEW v \in Users, v \in U
      PROVE  FundingUpToDate(z.m, z.positions[v])
  <2>1. FundingUpToDate(s.m, s.positions[v])
    BY <1>7 DEF Reached
  <2>2. CumulativeFundingRate(z.m, s.positions[v].base_asset_amount)
          = CumulativeFundingRate(s.m, s.positions[v].base_asset_amount)
    BY <1>4, RateKept
  <2> QED
    BY <1>6, <2>1, <2>2 DEF FundingUpToDate, SameFunding
<1>8. \A v \in Users : v \notin U => SameFunding(t.positions[v], z.positions[v])
  BY <1>6 DEF Reached, SameFunding
<1>9. NetBase(z.m) = n
  BY <1>4
<1>10. Reached(t, z, U, n)
  BY <1>1, <1>5, <1>7, <1>8, <1>9 DEF Reached
<1> QED
  BY <1>10 DEF z

(* The market changed, and none of its totals.                             *)
LEMMA SoundMarket ==
  ASSUME NEW s, Sound(s), NEW x, Market(x), \A f \in CountedFields : x[f] = s.m[f]
  PROVE  Sound([m |-> x, positions |-> s.positions])
<1> DEFINE z == [m |-> x, positions |-> s.positions]
<1>1. z.m = x /\ z.positions = s.positions /\ z = [m |-> z.m, positions |-> z.positions]
  OBVIOUS
<1> HIDE DEF z
<1>2. TotalsMatch(x, s.positions)
  BY DEF TotalsMatch, Sound, CountedFields
<1>3. Sound(z)
  BY <1>1, <1>2 DEF Sound
<1> QED
  BY <1>3 DEF z

LEMMA ReachedMarket ==
  ASSUME NEW t, NEW s, NEW U, NEW n \in Int, Reached(t, s, U, n), NEW x,
         Booked(s.m, EmptyPosition, x, EmptyPosition, 0)
  PROVE  Reached(t, [m |-> x, positions |-> s.positions], U, n)
<1> DEFINE z == [m |-> x, positions |-> s.positions]
           e == EmptyPosition
<1>1. z.m = x /\ z.positions = s.positions /\ z = [m |-> z.m, positions |-> z.positions]
  OBVIOUS
<1> HIDE DEF z
<1>2. Market(x) /\ Market(s.m)
  BY DEF Booked, Reached, Sound
<1>3. /\ x.base_asset_amount_long + x.base_asset_amount_short + 0
           = s.m.base_asset_amount_long + s.m.base_asset_amount_short + 0
      /\ x.quote_asset_amount + 0 = s.m.quote_asset_amount + 0
      /\ x.quote_entry_amount_long + x.quote_entry_amount_short + 0
           = s.m.quote_entry_amount_long + s.m.quote_entry_amount_short + 0
      /\ x.quote_break_even_amount_long + x.quote_break_even_amount_short + 0
           = s.m.quote_break_even_amount_long + s.m.quote_break_even_amount_short + 0
      /\ x.user_lp_shares + 0 = s.m.user_lp_shares + 0
      /\ x.number_of_users_with_base + 0 >= s.m.number_of_users_with_base + 0
      /\ NetBase(x) = NetBase(s.m) + 0
      /\ \A f \in KeptFields : x[f] = s.m[f]
  BY DEF Booked, EmptyPosition, HoldsBase, NoBase
<1>4. /\ x.base_asset_amount_long \in Int /\ x.base_asset_amount_short \in Int
      /\ x.quote_asset_amount \in Int
      /\ x.quote_entry_amount_long \in Int /\ x.quote_entry_amount_short \in Int
      /\ x.quote_break_even_amount_long \in Int /\ x.quote_break_even_amount_short \in Int
      /\ x.user_lp_shares \in Int /\ x.number_of_users_with_base \in Int
  BY <1>2, TotalNumbers
<1>5. /\ s.m.base_asset_amount_long \in Int /\ s.m.base_asset_amount_short \in Int
      /\ s.m.quote_asset_amount \in Int
      /\ s.m.quote_entry_amount_long \in Int /\ s.m.quote_entry_amount_short \in Int
      /\ s.m.quote_break_even_amount_long \in Int /\ s.m.quote_break_even_amount_short \in Int
      /\ s.m.user_lp_shares \in Int /\ s.m.number_of_users_with_base \in Int
  BY <1>2, TotalNumbers
<1>6. x.base_asset_amount_long + x.base_asset_amount_short
        = s.m.base_asset_amount_long + s.m.base_asset_amount_short
  BY <1>3, <1>4, <1>5
<1>7. x.quote_entry_amount_long + x.quote_entry_amount_short
        = s.m.quote_entry_amount_long + s.m.quote_entry_amount_short
  BY <1>3, <1>4, <1>5
<1>8. x.quote_break_even_amount_long + x.quote_break_even_amount_short
        = s.m.quote_break_even_amount_long + s.m.quote_break_even_amount_short
  BY <1>3, <1>4, <1>5
<1>9. x.quote_asset_amount = s.m.quote_asset_amount /\ x.user_lp_shares = s.m.user_lp_shares
  BY <1>3, <1>4, <1>5
<1>10. x.number_of_users_with_base >= s.m.number_of_users_with_base
  BY <1>3, <1>4, <1>5
<1>11. TotalsMatch(s.m, s.positions) /\ TotalOf(Holders(s.positions)) \in Int
  BY PositionTotals DEF Reached, Sound
<1>12. x.number_of_users_with_base >= TotalOf(Holders(s.positions))
  <2>1. s.m.number_of_users_with_base >= TotalOf(Holders(s.positions))
    BY <1>11 DEF TotalsMatch
  <2> QED
    BY <1>4, <1>5, <1>10, <1>11, <2>1
<1>13. TotalsMatch(x, s.positions)
  BY <1>6, <1>7, <1>8, <1>9, <1>11, <1>12 DEF TotalsMatch
<1>14. Sound(z)
  BY <1>1, <1>2, <1>13 DEF Sound, Reached
<1>15. NetBase(x) = n
  BY <1>3 DEF Reached
<1>16. \A f \in KeptFields : x[f] = t.m[f]
  BY <1>3 DEF Reached
<1>17. ASSUME NEW v \in Users, v \in U
       PROVE  FundingUpToDate(x, s.positions[v])
  <2>1. FundingUpToDate(s.m, s.positions[v])
    BY <1>17 DEF Reached
  <2>2. CumulativeFundingRate(x, s.positions[v].base_asset_amount)
          = CumulativeFundingRate(s.m, s.positions[v].base_asset_amount)
    BY <1>3, RateKept
  <2> QED
    BY <2>1, <2>2 DEF FundingUpToDate
<1>18. \A v \in Users : v \notin U => SameFunding(t.positions[v], s.positions[v])
  BY DEF Reached
<1>19. Reached(t, z, U, n)
  BY <1>1, <1>14, <1>15, <1>16, <1>17, <1>18 DEF Reached
<1> QED
  BY <1>19 DEF z

(* The pools or the status changed.                                        *)
NetFields == {"base_asset_amount_with_amm", "base_asset_amount_with_unsettled_lp"}
CumulativeFields == {"cumulative_funding_rate_long", "cumulative_funding_rate_short"}

LEMMA PoolsReached ==
  ASSUME NEW t, NEW s, NEW U, NEW n, Reached(t, s, U, n), NEW x, Market(x), NEW S, Changed(s.m, x, S),
         S \cap (CountedFields \cup NetFields \cup CumulativeFields) = {}
  PROVE  Reached([m |-> x, positions |-> t.positions], [m |-> x, positions |-> s.positions], U, n)
<1> DEFINE z == [m |-> x, positions |-> s.positions]
           w == [m |-> x, positions |-> t.positions]
<1>1. z.m = x /\ z.positions = s.positions /\ w.m = x /\ w.positions = t.positions
  OBVIOUS
<1>2. DOMAIN s.m = Fields
  BY MarketNumbers DEF Reached, Sound
<1>3. CountedFields \cup NetFields \cup CumulativeFields \subseteq Fields
  BY DEF CountedFields, NetFields, CumulativeFields, Fields, IntegerFields, CurveFields, LedgerFields,
         OtherFields
<1>4. \A f \in CountedFields \cup NetFields \cup CumulativeFields : x[f] = s.m[f]
  BY <1>2, <1>3 DEF Changed
<1>5. Sound(z)
  BY <1>4, SoundMarket DEF Reached
<1> HIDE DEF z, w
<1>6. NetBase(x) = n
  <2>1. NetBase(x) = NetBase(s.m)
    BY <1>4 DEF NetBase, CountedFields, NetFields
  <2> QED
    BY <2>1 DEF Reached
<1>7. \A base : CumulativeFundingRate(x, base) = CumulativeFundingRate(s.m, base)
  BY <1>4 DEF CumulativeFundingRate, CumulativeFields
<1>8. \A v \in Users : v \in U => FundingUpToDate(x, s.positions[v])
  BY <1>7 DEF Reached, FundingUpToDate
<1>9. \A v \in Users : v \notin U => SameFunding(t.positions[v], s.positions[v])
  BY DEF Reached
<1>10. Reached(w, z, U, n)
  BY <1>1, <1>5, <1>6, <1>8, <1>9 DEF Reached
<1> QED
  BY <1>10 DEF z, w

(***************************************************************************)
(* Fees.                                                                   *)
(***************************************************************************)

FeeFields ==
  { "user_fee", "maker_rebate", "fee_to_market", "fee_to_market_for_lp", "filler_reward",
    "referrer_reward" }

TypedFees(fees) == \A f \in FeeFields : fees[f] \in Int

LEMMA TakerFeeType ==
  ASSUME NEW quote \in Int
  PROVE  calculate_taker_fee(quote) \in Int
<1> DEFINE fee == QuotCeil(quote * fee_numerator, fee_denominator)
           less == (fee * Abs(fee_adjustment)) \div FEE_ADJUSTMENT_MAX
           more == QuotCeil(fee * fee_adjustment, FEE_ADJUSTMENT_MAX)
<1>1. /\ fee_denominator \in Nat \ {0} /\ FEE_ADJUSTMENT_MAX \in Nat \ {0} /\ fee_numerator \in Int
      /\ fee_adjustment \in Int
  BY FeeConstants
<1>2. quote * fee_numerator \in Int /\ fee_denominator \in Int /\ fee_denominator # 0
  BY <1>1
<1>3. fee \in Int
  BY <1>2, QuotTypes
<1> HIDE DEF fee
<1>4. Abs(fee_adjustment) \in Int
  BY <1>1, AbsType
<1>5. less \in Int
  BY <1>1, <1>3, <1>4, ProductOver
<1>6. fee * fee_adjustment \in Int /\ FEE_ADJUSTMENT_MAX \in Int /\ FEE_ADJUSTMENT_MAX # 0
  BY <1>1, <1>3
<1>7. more \in Int
  BY <1>6, QuotTypes
<1>8. calculate_taker_fee(quote)
        = IF fee_adjustment < 0 THEN Greatest(0, fee - less) ELSE fee + more
  BY DEF calculate_taker_fee, fee
<1> HIDE DEF less, more
<1>9. Greatest(0, fee - less) \in Int /\ fee + more \in Int
  BY <1>3, <1>5, <1>7 DEF Greatest
<1> QED
  BY <1>8, <1>9

LEMMA RebateType ==
  ASSUME NEW quote \in Int
  PROVE  calculate_maker_rebate(quote) \in Int
<1> DEFINE rebate == (quote * maker_rebate_numerator) \div maker_rebate_denominator
           less == QuotCeil(rebate * Abs(fee_adjustment), FEE_ADJUSTMENT_MAX)
           more == (rebate * fee_adjustment) \div FEE_ADJUSTMENT_MAX
<1>1. /\ maker_rebate_denominator \in Nat \ {0} /\ FEE_ADJUSTMENT_MAX \in Nat \ {0}
      /\ maker_rebate_numerator \in Int /\ fee_adjustment \in Int
  BY FeeConstants
<1>2. rebate \in Int
  BY <1>1, ProductOver
<1> HIDE DEF rebate
<1>3. Abs(fee_adjustment) \in Int
  BY <1>1, AbsType
<1>4. rebate * Abs(fee_adjustment) \in Int /\ FEE_ADJUSTMENT_MAX \in Int /\ FEE_ADJUSTMENT_MAX # 0
  BY <1>1, <1>2, <1>3
<1>5. less \in Int
  BY <1>4, QuotTypes
<1>6. more \in Int
  BY <1>1, <1>2, ProductOver
<1>7. calculate_maker_rebate(quote)
        = IF fee_adjustment < 0 THEN Greatest(0, rebate - less) ELSE rebate + more
  BY DEF calculate_maker_rebate, rebate
<1> HIDE DEF less, more
<1>8. Greatest(0, rebate - less) \in Int /\ rebate + more \in Int
  BY <1>2, <1>5, <1>6 DEF Greatest
<1> QED
  BY <1>7, <1>8

LEMMA ReferralTypes ==
  ASSUME NEW fee \in Int, NEW referred, NEW left \in Int
  PROVE  /\ FeeAfterReferral(fee, referred, left).fee \in Int
         /\ FeeAfterReferral(fee, referred, left).reward \in Int
<1> DEFINE a == get_proportion_u128(fee, referee_fee_numerator, referee_fee_denominator)
           b == get_proportion_u128(fee, referrer_reward_numerator, referrer_reward_denominator)
<1>1. /\ referee_fee_denominator \in Nat \ {0} /\ referrer_reward_denominator \in Nat \ {0}
      /\ referee_fee_numerator \in Int /\ referrer_reward_numerator \in Int
  BY FeeConstants
<1>2. a \in Int /\ b \in Int
  BY <1>1, ProportionTypes
<1>3. /\ FeeAfterReferral(fee, referred, left).fee = IF referred THEN fee - a ELSE fee
      /\ FeeAfterReferral(fee, referred, left).reward = IF referred THEN Least(b, left) ELSE 0
  BY DEF FeeAfterReferral, calculate_referee_fee_and_referrer_reward
<1> HIDE DEF a, b
<1>4. Least(b, left) \in Int /\ fee - a \in Int
  BY <1>2 DEF Least
<1> QED
  BY <1>3, <1>4

LEMMA FillerRewardType ==
  ASSUME NEW fee \in Int, NEW multiplier \in Int, NEW rewarded
  PROVE  FillerReward(fee, multiplier, rewarded) \in Int
<1> DEFINE a == (fee * reward_numerator) \div reward_denominator
           b == time_based_reward_lower_bound * multiplier
<1>1. reward_denominator \in Nat \ {0} /\ reward_numerator \in Int
      /\ time_based_reward_lower_bound \in Int
  BY FeeConstants
<1>2. a \in Int /\ b \in Int
  BY <1>1, ProductOver
<1>3. FillerReward(fee, multiplier, rewarded) = IF rewarded THEN Least(a, b) ELSE 0
  BY DEF FillerReward, calculate_filler_reward
<1> HIDE DEF a, b
<1> QED
  BY <1>2, <1>3 DEF Least

LEMMA AmmFeesType ==
  ASSUME NEW quote \in Int, NEW surplus \in Int, NEW post_only, NEW rewarded, NEW referred,
         NEW left \in Int
  PROVE  TypedFees(calculate_fee_for_fulfillment_with_amm(quote, surplus, post_only, rewarded, referred,
                                                     left))
<1> DEFINE rebate == calculate_maker_rebate(quote)
           reward == FillerReward(surplus - rebate, 1, rewarded)
           referral == FeeAfterReferral(calculate_taker_fee(quote), referred, left)
           taken == FillerReward(referral.fee, 1, rewarded)
<1>1. rebate \in Int /\ calculate_taker_fee(quote) \in Int
  BY RebateType, TakerFeeType
<1>2. referral.fee \in Int /\ referral.reward \in Int
  BY <1>1, ReferralTypes
<1> HIDE DEF rebate, referral
<1>3. surplus - rebate \in Int
  BY <1>1
<1>4. reward \in Int /\ taken \in Int
  BY <1>2, <1>3, FillerRewardType
<1>5. TypedFees(PostOnlyFees(quote, surplus, rewarded))
  <2>1. PostOnlyFees(quote, surplus, rewarded)
          = [ user_fee |-> 0, maker_rebate |-> rebate,
              fee_to_market |-> surplus - rebate - reward, fee_to_market_for_lp |-> 0,
              filler_reward |-> reward, referrer_reward |-> 0 ]
    BY DEF PostOnlyFees, rebate
  <2> HIDE DEF reward
  <2> QED
    BY <1>1, <1>4, <2>1 DEF TypedFees, FeeFields
<1>6. TypedFees(TakerFees(quote, surplus, rewarded, referred, left))
  <2>1. TakerFees(quote, surplus, rewarded, referred, left)
          = [ user_fee |-> referral.fee, maker_rebate |-> 0,
              fee_to_market |-> referral.fee - taken - referral.reward + surplus,
              fee_to_market_for_lp |-> referral.fee - taken - referral.reward,
              filler_reward |-> taken, referrer_reward |-> referral.reward ]
    BY DEF TakerFees, referral
  <2> HIDE DEF taken
  <2> QED
    BY <1>2, <1>4, <2>1 DEF TypedFees, FeeFields
<1> QED
  BY <1>5, <1>6 DEF calculate_fee_for_fulfillment_with_amm

LEMMA MatchFeesType ==
  ASSUME NEW quote \in Int, NEW multiplier \in Int, NEW rewarded, NEW referred, NEW left \in Int
  PROVE  TypedFees(calculate_fee_for_fulfillment_with_match(quote, multiplier, rewarded, referred, left))
<1> DEFINE rebate == calculate_maker_rebate(quote)
           referral == FeeAfterReferral(calculate_taker_fee(quote), referred, left)
           taken == FillerReward(referral.fee, multiplier, rewarded)
<1>1. rebate \in Int /\ calculate_taker_fee(quote) \in Int
  BY RebateType, TakerFeeType
<1>2. referral.fee \in Int /\ referral.reward \in Int
  BY <1>1, ReferralTypes
<1>3. calculate_fee_for_fulfillment_with_match(quote, multiplier, rewarded, referred, left)
        = [ user_fee |-> referral.fee, maker_rebate |-> rebate,
            fee_to_market |-> referral.fee - taken - referral.reward - rebate,
            fee_to_market_for_lp |-> 0,
            filler_reward |-> taken, referrer_reward |-> referral.reward ]
  BY DEF calculate_fee_for_fulfillment_with_match
<1> HIDE DEF rebate, referral
<1>4. taken \in Int
  BY <1>2, FillerRewardType
<1> HIDE DEF taken
<1> QED
  BY <1>1, <1>2, <1>3, <1>4 DEF TypedFees, FeeFields

(***************************************************************************)
(* Fills.                                                                  *)
(***************************************************************************)

LEMMA MakerQuoteType ==
  ASSUME NEW base \in Int, NEW price \in Int, NEW direction
  PROVE  calculate_quote_asset_amount_for_maker_order(base, price, direction) \in Int
<1>1. AMM_RESERVE_PRECISION \in Nat \ {0}
  BY CurveConstants
<1>2. (base * price) \div AMM_RESERVE_PRECISION \in Int
  BY <1>1, ProductOver
<1>3. base * price \in Int /\ AMM_RESERVE_PRECISION \in Int /\ AMM_RESERVE_PRECISION # 0
  BY <1>1
<1>4. QuotCeil(base * price, AMM_RESERVE_PRECISION) \in Int
  BY <1>3, QuotTypes
<1> QED
  BY <1>2, <1>4 DEF calculate_quote_asset_amount_for_maker_order

LEMMA DeltaGood ==
  ASSUME NEW base \in Int, Multiple(base), NEW quote \in Int, NEW direction
  PROVE  LET d == get_position_delta_for_fill(base, quote, direction)
         IN  GoodDelta(d) /\ d.lp = FALSE
<1> DEFINE d == get_position_delta_for_fill(base, quote, direction)
<1>1. Multiple(-base) /\ -base \in Int /\ -quote \in Int
  BY MultipleAdd
<1>2. /\ d.lp = FALSE /\ d.remainder = 0
      /\ d.base = (IF direction = "Long" THEN base ELSE -base)
      /\ d.quote = (IF direction = "Long" THEN -quote ELSE quote)
  BY DEF get_position_delta_for_fill
<1> HIDE DEF d
<1>3. d.base \in Int /\ d.quote \in Int /\ Multiple(d.base)
  BY <1>1, <1>2
<1>4. GoodDelta(d)
  <2>1. d.remainder \in Int /\ ((d.base >= 0 /\ d.remainder >= 0) \/ (d.base <= 0 /\ d.remainder <= 0))
    BY <1>2, <1>3
  <2>2. d.lp \in BOOLEAN /\ (~d.lp => d.remainder = 0)
    BY <1>2, Zenon
  <2> QED
    BY <1>3, <2>1, <2>2, Zenon DEF GoodDelta
<1> QED
  BY <1>2, <1>4 DEF d

(* A fill by the AMM that the program may make.                            *)
GoodFill(m, f) ==
  /\ f.taker \in Users
  /\ f.base \in Int /\ Multiple(f.base)
  /\ f.fill_price \in Int
  /\ f.filler \in Users \cup {NoUser} /\ f.referrer \in Users \cup {NoUser}
  /\ SwapBaseAssetValid(m, f.base, SwapDirection(f.direction))

LEMMA FillQuoteTypes ==
  ASSUME NEW m, Market(m), NEW f, GoodFill(m, f)
  PROVE  /\ FillQuote(m, f).quote \in Int /\ FillQuote(m, f).surplus \in Int
         /\ GoodDelta(FillDelta(m, f)) /\ FillDelta(m, f).lp = FALSE
         /\ TypedFees(AmmFees(m, f))
<1> DEFINE out == calculate_base_swap_output_with_spread(m, f.base, SwapDirection(f.direction))
           quote == calculate_quote_asset_amount_for_maker_order(f.base, f.fill_price, f.direction)
           q == FillQuote(m, f)
<1>1. /\ f.base \in Int /\ f.fill_price \in Int /\ Multiple(f.base)
      /\ SwapBaseAssetValid(m, f.base, SwapDirection(f.direction))
  BY DEF GoodFill
<1>2. out.quote_asset_amount \in Int /\ out.surplus \in Int
  BY <1>1, SpreadSwapTypes
<1>3. quote \in Int
  BY <1>1, MakerQuoteType
<1>4. /\ q.quote = (IF f.fill_price = 0 THEN out.quote_asset_amount ELSE quote)
      /\ q.surplus = (IF f.fill_price = 0 THEN out.surplus
                      ELSE IF f.direction = "Long" THEN quote - out.quote_asset_amount
                      ELSE out.quote_asset_amount - quote)
  BY DEF FillQuote
<1> HIDE DEF out, quote
<1>5. q.quote \in Int /\ q.surplus \in Int
  BY <1>2, <1>3, <1>4
<1> HIDE DEF q
<1>6. GoodDelta(FillDelta(m, f)) /\ FillDelta(m, f).lp = FALSE
  BY <1>1, <1>5, DeltaGood DEF FillDelta, q
<1>7. referrer_reward_epoch_upper_bound \in Int
  BY OtherConstants
<1>8. TypedFees(AmmFees(m, f))
  BY <1>5, <1>7, AmmFeesType DEF AmmFees, q
<1> QED
  BY <1>5, <1>6, <1>8 DEF q

(* What the AMM takes over from a fill is added to its own position.       *)
LEMMA AmmBooked ==
  ASSUME NEW m, NEW p, Market(m), Position(p), NEW b \in Int
  PROVE  Booked(m, p, [m EXCEPT !.base_asset_amount_with_amm = @ + b], p, -b)
<1> DEFINE v == m.base_asset_amount_with_amm + b
           x == [m EXCEPT !.base_asset_amount_with_amm = @ + b]
           S == {"base_asset_amount_with_amm"}
<1>1. /\ m.base_asset_amount_with_amm \in Int /\ m.base_asset_amount_with_unsettled_lp \in Int
      /\ DOMAIN m = Fields /\ m = [f \in Fields |-> m[f]]
  BY TotalNumbers, MarketNumbers
<1>2. v \in Int
  BY <1>1
<1>3. S \subseteq Fields /\ S \subseteq PlainFields
  BY DEF Fields, IntegerFields, PlainFields, CurveFields, LedgerFields, OtherFields
<1>4. x = [m EXCEPT !.base_asset_amount_with_amm = v]
  OBVIOUS
<1> HIDE DEF v
<1>5. Changed(m, x, S) /\ x.base_asset_amount_with_amm = v
      /\ x.base_asset_amount_with_unsettled_lp = m.base_asset_amount_with_unsettled_lp
  BY <1>1, <1>3, <1>4 DEF Changed
<1> HIDE DEF x
<1>6. Market(x)
  BY <1>2, <1>3, <1>5, PlainMarket
<1>7. S \cap (KeptFields \cup CountedFields) = {}
  BY DEF KeptFields, CountedFields
<1> DEFINE c == -b
<1>8. c \in Int
  OBVIOUS
<1>9. x.base_asset_amount_with_amm + x.base_asset_amount_with_unsettled_lp + c
        = m.base_asset_amount_with_amm + m.base_asset_amount_with_unsettled_lp
  BY <1>1, <1>5 DEF v
<1> HIDE DEF c, S
<1>10. Booked(m, p, x, p, c)
  BY <1>5, <1>6, <1>7, <1>8, <1>9, MarketBooked
<1> QED
  BY <1>10 DEF x, c

LEMMA FillBooked ==
  ASSUME NEW m, NEW p, Market(m), Position(p), FundingUpToDate(m, p), NEW f, GoodFill(m, f)
  PROVE  LET d == FillDelta(m, f)
             r == update_position_and_market(swap_base_asset(m, f.base, SwapDirection(f.direction)),
                                             p, d)
             x == update_spread_reserves([r.m EXCEPT !.base_asset_amount_with_amm = @ + d.base])
         IN  Booked(m, p, x, r.p, 0) /\ FundingUpToDate(x, r.p)
<1> DEFINE d == FillDelta(m, f)
           a == swap_base_asset(m, f.base, SwapDirection(f.direction))
           r == update_position_and_market(a, p, d)
           w == [r.m EXCEPT !.base_asset_amount_with_amm = @ + d.base]
           x == update_spread_reserves(w)
<1>1. GoodDelta(d) /\ d.lp = FALSE
  BY FillQuoteTypes
<1>2. d.base \in Int
  BY <1>1 DEF GoodDelta
<1>3. Moved(m, a)
  BY SwapMoves DEF GoodFill
<1> HIDE DEF d, a
<1>4. Booked(m, p, a, p, 0) /\ Market(a)
  BY <1>3, MovedBooked DEF Moved
<1>5. FundingUpToDate(a, p)
  BY <1>4, FundingKept DEF SameFunding
<1>6. Booked(a, p, r.m, r.p, IF d.lp THEN 0 ELSE d.base) /\ FundingUpToDate(r.m, r.p)
  BY <1>1, <1>4, <1>5, PositionBooked
<1>7. Booked(a, p, r.m, r.p, d.base)
  BY <1>1, <1>6
<1> HIDE DEF r
<1>8. Booked(m, p, r.m, r.p, d.base) /\ Market(r.m) /\ Position(r.p)
  <2>1. Booked(m, p, r.m, r.p, d.base)
    BY <1>2, <1>4, <1>7, BookedOnward
  <2> QED
    BY <2>1 DEF Booked
<1>9. Booked(r.m, r.p, w, r.p, -d.base)
  BY <1>2, <1>8, AmmBooked
<1> HIDE DEF w
<1> DEFINE c == -d.base
<1>10. c \in Int /\ d.base + c = 0 /\ Booked(r.m, r.p, w, r.p, c)
  BY <1>2, <1>9
<1> HIDE DEF c
<1>11. Booked(m, p, w, r.p, d.base + c)
  BY <1>2, <1>8, <1>10, BookedTwice
<1>12. Booked(m, p, w, r.p, 0) /\ Market(w)
  BY <1>10, <1>11 DEF Booked
<1>13. Booked(w, r.p, x, r.p, 0)
  BY <1>8, <1>12, SpreadReservesMove, MovedBooked
<1> HIDE DEF x
<1>14. Booked(m, p, x, r.p, 0)
  BY <1>12, <1>13, BookedOnward
<1>15. FundingUpToDate(w, r.p)
  BY <1>6, <1>10, FundingKept DEF SameFunding
<1>16. FundingUpToDate(x, r.p)
  BY <1>13, <1>15, FundingKept DEF SameFunding
<1> QED
  BY <1>14, <1>16 DEF x, w, r, a, d

LEMMA ReachedPay ==
  ASSUME NEW t, NEW s, NEW U, NEW n \in Int, Reached(t, s, U, n), NEW u \in Users, NEW amount \in Int
  PROVE  Reached(t, Pay(s, u, amount), U, n)
<1>1. Market(s.m) /\ Position(s.positions[u])
  BY ReachedParts
<1> DEFINE r == update_quote_asset_amount(s.m, s.positions[u], amount)
<1>2. Booked(s.m, s.positions[u], r.m, r.p, 0) /\ SameFunding(s.positions[u], r.p)
  BY <1>1, QuoteBooked
<1> HIDE DEF r
<1>3. Reached(t, With(s, u, r), U, n)
  BY <1>2, ReachedPaid
<1> QED
  BY <1>3 DEF Pay, r

LEMMA ReachedBreakEven ==
  ASSUME NEW t, NEW s, NEW U, NEW n \in Int, Reached(t, s, U, n), NEW u \in Users, NEW amount \in Int
  PROVE  Reached(t, PayAndBreakEven(s, u, amount), U, n)
<1>1. Market(s.m) /\ Position(s.positions[u])
  BY ReachedParts
<1> DEFINE r == update_quote_asset_and_break_even_amount(s.m, s.positions[u], amount)
<1>2. Booked(s.m, s.positions[u], r.m, r.p, 0) /\ SameFunding(s.positions[u], r.p)
  BY <1>1, QuoteAndBreakEvenBooked
<1> HIDE DEF r
<1>3. Reached(t, With(s, u, r), U, n)
  BY <1>2, ReachedPaid
<1> QED
  BY <1>3 DEF PayAndBreakEven, r

LEMMA ReachedReward ==
  ASSUME NEW t, NEW s, NEW U, NEW n \in Int, Reached(t, s, U, n), NEW u \in Users \cup {NoUser},
         NEW amount \in Int
  PROVE  Reached(t, Reward(s, u, amount), U, n)
<1>1. CASE u = NoUser
  BY <1>1 DEF Reward
<1>2. CASE u # NoUser
  <2>1. u \in Users
    BY <1>2
  <2>2. Reached(t, Pay(s, u, amount), U, n)
    BY <2>1, ReachedPay
  <2> QED
    BY <1>2, <2>2 DEF Reward
<1> QED
  BY <1>1, <1>2

LEMMA SharedBooked ==
  ASSUME NEW m, Market(m), NEW d, d.base \in Int, d.quote \in Int, NEW fees, TypedFees(fees), NEW split,
         LET shared == IF split = "ProtocolOwned" THEN m
                       ELSE update_lp_market_position(m, d, fees.fee_to_market_for_lp, split)
         IN  shared.user_lp_shares > 0 => TerminalValid(shared)
  PROVE  Booked(m, EmptyPosition, ShareWithLps(m, d, fees, split), EmptyPosition, 0)
<1> DEFINE e == EmptyPosition
           a == IF split = "ProtocolOwned" THEN m
                ELSE update_lp_market_position(m, d, fees.fee_to_market_for_lp, split)
           x == ShareWithLps(m, d, fees, split)
<1>1. Position(e)
  BY EmptyIsPosition
<1>2. fees.fee_to_market_for_lp \in Int
  BY DEF TypedFees, FeeFields
<1> HIDE DEF e
<1>3. Booked(m, e, a, e, 0)
  BY <1>1, <1>2, LpsTake, BookedNot
<1>4. x = IF a.user_lp_shares > 0 THEN RefreshTerminal(a) ELSE a
  BY DEF ShareWithLps
<1>5. a.user_lp_shares > 0 => TerminalValid(a)
  OBVIOUS
<1> HIDE DEF a, x
<1>6. Market(a)
  BY <1>3 DEF Booked
<1>7. CASE a.user_lp_shares > 0
  <2>1. Booked(a, e, RefreshTerminal(a), e, 0)
    BY <1>1, <1>5, <1>6, <1>7, RefreshMoves, MovedBooked
  <2>2. Booked(m, e, RefreshTerminal(a), e, 0)
    BY <1>1, <1>3, <2>1, BookedOnward
  <2>3. Booked(m, e, x, e, 0)
    BY <1>4, <1>7, <2>2
  <2> QED
    BY <2>3 DEF x, e
<1>8. CASE ~(a.user_lp_shares > 0)
  <2>1. Booked(m, e, x, e, 0)
    BY <1>3, <1>4, <1>8
  <2> QED
    BY <2>1 DEF x, e
<1> QED
  BY <1>7, <1>8

LEMMA EarnedBooked ==
  ASSUME NEW m, NEW p, Market(m), Position(p), NEW fee \in Int, NEW exchange_fee \in Int
  PROVE  Booked(m, p, EarnFees(m, fee, exchange_fee), p, 0)
<1> DEFINE x == EarnFees(m, fee, exchange_fee)
           a == m.total_exchange_fee + exchange_fee
           b == m.total_fee_minus_distributions + fee
           c == m.net_revenue_since_last_funding + fee
           S == {"total_exchange_fee", "total_fee_minus_distributions",
                 "net_revenue_since_last_funding"}
<1>1. DOMAIN m = Fields /\ m = [f \in Fields |-> m[f]]
  BY MarketNumbers
<1>2. a \in Int /\ b \in Int /\ c \in Int
  BY MarketNumbers
<1>3. S \subseteq Fields /\ S \subseteq PlainFields /\ S \cap (KeptFields \cup CountedFields) = {}
      /\ S \cap NetFields = {} /\ NetFields \subseteq Fields
  BY DEF Fields, IntegerFields, PlainFields, CurveFields, LedgerFields, OtherFields, KeptFields,
         CountedFields, NetFields
<1>4. x = [m EXCEPT !.total_exchange_fee = a, !.total_fee_minus_distributions = b,
                    !.net_revenue_since_last_funding = c]
  BY DEF EarnFees
<1> HIDE DEF a, b, c
<1>5. /\ Changed(m, x, S) /\ x.total_exchange_fee = a /\ x.total_fee_minus_distributions = b
      /\ x.net_revenue_since_last_funding = c
  BY <1>1, <1>3, <1>4 DEF Changed
<1> HIDE DEF x
<1>6. \A f \in S : x[f] \in Int
  BY <1>2, <1>5
<1> HIDE DEF S
<1>7. Market(x)
  BY <1>3, <1>5, <1>6, PlainMarket
<1>8. /\ x.base_asset_amount_with_amm = m.base_asset_amount_with_amm
      /\ x.base_asset_amount_with_unsettled_lp = m.base_asset_amount_with_unsettled_lp
  <2>1. \A f \in NetFields : x[f] = m[f]
    BY <1>1, <1>3, <1>5 DEF Changed
  <2> QED
    BY <2>1 DEF NetFields
<1>9. m.base_asset_amount_with_amm \in Int /\ m.base_asset_amount_with_unsettled_lp \in Int
  BY TotalNumbers
<1> DEFINE z == 0
<1>10. z \in Int /\ x.base_asset_amount_with_amm + x.base_asset_amount_with_unsettled_lp + z
                     = m.base_asset_amount_with_amm + m.base_asset_amount_with_unsettled_lp
  BY <1>8, <1>9
<1> HIDE DEF z
<1>11. Booked(m, p, x, p, z)
  BY <1>3, <1>5, <1>7, <1>10, MarketBooked
<1> QED
  BY <1>11 DEF x, z

LEMMA ReachedFilled ==
  ASSUME NEW t, NEW s, NEW U, NEW n \in Int, Reached(t, s, U, n), NEW f, GoodFill(s.m, f), f.taker \in U
  PROVE  Reached(t, update_position_with_base_asset_amount(s, f), U, n)
<1> DEFINE u == f.taker
           d == FillDelta(s.m, f)
           r == update_position_and_market(swap_base_asset(s.m, f.base, SwapDirection(f.direction)),
                                           s.positions[u], d)
           x == update_spread_reserves([r.m EXCEPT !.base_asset_amount_with_amm = @ + d.base])
           q == [m |-> x, p |-> r.p]
<1>1. u \in Users /\ U \cup {u} = U
  BY DEF GoodFill
<1>2. Market(s.m) /\ Position(s.positions[u]) /\ FundingUpToDate(s.m, s.positions[u])
  BY <1>1, ReachedParts
<1>3. Booked(s.m, s.positions[u], x, r.p, 0) /\ FundingUpToDate(x, r.p)
  BY <1>2, FillBooked
<1>4. update_position_with_base_asset_amount(s, f) = With(s, u, q)
  BY DEF update_position_with_base_asset_amount
<1>5. q.m = x /\ q.p = r.p
  OBVIOUS
<1> HIDE DEF q, x, r, d
<1>6. Reached(t, With(s, u, q), U \cup {u}, n)
  BY <1>1, <1>3, <1>5, ReachedSettled
<1> QED
  BY <1>1, <1>4, <1>6

LEMMA ReachedFees ==
  ASSUME NEW t, NEW s, NEW U, NEW n \in Int, Reached(t, s, U, n), NEW f, GoodFill(s.m, f), f.taker \in U,
         LpsTakeValid(s, f)
  PROVE  Reached(t, FillWithFees(s, f, FillDelta(s.m, f), AmmFees(s.m, f)), U, n)
<1> DEFINE d == FillDelta(s.m, f)
           fees == AmmFees(s.m, f)
           a == update_position_with_base_asset_amount(s, f)
           x == ShareWithLps(a.m, d, fees, f.split)
           y == EarnFees(x, fees.fee_to_market, fees.user_fee)
           c == [m |-> y, positions |-> a.positions]
           g == Reward(c, f.referrer, fees.referrer_reward)
           h == PayAndBreakEven(g, f.taker, -fees.user_fee)
           i == PayAndBreakEven(h, f.taker, fees.maker_rebate)
           j == Reward(i, f.filler, fees.filler_reward)
           e == EmptyPosition
<1>1. Market(s.m)
  BY ReachedParts
<1>2. GoodDelta(d) /\ TypedFees(fees)
  BY <1>1, FillQuoteTypes
<1>3. Reached(t, a, U, n)
  BY ReachedFilled
<1>4. a = [m |-> a.m, positions |-> a.positions] /\ Market(a.m)
  BY <1>3, ReachedParts
<1>5. LET shared == IF f.split = "ProtocolOwned" THEN a.m
                    ELSE update_lp_market_position(a.m, d, fees.fee_to_market_for_lp, f.split)
      IN  shared.user_lp_shares > 0 => TerminalValid(shared)
  BY DEF LpsTakeValid
<1>6. FillWithFees(s, f, d, fees) = Reward(PayAndBreakEven(PayAndBreakEven(Reward([a EXCEPT !.m = y],
          f.referrer, fees.referrer_reward), f.taker, -fees.user_fee), f.taker, fees.maker_rebate),
          f.filler, fees.filler_reward)
  BY DEF FillWithFees
<1> HIDE DEF d, fees, a
<1>7. [a EXCEPT !.m = y] = c
  BY <1>4
<1>8. FillWithFees(s, f, d, fees) = j
  BY <1>6, <1>7
<1>9. d.base \in Int /\ d.quote \in Int
  BY <1>2 DEF GoodDelta
<1>10. Booked(a.m, e, x, e, 0)
  BY <1>2, <1>4, <1>5, <1>9, SharedBooked
<1>11. /\ fees.fee_to_market \in Int /\ fees.user_fee \in Int /\ fees.referrer_reward \in Int
       /\ fees.maker_rebate \in Int /\ fees.filler_reward \in Int /\ -fees.user_fee \in Int
  BY <1>2 DEF TypedFees, FeeFields
<1>12. Position(e)
  BY EmptyIsPosition
<1> HIDE DEF x, e
<1>13. Market(x)
  BY <1>10 DEF Booked
<1>14. Booked(x, e, y, e, 0)
  BY <1>11, <1>12, <1>13, EarnedBooked
<1> HIDE DEF y
<1>15. Booked(a.m, e, y, e, 0)
  BY <1>4, <1>10, <1>12, <1>14, BookedOnward
<1>16. Reached(t, c, U, n)
  BY <1>3, <1>15, ReachedMarket DEF e
<1> HIDE DEF c
<1>17. Reached(t, g, U, n)
  BY <1>11, <1>16, ReachedReward DEF GoodFill
<1> HIDE DEF g
<1>18. Reached(t, h, U, n)
  BY <1>11, <1>17, ReachedBreakEven DEF GoodFill
<1> HIDE DEF h
<1>19. Reached(t, i, U, n)
  BY <1>11, <1>18, ReachedBreakEven DEF GoodFill
<1> HIDE DEF i
<1>20. Reached(t, j, U, n)
  BY <1>11, <1>19, ReachedReward DEF GoodFill
<1> QED
  BY <1>8, <1>20 DEF d, fees

LEMMA ReachedAmm ==
  ASSUME NEW t, NEW s, NEW U, NEW n \in Int, Reached(t, s, U, n), NEW f, GoodFill(s.m, f), f.taker \in U,
         LpsTakeValid(s, f)
  PROVE  Reached(t, fulfill_perp_order_with_amm(s, f), U, n)
<1>1. Reached(t, FillWithFees(s, f, FillDelta(s.m, f), AmmFees(s.m, f)), U, n)
  BY ReachedFees
<1> QED
  BY <1>1 DEF fulfill_perp_order_with_amm

(* A match of two orders that the program may make.                        *)
GoodMatch(t) ==
  /\ t.taker \in Users /\ t.maker \in Users
  /\ t.base \in Int /\ Multiple(t.base)
  /\ t.price \in Int
  /\ t.filler \in Users \cup {NoUser} /\ t.referrer \in Users \cup {NoUser}

LEMMA MatchDeltas ==
  ASSUME NEW t, GoodMatch(t)
  PROVE  /\ GoodDelta(MakerDelta(t)) /\ MakerDelta(t).lp = FALSE
         /\ GoodDelta(TakerDelta(t)) /\ TakerDelta(t).lp = FALSE
         /\ MakerDelta(t).base \in Int /\ TakerDelta(t).base \in Int
         /\ 0 + MakerDelta(t).base + TakerDelta(t).base = 0
         /\ TypedFees(MatchFees(t))
<1>1. t.base \in Int /\ Multiple(t.base) /\ t.price \in Int
  BY DEF GoodMatch
<1>2. MatchQuote(t) \in Int
  BY <1>1, MakerQuoteType DEF MatchQuote, calculate_fill_for_matched_orders
<1>3. GoodDelta(MakerDelta(t)) /\ MakerDelta(t).lp = FALSE
  BY <1>1, <1>2, DeltaGood DEF MakerDelta
<1>4. GoodDelta(TakerDelta(t)) /\ TakerDelta(t).lp = FALSE
  BY <1>1, <1>2, DeltaGood DEF TakerDelta
<1>5. /\ MakerDelta(t).base = (IF t.direction = "Long" THEN -t.base ELSE t.base)
      /\ TakerDelta(t).base = (IF t.direction = "Long" THEN t.base ELSE -t.base)
  BY DEF MakerDelta, TakerDelta, get_position_delta_for_fill, Opposite
<1>6. /\ MakerDelta(t).base \in Int /\ TakerDelta(t).base \in Int
      /\ 0 + MakerDelta(t).base + TakerDelta(t).base = 0
  BY <1>1, <1>5
<1>7. referrer_reward_epoch_upper_bound \in Int
  BY OtherConstants
<1>8. TypedFees(MatchFees(t))
  BY <1>2, <1>7, MatchFeesType DEF MatchFees
<1> QED
  BY <1>3, <1>4, <1>6, <1>8

(* What the maker sold is what the taker bought.                           *)
LEMMA ReachedMatch ==
  ASSUME NEW o, NEW s, NEW U, Reached(o, s, U, 0), NEW t, GoodMatch(t), t.taker \in U, t.maker \in U
  PROVE  Reached(o, MatchOrders(s, t), U, 0)
<1> DEFINE fees == MatchFees(t)
           d1 == MakerDelta(t)
           d2 == TakerDelta(t)
           r1 == update_position_and_market(s.m, s.positions[t.maker], d1)
           a == With(s, t.maker, r1)
           r2 == update_position_and_market(a.m, a.positions[t.taker], d2)
           b == With(a, t.taker, r2)
           y == EarnFees(b.m, fees.fee_to_market, fees.fee_to_market)
           c == [m |-> y, positions |-> b.positions]
           g == PayAndBreakEven(c, t.taker, -fees.user_fee)
           h == PayAndBreakEven(g, t.maker, fees.maker_rebate)
           i == Reward(h, t.filler, fees.filler_reward)
           j == Reward(i, t.referrer, fees.referrer_reward)
           e == EmptyPosition
<1>1. /\ t.taker \in Users /\ t.maker \in Users /\ U \cup {t.taker} = U /\ U \cup {t.maker} = U
      /\ t.filler \in Users \cup {NoUser} /\ t.referrer \in Users \cup {NoUser}
  BY DEF GoodMatch
<1>2. /\ GoodDelta(d1) /\ d1.lp = FALSE /\ GoodDelta(d2) /\ d2.lp = FALSE
      /\ d1.base \in Int /\ d2.base \in Int /\ 0 + d1.base + d2.base = 0
      /\ TypedFees(fees)
  BY MatchDeltas
<1>3. MatchOrders(s, t) = Reward(Reward(PayAndBreakEven(PayAndBreakEven([b EXCEPT !.m = y], t.taker,
          -fees.user_fee), t.maker, fees.maker_rebate), t.filler, fees.filler_reward),
          t.referrer, fees.referrer_reward)
  BY DEF MatchOrders, MatchWithFees
<1> HIDE DEF fees, d1, d2
<1>4. /\ Market(s.m) /\ Position(s.positions[t.maker])
      /\ FundingUpToDate(s.m, s.positions[t.maker])
  BY <1>1, ReachedParts
<1>5. Booked(s.m, s.positions[t.maker], r1.m, r1.p, d1.base) /\ FundingUpToDate(r1.m, r1.p)
  BY <1>2, <1>4, PositionBooked
<1> HIDE DEF r1
<1>6. Reached(o, a, U \cup {t.maker}, 0 + d1.base)
  BY <1>1, <1>5, ReachedUser
<1> HIDE DEF a
<1>7. Reached(o, a, U, 0 + d1.base)
  BY <1>1, <1>6
<1>8. /\ Market(a.m) /\ Position(a.positions[t.taker])
      /\ FundingUpToDate(a.m, a.positions[t.taker])
  BY <1>1, <1>7, ReachedParts
<1>9. Booked(a.m, a.positions[t.taker], r2.m, r2.p, d2.base) /\ FundingUpToDate(r2.m, r2.p)
  BY <1>2, <1>8, PositionBooked
<1> HIDE DEF r2
<1>10. Reached(o, b, U \cup {t.taker}, 0 + d1.base + d2.base)
  BY <1>1, <1>7, <1>9, ReachedUser
<1> HIDE DEF b
<1>11. Reached(o, b, U, 0)
  BY <1>1, <1>2, <1>10
<1>12. b = [m |-> b.m, positions |-> b.positions] /\ Market(b.m)
  BY <1>11, ReachedParts
<1>13. [b EXCEPT !.m = y] = c
  BY <1>12
<1>14. MatchOrders(s, t) = j
  BY <1>3, <1>13
<1>15. /\ fees.fee_to_market \in Int /\ fees.user_fee \in Int /\ fees.referrer_reward \in Int
       /\ fees.maker_rebate \in Int /\ fees.filler_reward \in Int /\ -fees.user_fee \in Int
  BY <1>2 DEF TypedFees, FeeFields
<1>16. Position(e)
  BY EmptyIsPosition
<1> HIDE DEF e
<1>17. Booked(b.m, e, y, e, 0)
  BY <1>12, <1>15, <1>16, EarnedBooked
<1> HIDE DEF y
<1> DEFINE z == 0
<1>18. z \in Int /\ Reached(o, b, U, z)
  BY <1>11
<1> HIDE DEF z
<1>19. Reached(o, c, U, z)
  BY <1>17, <1>18, ReachedMarket DEF e
<1> HIDE DEF c
<1>20. Reached(o, g, U, z)
  BY <1>1, <1>15, <1>18, <1>19, ReachedBreakEven
<1> HIDE DEF g
<1>21. Reached(o, h, U, z)
  BY <1>1, <1>15, <1>18, <1>20, ReachedBreakEven
<1> HIDE DEF h
<1>22. Reached(o, i, U, z)
  BY <1>1, <1>15, <1>18, <1>21, ReachedReward
<1> HIDE DEF i
<1>23. Reached(o, j, U, z)
  BY <1>1, <1>15, <1>18, <1>22, ReachedReward
<1> QED
  BY <1>14, <1>23 DEF z

----------------------------------------------------------------------------
(* The AMM's part of a match.                                              *)

LEMMA MaxJitType ==
  ASSUME NEW m, Market(m), NEW amount \in Int, NEW price \in Int, NEW oracle \in Int, NEW direction
  PROVE  max_jit_amount(m, amount, price, oracle, direction) \in Int
<1> DEFINE half == amount \div 2
           spread == IF direction = "Long" THEN m.short_spread ELSE m.long_spread
           opposite == (spread * oracle) \div BID_ASK_SPREAD_PRECISION
           closeness == Greatest(0, opposite - Abs(price - oracle))
           bound == Greatest(opposite, 1)
<1>1. m.short_spread \in Int /\ m.long_spread \in Int
  BY MarketNumbers, CurveConstants DEF Spreads
<1>2. BID_ASK_SPREAD_PRECISION \in Nat \ {0}
  BY CurveConstants
<1>3. half \in Int /\ spread \in Int
  BY <1>1
<1>4. max_jit_amount(m, amount, price, oracle, direction)
        = IF LooksLikeWashTrade(price, oracle, direction) THEN (half * closeness) \div bound ELSE half
  BY DEF max_jit_amount
<1> HIDE DEF half, spread
<1>5. opposite \in Int
  BY <1>2, <1>3, ProductOver
<1> HIDE DEF opposite
<1>6. Abs(price - oracle) \in Int
  BY AbsType
<1>7. closeness \in Int /\ bound \in Nat \ {0}
  BY <1>5, <1>6 DEF Greatest
<1> HIDE DEF closeness, bound
<1>8. (half * closeness) \div bound \in Int
  BY <1>3, <1>7, ProductOver
<1> QED
  BY <1>3, <1>4, <1>8

LEMMA ClampedJitType ==
  ASSUME NEW m, Market(m), NEW split, NEW amount \in Int
  PROVE  calculate_clamped_jit_base_asset_amount(m, split, amount) \in Int
<1> DEFINE target == get_target_base_asset_amount_per_lp(m)
           imbalance == imbalanced_base_asset_amount_with_lp(m)
           a == (amount * Least(amm_jit_intensity, 100)) \div 100
           held == IF split = "LPOwned" THEN imbalance ELSE m.base_asset_amount_with_amm
<1>1. /\ m.per_lp_base \in Int /\ m.base_asset_amount_per_lp \in Int
      /\ m.base_asset_amount_with_amm \in Int /\ m.user_lp_shares \in Int
  BY LpNumbers, MarketNumbers
<1>2. amm_jit_intensity \in Int /\ target_base_asset_amount_per_lp \in Int
  BY OtherConstants
<1>3. target \in Int
  <2>1. CASE m.per_lp_base > 0
    <3>1. Pow10[m.per_lp_base] \in Int
      BY <1>1, <2>1, PowerType
    <3> QED
      BY <1>2, <2>1, <3>1 DEF get_target_base_asset_amount_per_lp
  <2>2. CASE ~(m.per_lp_base > 0)
    <3>1. Abs(m.per_lp_base) \in Nat
      BY <1>1, AbsType
    <3>2. Pow10[Abs(m.per_lp_base)] \in Nat \ {0}
      BY <3>1, PowerType
    <3>3. Pow10[Abs(m.per_lp_base)] \in Int /\ Pow10[Abs(m.per_lp_base)] # 0
      BY <3>2
    <3>4. Quot(target_base_asset_amount_per_lp, Pow10[Abs(m.per_lp_base)]) \in Int
      BY <1>2, <3>3, QuotTypes
    <3> QED
      BY <2>2, <3>4 DEF get_target_base_asset_amount_per_lp
  <2> QED
    BY <2>1, <2>2
<1>4. get_per_lp_base_unit(m) \in Nat \ {0}
  BY UnitPositive
<1>5. imbalance = get_proportion_i128(m.base_asset_amount_per_lp - target, m.user_lp_shares,
                                      get_per_lp_base_unit(m))
  BY DEF imbalanced_base_asset_amount_with_lp
<1> HIDE DEF target, imbalance
<1>6. imbalance \in Int
  <2>1. m.base_asset_amount_per_lp - target \in Int
    BY <1>1, <1>3
  <2> QED
    BY <1>1, <1>4, <1>5, <2>1, ProportionTypes
<1>7. a \in Int
  <2>1. Least(amm_jit_intensity, 100) \in Int /\ 100 \in Nat \ {0}
    BY <1>2 DEF Least
  <2> QED
    BY <2>1, ProductOver
<1>8. held \in Int
  BY <1>1, <1>6
<1>9. calculate_clamped_jit_base_asset_amount(m, split, amount) = Least(a, Abs(held))
  BY DEF calculate_clamped_jit_base_asset_amount, imbalance
<1> HIDE DEF a, held
<1>10. Abs(held) \in Int
  BY <1>8, AbsType
<1> QED
  BY <1>7, <1>9, <1>10 DEF Least

LEMMA JitType ==
  ASSUME NEW m, Market(m), NEW direction, NEW price \in Int, NEW oracle \in Int, NEW amount \in Int,
         NEW next
  PROVE  LET jit == calculate_amm_jit_liquidity(m, direction, price, oracle, amount, next)
         IN  jit.base \in Int /\ Multiple(jit.base)
<1> DEFINE jit == calculate_amm_jit_liquidity(m, direction, price, oracle, amount, next)
           B(split) == calculate_jit_base_asset_amount(m, amount, price, oracle, direction, split)
<1>1. \/ jit.base = 0
      \/ \E split \in {"Shared", "ProtocolOwned", "LPOwned"} : jit.base = B(split)
  BY DEF calculate_amm_jit_liquidity
<1> HIDE DEF jit
<1>2. ASSUME NEW split
      PROVE  B(split) \in Int /\ Multiple(B(split))
  <2> DEFINE wanted == IF AmmIsImbalanced(m) THEN amount ELSE amount \div 4
             a == calculate_clamped_jit_base_asset_amount(m, split, wanted)
             c == max_jit_amount(m, amount, price, oracle, direction)
  <2>1. wanted \in Int
    OBVIOUS
  <2>2. B(split) = standardize_base_asset_amount(Least(a, c), order_step_size)
    BY DEF calculate_jit_base_asset_amount
  <2> HIDE DEF wanted
  <2>3. a \in Int
    BY <2>1, ClampedJitType
  <2>4. c \in Int
    BY MaxJitType
  <2> HIDE DEF a, c
  <2>5. Least(a, c) \in Int
    BY <2>3, <2>4 DEF Least
  <2> QED
    BY <2>2, <2>5, Standardized
<1> HIDE DEF B
<1>3. jit.base \in Int /\ Multiple(jit.base)
  BY <1>1, <1>2, MultipleZero
<1> QED
  BY <1>3 DEF jit

MatchRecord(t) ==
  t = [ taker |-> t.taker, maker |-> t.maker, base |-> t.base, taker_base |-> t.taker_base,
        maker_base |-> t.maker_base, direction |-> t.direction, price |-> t.price,
        filler |-> t.filler, referrer |-> t.referrer ]

LEMMA LeftGood ==
  ASSUME NEW s, NEW t, MatchRecord(t), GoodMatch(t), Multiple(t.taker_base), Multiple(t.maker_base),
         NEW jit, Multiple(jit.base)
  PROVE  LET x == LeftToMatch(s, t, jit)
         IN  GoodMatch(x) /\ x.taker = t.taker /\ x.maker = t.maker
<1> DEFINE base == IF FillsJit(s, t, jit) THEN Least(t.maker_base, t.taker_base - jit.base)
                   ELSE Least(t.maker_base, t.taker_base)
           x == LeftToMatch(s, t, jit)
<1>1. x = [t EXCEPT !.base = base]
  BY DEF LeftToMatch
<1>2. Multiple(t.taker_base - jit.base)
  BY MultipleAdd
<1>3. Multiple(base)
  BY <1>2 DEF Least
<1>4. base \in Int
  BY <1>3, MultipleAdd
<1> HIDE DEF base
<1>5. DOMAIN t = {"taker", "maker", "base", "taker_base", "maker_base", "direction", "price",
                  "filler", "referrer"}
  BY DEF MatchRecord
<1>6. /\ x.base = base /\ x.taker = t.taker /\ x.maker = t.maker /\ x.price = t.price
      /\ x.filler = t.filler /\ x.referrer = t.referrer
  BY <1>1, <1>5
<1> HIDE DEF x
<1>7. GoodMatch(x)
  BY <1>3, <1>4, <1>6 DEF GoodMatch
<1> QED
  BY <1>6, <1>7 DEF x

LEMMA ReachedMatched ==
  ASSUME NEW o, NEW s, NEW U, Reached(o, s, U, 0), NEW t, MatchRecord(t), GoodMatch(t),
         Multiple(t.taker_base), Multiple(t.maker_base), t.taker \in U, t.maker \in U,
         NEW oracle \in Int, NEW next, FillWithMatchValid(s, t, oracle, next)
  PROVE  Reached(o, fulfill_perp_order_with_match(s, t, oracle, next), U, 0)
<1> DEFINE jit == Jit(s, t, oracle, next)
           f == JitFill(s, t, jit)
           a == AfterJit(s, t, jit)
           l == LeftToMatch(s, t, jit)
<1>1. fulfill_perp_order_with_match(s, t, oracle, next) = MatchOrders(a, l)
  BY DEF fulfill_perp_order_with_match
<1>2. FillsJit(s, t, jit) => FillWithAmmValid(s, f)
  BY DEF FillWithMatchValid
<1>3. Market(s.m)
  BY ReachedParts
<1>4. jit.base \in Int /\ Multiple(jit.base)
  BY <1>3, JitType DEF Jit, GoodMatch
<1>5. a = IF FillsJit(s, t, jit) THEN fulfill_perp_order_with_amm(s, f) ELSE s
  BY DEF AfterJit
<1> HIDE DEF jit
<1>6. GoodMatch(l) /\ l.taker \in U /\ l.maker \in U
  BY <1>4, LeftGood
<1>7. /\ f.taker = t.taker /\ f.base = jit.base /\ f.fill_price = t.price /\ f.filler = t.filler
      /\ f.referrer = NoUser
  BY DEF JitFill
<1> HIDE DEF a, l, f
<1>8. Reached(o, a, U, 0)
  <2>1. CASE FillsJit(s, t, jit)
    <3>1. SwapBaseAssetValid(s.m, f.base, SwapDirection(f.direction)) /\ LpsTakeValid(s, f)
      BY <1>2, <2>1 DEF FillWithAmmValid
    <3>2. GoodFill(s.m, f) /\ f.taker \in U
      BY <1>4, <1>7, <3>1 DEF GoodFill, GoodMatch
    <3> DEFINE z == 0
    <3>3. z \in Int /\ Reached(o, s, U, z)
      OBVIOUS
    <3> HIDE DEF z
    <3>4. Reached(o, fulfill_perp_order_with_amm(s, f), U, z)
      BY <3>1, <3>2, <3>3, ReachedAmm
    <3> QED
      BY <1>5, <2>1, <3>4 DEF z
  <2>2. CASE ~FillsJit(s, t, jit)
    BY <1>5, <2>2
  <2> QED
    BY <2>1, <2>2
<1>9. Reached(o, MatchOrders(a, l), U, 0)
  BY <1>6, <1>8, ReachedMatch
<1> QED
  BY <1>1, <1>9

(* What an order fills is a number of steps.                               *)
LEMMA LiquidityMultiple ==
  ASSUME NEW m, Market(m), NEW direction
  PROVE  /\ calculate_amm_available_liquidity(m, direction) \in Int
         /\ Multiple(calculate_amm_available_liquidity(m, direction))
<1> DEFINE a == m.base_asset_reserve \div max_fill_reserve_fraction
           side == IF direction = "Long" THEN max_bids(m) \div 2 ELSE (-max_asks(m)) \div 2
<1>1. /\ m.base_asset_reserve \in Int /\ m.min_base_asset_reserve \in Int
      /\ m.max_base_asset_reserve \in Int
  BY MarketNumbers
<1>2. max_fill_reserve_fraction \in Nat \ {0}
  BY CurveConstants
<1>3. a \in Int
  BY <1>1, <1>2, DivType
<1>4. max_bids(m) \in Int /\ max_asks(m) \in Int
  BY <1>1 DEF max_bids, max_asks, Greatest
<1>5. side \in Int
  BY <1>4
<1>6. calculate_amm_available_liquidity(m, direction)
        = standardize_base_asset_amount(Least(a, side), order_step_size)
  BY DEF calculate_amm_available_liquidity
<1> HIDE DEF a, side
<1>7. Least(a, side) \in Int
  BY <1>3, <1>5 DEF Least
<1> QED
  BY <1>6, <1>7, Standardized

LEMMA OrderMultiple ==
  ASSUME NEW m, NEW p, Position(p), NEW base, Multiple(base), NEW direction
  PROVE  OrderBase(m, p, base, direction) \in Int /\ Multiple(OrderBase(m, p, base, direction))
<1>1. Multiple(p.base_asset_amount) /\ p.base_asset_amount \in Int
  BY PositionNumbers DEF Position
<1>2. Multiple(Abs(p.base_asset_amount))
  BY <1>1, MultipleAdd DEF Abs
<1>3. Multiple(Least(base, Abs(p.base_asset_amount)))
  BY <1>2 DEF Least
<1>4. Multiple(OrderBase(m, p, base, direction))
  BY <1>3, MultipleZero DEF OrderBase
<1> QED
  BY <1>4, MultipleAdd

(***************************************************************************)
(* The inductive invariant, and what the end of a handler does to it.      *)
(***************************************************************************)

Ledger == Sound(s0) /\ NetBase(market) = 0 /\ FundingOwedOnce

Pools ==
  /\ market.pnl_pool \in Nat /\ market.fee_pool \in Nat /\ revenue_pool \in Nat
  /\ tokens \in [Users -> Int]
  /\ deposited \in Int
  /\ TokensConserved

Environment ==
  /\ scenario \in Scenarios
  /\ oracle_price \in Int /\ last_revenue_settle_ts \in Int
  /\ now \in 0 .. scenario.max_time
  /\ transactions \in 0 .. scenario.max_transactions

IInv == Ledger /\ Pools /\ Environment

LEMMA Distribute ==
  ASSUME NEW a \in Int, NEW b \in Int, NEW c \in Int, NEW d \in Int
  PROVE  (a - b) * d = (c - b) * d + (a - c) * d
OBVIOUS

LEMMA NothingOwed ==
  ASSUME NEW a \in Int, NEW b \in Int, NEW c \in Int
  PROVE  (a - b) * 0 = 0 + (a - c) * 0
OBVIOUS

LEMMA SoundNow ==
  ASSUME Sound(s0)
  PROVE  /\ s0.m = market /\ s0.positions = positions /\ Market(market)
         /\ positions = [u \in Users |-> positions[u]]
         /\ \A u \in Users : Position(positions[u])
         /\ TotalsMatch(market, positions)
<1>1. s0.m = market /\ s0.positions = positions
  BY DEF s0
<1> QED
  BY <1>1 DEF Sound

(* A position owes the rate that was added at the end of the handler, and  *)
(* what it owed before when it did not pay.                                *)
LEMMA FundingAfter ==
  ASSUME FundingOwedOnce, NEW o, o.positions = positions, \A f \in CumulativeFields : o.m[f] = market[f],
         NEW s, NEW U, Reached(o, s, U, 0), NEW x, Market(x), Sound(s0), NEW u \in Users
  PROVE  LET p == s.positions[u]
             base == p.base_asset_amount
         IN  (CumulativeFundingRate(x, base) - p.last_cumulative_funding_rate) * base
               = (IF u \in U THEN 0 ELSE funding_due[u])
                   + (CumulativeFundingRate(x, base) - CumulativeFundingRate(market, base)) * base
<1> DEFINE p == s.positions[u]
           base == p.base_asset_amount
           last == p.last_cumulative_funding_rate
           a == CumulativeFundingRate(x, base)
           c == CumulativeFundingRate(market, base)
<1>1. Position(p) /\ Market(market) /\ Market(s.m)
  BY ReachedParts, SoundNow
<1>2. base \in Int /\ last \in Int
  BY <1>1, PositionNumbers
<1>3. a \in Int /\ c \in Int
  BY <1>1, RateType
<1>4. CumulativeFundingRate(s.m, base) = c
  <2>1. \A f \in CumulativeFields : s.m[f] = market[f]
    BY DEF Reached, KeptFields, CumulativeFields
  <2> QED
    BY <2>1 DEF CumulativeFundingRate, CumulativeFields
<1>5. CASE u \in U
  <2>1. base # 0 => last = c
    <3>1. FundingUpToDate(s.m, p)
      BY <1>5, ReachedParts
    <3> QED
      BY <1>4, <3>1 DEF FundingUpToDate
  <2> HIDE DEF base, last, a, c
  <2>2. CASE base = 0
    BY <1>2, <1>3, <1>5, <2>2, NothingOwed DEF base, last, a, c
  <2>3. CASE base # 0
    <3>1. (a - last) * base = (a - c) * base
      BY <2>1, <2>3
    <3>2. (a - c) * base \in Int
      BY <1>2, <1>3
    <3>3. (a - last) * base = 0 + (a - c) * base
      BY <3>1, <3>2
    <3> QED
      BY <1>5, <3>3 DEF base, last, a, c
  <2> QED
    BY <2>2, <2>3
<1>6. CASE u \notin U
  <2>1. SameFunding(positions[u], p)
    BY <1>6 DEF Reached
  <2>2. (CumulativeFundingRate(market, positions[u].base_asset_amount)
          - positions[u].last_cumulative_funding_rate) * positions[u].base_asset_amount
          = funding_due[u]
    BY DEF FundingOwedOnce
  <2>3. (c - last) * base = funding_due[u]
    BY <2>1, <2>2 DEF SameFunding
  <2> HIDE DEF base, last, a, c
  <2>4. (a - last) * base = (c - last) * base + (a - c) * base
    BY <1>2, <1>3, Distribute
  <2>5. (a - last) * base = funding_due[u] + (a - c) * base
    BY <2>3, <2>4
  <2> QED
    BY <1>6, <2>5 DEF base, last, a, c
<1> QED
  BY <1>5, <1>6

LEMMA CommitLedger ==
  ASSUME Ledger, NEW o, o.positions = positions, \A f \in CumulativeFields : o.m[f] = market[f],
         NEW s, NEW U, Reached(o, s, U, 0), NEW x, Market(x),
         Changed(s.m, x, CurveFields \cup RateFields),
         Commit([m |-> x, positions |-> s.positions], U)
  PROVE  Ledger' /\ market'.pnl_pool = o.m.pnl_pool /\ market'.fee_pool = o.m.fee_pool
<1> DEFINE v == [m |-> x, positions |-> s.positions]
<1>1. v.m = x /\ v.positions = s.positions
  OBVIOUS
<1>2. /\ market' = x /\ positions' = s.positions
      /\ funding_due' =
           [u \in Users |->
              LET base == s.positions[u].base_asset_amount
              IN  (IF u \in U THEN 0 ELSE funding_due[u])
                    + (CumulativeFundingRate(x, base) - CumulativeFundingRate(market, base)) * base]
  BY <1>1 DEF Commit
<1>3. DOMAIN s.m = Fields /\ Sound(s)
  BY ReachedParts, MarketNumbers
<1>4. /\ CountedFields \cup NetFields \cup {"pnl_pool", "fee_pool"} \subseteq Fields
      /\ (CountedFields \cup NetFields \cup {"pnl_pool", "fee_pool"})
           \cap (CurveFields \cup RateFields) = {}
  BY DEF CountedFields, NetFields, Fields, IntegerFields, CurveFields, LedgerFields, OtherFields,
         RateFields
<1>5. \A f \in CountedFields \cup NetFields \cup {"pnl_pool", "fee_pool"} : x[f] = s.m[f]
  BY <1>3, <1>4 DEF Changed
<1>6. Sound(v)
  BY <1>3, <1>5, SoundMarket
<1> HIDE DEF v
<1>7. Sound(s0)'
  <2>1. s0' = v
    BY <1>2 DEF s0, v
  <2> QED
    BY <1>6, <2>1
<1>8. NetBase(market)' = 0
  <2>1. NetBase(x) = NetBase(s.m)
    BY <1>5 DEF NetBase, CountedFields, NetFields
  <2> QED
    BY <1>2, <2>1 DEF Reached
<1>9. FundingOwedOnce'
  <2> SUFFICES ASSUME NEW u \in Users
               PROVE  (CumulativeFundingRate(market', positions'[u].base_asset_amount)
                         - positions'[u].last_cumulative_funding_rate)
                        * positions'[u].base_asset_amount = funding_due'[u]
    BY DEF FundingOwedOnce
  <2> QED
    BY <1>2, FundingAfter DEF Ledger
<1>10. x.pnl_pool = o.m.pnl_pool /\ x.fee_pool = o.m.fee_pool
  BY <1>5 DEF Reached, KeptFields
<1> QED
  BY <1>2, <1>7, <1>8, <1>9, <1>10 DEF Ledger

LEMMA SelfChanged ==
  ASSUME NEW m, Market(m), NEW S
  PROVE  Changed(m, m, S)
BY MarketNumbers DEF Changed

LEMMA CommitPlain ==
  ASSUME Ledger, NEW s, NEW U, Reached(s0, s, U, 0), Commit(s, U)
  PROVE  Ledger' /\ market'.pnl_pool = market.pnl_pool /\ market'.fee_pool = market.fee_pool
<1>1. s0.m = market /\ s0.positions = positions
  BY DEF s0
<1>2. s = [m |-> s.m, positions |-> s.positions] /\ Market(s.m)
  BY ReachedParts
<1>3. Changed(s.m, s.m, CurveFields \cup RateFields)
  BY <1>2, SelfChanged
<1>4. Commit([m |-> s.m, positions |-> s.positions], U)
  BY <1>2
<1>5. Ledger' /\ market'.pnl_pool = s0.m.pnl_pool /\ market'.fee_pool = s0.m.fee_pool
  BY <1>1, <1>2, <1>3, <1>4, CommitLedger
<1> QED
  BY <1>1, <1>5

LEMMA CommitRates ==
  ASSUME Ledger, NEW s, NEW U, Reached(s0, s, U, 0), now \in Int, NEW x \in FundingUpdates(s.m),
         Commit([m |-> x, positions |-> s.positions], U)
  PROVE  Ledger' /\ market'.pnl_pool = market.pnl_pool /\ market'.fee_pool = market.fee_pool
<1>1. s0.m = market /\ s0.positions = positions
  BY DEF s0
<1>2. Market(s.m)
  BY ReachedParts
<1>3. PICK rate \in FundingRates : UpdateFundingRateValid(s.m, rate)
                                   /\ x = update_funding_rate(s.m, rate, now)
  BY DEF FundingUpdates
<1>4. rate \in Int
  BY EnvironmentAssumption DEF EnvironmentAssumption
<1>5. Market(x) /\ Changed(s.m, x, CurveFields \cup RateFields)
  BY <1>2, <1>3, <1>4, FundingRateUpdated
<1>6. Ledger' /\ market'.pnl_pool = s0.m.pnl_pool /\ market'.fee_pool = s0.m.fee_pool
  BY <1>1, <1>5, CommitLedger
<1> QED
  BY <1>1, <1>6

LEMMA CommitFilled ==
  ASSUME Ledger, NEW s, NEW U, Reached(s0, s, U, 0), now \in Int, CommitFill(s, U)
  PROVE  Ledger' /\ market'.pnl_pool = market.pnl_pool /\ market'.fee_pool = market.fee_pool
<1>1. CASE FundingIsDue(s.m)
  <2>1. PICK x \in FundingUpdates(s.m) : Commit([s EXCEPT !.m = x], U)
    BY <1>1 DEF CommitFill
  <2>2. s = [m |-> s.m, positions |-> s.positions]
    BY ReachedParts
  <2>3. [s EXCEPT !.m = x] = [m |-> x, positions |-> s.positions]
    BY <2>2
  <2>4. Commit([m |-> x, positions |-> s.positions], U)
    BY <2>1, <2>3
  <2> QED
    BY <2>4, CommitRates
<1>2. CASE ~FundingIsDue(s.m)
  <2>1. Commit(s, U)
    BY <1>2 DEF CommitFill
  <2> QED
    BY <2>1, CommitPlain
<1> QED
  BY <1>1, <1>2

(* The handlers that change the market alone.                              *)
LEMMA ReachedStart ==
  ASSUME Ledger
  PROVE  Reached(s0, s0, {}, 0) /\ s0.m = market /\ s0.positions = positions /\ Market(market)
<1>1. s0.m = market /\ s0.positions = positions
  BY DEF s0
<1>2. Reached(s0, s0, {}, 0)
  BY <1>1, ReachedNow DEF Ledger
<1> QED
  BY <1>1, <1>2, SoundNow DEF Ledger

LEMMA ReachedMoved ==
  ASSUME NEW t, NEW s, NEW U, Reached(t, s, U, 0), NEW x, Moved(s.m, x)
  PROVE  Reached(t, [m |-> x, positions |-> s.positions], U, 0)
<1> DEFINE z == 0
<1>1. z \in Int /\ Reached(t, s, U, z)
  OBVIOUS
<1> HIDE DEF z
<1>2. Booked(s.m, EmptyPosition, x, EmptyPosition, 0)
  BY <1>1, EmptyIsPosition, MovedBooked, ReachedParts
<1>3. Reached(t, [m |-> x, positions |-> s.positions], U, z)
  BY <1>1, <1>2, ReachedMarket
<1> QED
  BY <1>3 DEF z

LEMMA CommitMoved ==
  ASSUME Ledger, NEW x, Moved(market, x), CommitMarket(x)
  PROVE  Ledger' /\ market'.pnl_pool = market.pnl_pool /\ market'.fee_pool = market.fee_pool
<1> DEFINE s == [m |-> x, positions |-> positions]
<1>1. Reached(s0, s, {}, 0)
  <2>1. Reached(s0, [m |-> x, positions |-> s0.positions], {}, 0)
    BY ReachedStart, ReachedMoved
  <2> QED
    BY <2>1, ReachedStart
<1>2. Commit(s, {})
  BY DEF CommitMarket
<1> HIDE DEF s
<1> QED
  BY <1>1, <1>2, CommitPlain

LEMMA CommitPools ==
  ASSUME Ledger, NEW x, Market(x), NEW S, Changed(market, x, S),
         S \cap (CountedFields \cup NetFields \cup CumulativeFields) = {}, CommitMarket(x)
  PROVE  Ledger' /\ market'.pnl_pool = x.pnl_pool /\ market'.fee_pool = x.fee_pool
<1> DEFINE s == [m |-> x, positions |-> positions]
<1>1. Reached(s, s, {}, 0)
  <2>1. Reached([m |-> x, positions |-> s0.positions], [m |-> x, positions |-> s0.positions], {}, 0)
    BY ReachedStart, PoolsReached
  <2> QED
    BY <2>1, ReachedStart
<1>2. Commit(s, {})
  BY DEF CommitMarket
<1>3. s.m = x /\ s.positions = positions /\ s = [m |-> s.m, positions |-> s.positions]
  OBVIOUS
<1> HIDE DEF s
<1>4. \A f \in CumulativeFields : s.m[f] = market[f]
  <2>1. DOMAIN market = Fields /\ CumulativeFields \subseteq Fields
    BY ReachedStart, MarketNumbers DEF CumulativeFields, Fields, IntegerFields, OtherFields
  <2> QED
    BY <1>3, <2>1 DEF Changed
<1>5. Changed(s.m, s.m, CurveFields \cup RateFields)
  BY <1>3, SelfChanged
<1>6. Commit([m |-> s.m, positions |-> s.positions], {})
  BY <1>2, <1>3
<1>7. Ledger' /\ market'.pnl_pool = s.m.pnl_pool /\ market'.fee_pool = s.m.fee_pool
  BY <1>1, <1>3, <1>4, <1>5, <1>6, CommitLedger
<1> QED
  BY <1>3, <1>7

(* What the other parts of the invariant need of a handler.                *)
LEMMA EnvironmentKept ==
  ASSUME Environment, UNCHANGED <<scenario, oracle_price, now, last_revenue_settle_ts>>,
         transactions < scenario.max_transactions, transactions' = transactions + 1
  PROVE  Environment'
<1>1. scenario.max_transactions \in Nat
  BY ScenarioAssumption DEF Environment
<1>2. transactions' \in 0 .. scenario.max_transactions
  BY <1>1 DEF Environment
<1> QED
  BY <1>2 DEF Environment

LEMMA PoolsKept ==
  ASSUME Pools, UNCHANGED <<tokens, revenue_pool, deposited>>,
         market'.pnl_pool = market.pnl_pool, market'.fee_pool = market.fee_pool
  PROVE  Pools'
BY DEF Pools, TokensConserved

LEMMA Handled ==
  ASSUME IInv, PoolsUnchanged, UNCHANGED <<scenario, oracle_price, now>>, NEW operation, Call(operation),
         transactions' = transactions + 1, Ledger',
         market'.pnl_pool = market.pnl_pool, market'.fee_pool = market.fee_pool
  PROVE  IInv'
<1>1. Environment'
  BY EnvironmentKept DEF IInv, PoolsUnchanged, Call
<1>2. Pools'
  BY PoolsKept DEF IInv, PoolsUnchanged
<1> QED
  BY <1>1, <1>2 DEF IInv

(* What the environment may ask for.                                       *)
LEMMA AskedFor ==
  ASSUME Environment
  PROVE  /\ \A base \in scenario.order_sizes : base \in Int /\ Multiple(base)
         /\ \A price \in scenario.limit_prices \cup {0} : price \in Int
         /\ \A k \in scenario.sqrt_ks : k \in Nat \ {0}
         /\ \A price \in scenario.oracle_prices : price \in Int
         /\ scenario.fillers \subseteq Users \cup {NoUser}
         /\ \A u \in Users : scenario.referrer[u] \in Users \cup {NoUser}
         /\ oracle_price \in Int /\ now \in Nat /\ now \in Int
<1>1. /\ scenario.referrer \in [Users -> Users \cup {NoUser}]
      /\ scenario.fillers \subseteq Users \cup {NoUser}
      /\ scenario.order_sizes \cup scenario.limit_prices \cup scenario.sqrt_ks \cup scenario.oracle_prices
           \subseteq Nat \ {0}
      /\ \A base \in scenario.order_sizes : is_multiple_of_step_size(base, order_step_size)
      /\ scenario.max_time \in Nat
  BY ScenarioAssumption DEF Environment
<1>2. \A base \in scenario.order_sizes : base \in Int /\ Multiple(base)
  BY <1>1, MultipleMeans
<1>3. oracle_price \in Int /\ now \in Nat /\ now \in Int
  BY <1>1 DEF Environment
<1> QED
  BY <1>1, <1>2, <1>3

LEMMA ReachedFunding ==
  ASSUME NEW t, NEW s, NEW U, NEW n \in Int, Reached(t, s, U, n), NEW u \in Users
  PROVE  Reached(t, SettleFunding(s, u), U \cup {u}, n)
<1> DEFINE r == settle_funding_payment(s.m, s.positions[u])
<1>1. Booked(s.m, s.positions[u], r.m, r.p, 0) /\ FundingUpToDate(r.m, r.p)
  BY ReachedParts, FundingBooked
<1> HIDE DEF r
<1>2. Reached(t, With(s, u, r), U \cup {u}, n)
  BY <1>1, ReachedSettled
<1> QED
  BY <1>2 DEF SettleFunding, r

LEMMA ReachedFundingThenLp ==
  ASSUME NEW t, NEW s, NEW U, NEW n \in Int, Reached(t, s, U, n), NEW u \in Users
  PROVE  Reached(t, SettleFundingThenLp(s, u), U \cup {u}, n)
<1> DEFINE r == settle_funding_payment_then_lp(s.m, s.positions[u])
<1>1. Booked(s.m, s.positions[u], r.m, r.p, 0) /\ FundingUpToDate(r.m, r.p)
  BY ReachedParts, FundingThenLpBooked
<1> HIDE DEF r
<1>2. Reached(t, With(s, u, r), U \cup {u}, n)
  BY <1>1, ReachedSettled
<1> QED
  BY <1>2 DEF SettleFundingThenLp, r

(* The state in which a fill or the settlement of pnl starts.              *)
LEMMA ReachedReady ==
  ASSUME Ledger, Environment, UpdateAmmValid(market, oracle_price), NEW u \in Users
  PROVE  Reached(s0, SettleFundingThenLp(update_amm(s0), u), {u}, 0)
<1> DEFINE x == _update_amm(market, oracle_price)
           a == [m |-> x, positions |-> positions]
           z == 0
<1>1. /\ Reached(s0, s0, {}, 0) /\ s0.m = market /\ s0.positions = positions /\ Market(market)
      /\ s0 = [m |-> market, positions |-> positions]
  BY ReachedStart DEF s0
<1>2. Moved(market, x)
  BY <1>1, UpdateAmmMoves, AskedFor
<1> HIDE DEF x
<1>3. Reached(s0, [m |-> x, positions |-> s0.positions], {}, 0)
  BY <1>1, <1>2, ReachedMoved
<1>4. update_amm(s0) = a
  BY <1>1 DEF update_amm, x
<1>5. Reached(s0, a, {}, z) /\ z \in Int
  BY <1>1, <1>3
<1> HIDE DEF a, z
<1>6. Reached(s0, SettleFundingThenLp(a, u), {} \cup {u}, z)
  BY <1>5, ReachedFundingThenLp
<1>7. {} \cup {u} = {u}
  OBVIOUS
<1> QED
  BY <1>4, <1>6, <1>7 DEF z

(***************************************************************************)
(* One lemma per handler.                                                  *)
(***************************************************************************)

LEMMA FillWithAmmHandled ==
  ASSUME IInv, NEW taker \in Users, NEW filler \in scenario.fillers, NEW base \in scenario.order_sizes,
         NEW direction \in Directions, NEW price \in scenario.limit_prices \cup {0},
         FillWithAmm(taker, base, direction, price, filler)
  PROVE  IInv'
<1> DEFINE s == ReadyToFill(taker)
           f == AmmFill(s, taker, base, direction, price, filler)
           v == fulfill_perp_order_with_amm(s, f)
           o == OrderBase(s.m, s.positions[taker], base, direction)
           l == calculate_amm_available_liquidity(s.m, direction)
           z == 0
<1>1. Ledger /\ Environment
  BY DEF IInv
<1>2. /\ CanFill(s, taker) /\ FillWithAmmValid(s, f) /\ CommitFill(v, {taker})
      /\ Call("trade") /\ PoolsUnchanged /\ EnvironmentUnchanged
  BY DEF FillWithAmm
<1>3. UpdateAmmValid(market, oracle_price)
  BY <1>2 DEF CanFill
<1>4. Reached(s0, s, {taker}, z) /\ z \in Int
  BY <1>1, <1>3, ReachedReady DEF ReadyToFill
<1> HIDE DEF s, z
<1>5. Market(s.m) /\ Position(s.positions[taker])
  BY <1>4, ReachedParts
<1>6. /\ f.taker = taker /\ f.base = Least(o, l) /\ f.fill_price = price /\ f.filler = filler
      /\ f.referrer = scenario.referrer[taker]
  BY DEF AmmFill
<1>7. base \in Int /\ Multiple(base) /\ price \in Int /\ filler \in Users \cup {NoUser}
      /\ scenario.referrer[taker] \in Users \cup {NoUser} /\ now \in Int
  BY <1>1, AskedFor
<1>8. o \in Int /\ Multiple(o) /\ l \in Int /\ Multiple(l)
  BY <1>5, <1>7, OrderMultiple, LiquidityMultiple
<1> HIDE DEF f, o, l, v
<1>9. f.base \in Int /\ Multiple(f.base)
  BY <1>6, <1>8 DEF Least
<1>10. SwapBaseAssetValid(s.m, f.base, SwapDirection(f.direction)) /\ LpsTakeValid(s, f)
  BY <1>2 DEF FillWithAmmValid
<1>11. GoodFill(s.m, f) /\ f.taker \in {taker}
  BY <1>6, <1>7, <1>9, <1>10 DEF GoodFill
<1>12. Reached(s0, v, {taker}, z)
  BY <1>4, <1>10, <1>11, ReachedAmm DEF v
<1>13. Reached(s0, v, {taker}, 0)
  BY <1>12 DEF z
<1>14. Ledger' /\ market'.pnl_pool = market.pnl_pool /\ market'.fee_pool = market.fee_pool
  BY <1>1, <1>2, <1>7, <1>13, CommitFilled
<1>15. transactions' = transactions + 1
  BY <1>2 DEF CommitFill, Commit
<1> QED
  BY <1>2, <1>14, <1>15, Handled DEF EnvironmentUnchanged

LEMMA FillWithMatchHandled ==
  ASSUME IInv, NEW taker \in Users, NEW maker \in Users, NEW filler \in scenario.fillers,
         NEW base \in scenario.order_sizes, NEW maker_base \in scenario.order_sizes,
         NEW direction \in Directions, NEW price \in scenario.limit_prices,
         NEW has_limit_price \in BOOLEAN,
         FillWithMatch(taker, maker, base, maker_base, direction, price, has_limit_price, filler)
  PROVE  IInv'
<1> DEFINE a == ReadyToFill(taker)
           s == SettleFunding(a, maker)
           t == Match(s, taker, maker, base, maker_base, direction, price, filler)
           next == ~has_limit_price /\ t.maker_base < t.taker_base
           v == fulfill_perp_order_with_match(s, t, oracle_price, next)
           taken == OrderBase(s.m, s.positions[taker], base, direction)
           made == OrderBase(s.m, s.positions[maker], maker_base, Opposite(direction))
           U == {taker} \cup {maker}
           z == 0
<1>1. Ledger /\ Environment
  BY DEF IInv
<1>2. /\ CanFill(s, taker) /\ FillWithMatchValid(s, t, oracle_price, next)
      /\ CommitFill(v, {taker, maker})
      /\ Call("match") /\ PoolsUnchanged /\ EnvironmentUnchanged
  BY DEF FillWithMatch
<1>3. UpdateAmmValid(market, oracle_price)
  BY <1>2 DEF CanFill
<1>4. Reached(s0, a, {taker}, z) /\ z \in Int
  BY <1>1, <1>3, ReachedReady DEF ReadyToFill
<1> HIDE DEF a, z
<1>5. Reached(s0, s, U, z)
  BY <1>4, ReachedFunding
<1> HIDE DEF s
<1>6. Market(s.m) /\ Position(s.positions[taker]) /\ Position(s.positions[maker])
  BY <1>5, ReachedParts
<1>7. t = [ taker |-> taker, maker |-> maker, base |-> Least(taken, made), taker_base |-> taken,
            maker_base |-> made, direction |-> direction, price |-> price, filler |-> filler,
            referrer |-> scenario.referrer[taker] ]
  BY DEF Match
<1>8. /\ base \in Int /\ Multiple(base) /\ maker_base \in Int /\ Multiple(maker_base)
      /\ price \in Int /\ filler \in Users \cup {NoUser}
      /\ scenario.referrer[taker] \in Users \cup {NoUser} /\ now \in Int /\ oracle_price \in Int
  BY <1>1, AskedFor
<1>9. taken \in Int /\ Multiple(taken) /\ made \in Int /\ Multiple(made)
  BY <1>6, <1>8, OrderMultiple
<1> HIDE DEF taken, made, next, v, t
<1>10. MatchRecord(t)
  BY <1>7 DEF MatchRecord
<1>11. /\ t.taker = taker /\ t.maker = maker /\ t.base = Least(taken, made) /\ t.taker_base = taken
       /\ t.maker_base = made /\ t.price = price /\ t.filler = filler
       /\ t.referrer = scenario.referrer[taker]
  BY <1>7
<1>12. t.base \in Int /\ Multiple(t.base)
  BY <1>9, <1>11 DEF Least
<1>13. GoodMatch(t) /\ Multiple(t.taker_base) /\ Multiple(t.maker_base) /\ t.taker \in U /\ t.maker \in U
  BY <1>8, <1>9, <1>11, <1>12 DEF GoodMatch
<1>14. Reached(s0, s, U, 0)
  BY <1>5 DEF z
<1> HIDE DEF U
<1>15. Reached(s0, v, U, 0)
  BY <1>2, <1>8, <1>10, <1>13, <1>14, ReachedMatched DEF v
<1>16. CommitFill(v, U)
  <2>1. {taker, maker} = U
    BY DEF U
  <2> QED
    BY <1>2, <2>1
<1>17. Ledger' /\ market'.pnl_pool = market.pnl_pool /\ market'.fee_pool = market.fee_pool
  BY <1>1, <1>8, <1>15, <1>16, CommitFilled
<1>18. transactions' = transactions + 1
  BY <1>2 DEF CommitFill, Commit
<1> QED
  BY <1>2, <1>17, <1>18, Handled DEF EnvironmentUnchanged

(* The handlers that only move the curve.                                  *)
LEMMA MovedHandled ==
  ASSUME IInv, NEW x, Moved(market, x), CommitMarket(x), NEW operation, Call(operation), PoolsUnchanged,
         EnvironmentUnchanged
  PROVE  IInv'
<1>1. Ledger' /\ market'.pnl_pool = market.pnl_pool /\ market'.fee_pool = market.fee_pool
  BY CommitMoved DEF IInv
<1>2. transactions' = transactions + 1
  BY DEF CommitMarket, Commit
<1> QED
  BY <1>1, <1>2, Handled DEF EnvironmentUnchanged

LEMMA MarketNow ==
  ASSUME IInv
  PROVE  Ledger /\ Pools /\ Environment /\ Market(market) /\ oracle_price \in Int /\ now \in Int
BY ReachedStart, AskedFor DEF IInv

LEMMA UpdateAmmsHandled ==
  ASSUME IInv, UpdateAmms
  PROVE  IInv'
<1> DEFINE x == _update_amm(market, oracle_price)
<1>1. /\ CommitMarket(x) /\ Call("curve") /\ PoolsUnchanged /\ EnvironmentUnchanged
      /\ UpdateAmmValid(market, oracle_price)
  BY DEF UpdateAmms
<1>2. Moved(market, x)
  BY <1>1, MarketNow, UpdateAmmMoves
<1> HIDE DEF x
<1> QED
  BY <1>1, <1>2, MovedHandled

LEMMA RepegAmmCurveHandled ==
  ASSUME IInv, NEW peg \in Pegs, RepegAmmCurve(peg)
  PROVE  IInv'
<1> DEFINE x == repeg(market, peg)
<1>1. /\ CommitMarket(x) /\ Call("curve") /\ PoolsUnchanged /\ EnvironmentUnchanged
      /\ RepegValid(market, peg, oracle_price, 0)
  BY DEF RepegAmmCurve
<1>2. peg \in Int
  BY EnvironmentAssumption DEF EnvironmentAssumption
<1>3. NetPositionClosable(market)
  BY <1>1 DEF RepegValid
<1>4. Moved(market, x)
  BY <1>2, <1>3, MarketNow, RepegMoves
<1> HIDE DEF x
<1> QED
  BY <1>1, <1>4, MovedHandled

LEMMA UpdateKHandled ==
  ASSUME IInv, NEW k \in scenario.sqrt_ks, UpdateK(k)
  PROVE  IInv'
<1> DEFINE result == get_update_k_result(market, k)
           cost == adjust_k_cost(market, result)
           m == update_k(market, result)
           x == apply_cost_to_market(m, cost)
<1>1. /\ CommitMarket(x) /\ Call("curve") /\ PoolsUnchanged /\ EnvironmentUnchanged
      /\ UpdateKValid(market, k, TRUE) /\ NetPositionClosable(market) /\ NetPositionClosable(m)
  BY DEF UpdateK
<1>2. k \in Int
  BY MarketNow, AskedFor
<1>3. Moved(market, x)
  BY <1>1, <1>2, MarketNow, NewKAtCost
<1> HIDE DEF x
<1> QED
  BY <1>1, <1>3, MovedHandled

LEMMA UpdateConcentrationCoefHandled ==
  ASSUME IInv, NEW scale \in ConcentrationScales, UpdateConcentrationCoef(scale)
  PROVE  IInv'
<1> DEFINE x == update_concentration_coef(market, scale)
<1>1. /\ CommitMarket(x) /\ Call("curve") /\ PoolsUnchanged /\ EnvironmentUnchanged
      /\ ConcentrationValid(market, scale)
  BY DEF UpdateConcentrationCoef
<1>2. scale \in Nat \ {0}
  BY EnvironmentAssumption DEF EnvironmentAssumption
<1>3. Moved(market, x)
  BY <1>1, <1>2, MarketNow, ConcentrationMoves
<1> HIDE DEF x
<1> QED
  BY <1>1, <1>3, MovedHandled

LEMMA MoveAmmPriceHandled ==
  ASSUME IInv, NEW base \in scenario.sqrt_ks, NEW k \in scenario.sqrt_ks, MoveAmmPrice(base, k)
  PROVE  IInv'
<1> DEFINE x == move_price(market, base, k)
<1>1. /\ CommitMarket(x) /\ Call("admin") /\ PoolsUnchanged /\ EnvironmentUnchanged
      /\ MovePriceValid(market, base, (k * k) \div base, k)
  BY DEF MoveAmmPrice
<1>2. base \in Nat \ {0} /\ k \in Nat \ {0}
  BY MarketNow, AskedFor
<1>3. (k * k) \div base > 0 /\ base + market.base_asset_amount_with_amm > 0
  BY <1>1 DEF MovePriceValid
<1>4. Moved(market, x)
  BY <1>2, <1>3, MarketNow, PriceMoves
<1> HIDE DEF x
<1> QED
  BY <1>1, <1>4, MovedHandled

LEMMA RecenterPerpMarketAmmHandled ==
  ASSUME IInv, NEW peg \in Pegs, NEW k \in scenario.sqrt_ks, RecenterPerpMarketAmm(peg, k)
  PROVE  IInv'
<1> DEFINE x == recenter_perp_market_amm(market, peg, k)
<1>1. /\ CommitMarket(x) /\ Call("admin") /\ PoolsUnchanged /\ EnvironmentUnchanged
      /\ RecenterValid(market, k)
  BY DEF RecenterPerpMarketAmm
<1>2. peg \in Int
  BY EnvironmentAssumption DEF EnvironmentAssumption
<1>3. k \in Nat \ {0}
  BY MarketNow, AskedFor
<1>4. Moved(market, x)
  BY <1>1, <1>2, <1>3, MarketNow, RecenterMoves
<1> HIDE DEF x
<1> QED
  BY <1>1, <1>4, MovedHandled

LEMMA UpdateAmmSummaryStatsHandled ==
  ASSUME IInv, UpdateAmmSummaryStats
  PROVE  IInv'
<1> DEFINE v == calculate_perp_market_amm_summary_stats(market, oracle_price)
           x == [market EXCEPT !.total_fee_minus_distributions = v]
           S == {"total_fee_minus_distributions"}
           base == market.base_asset_amount_with_amm + market.base_asset_amount_with_unsettled_lp
           value == Quot(base * oracle_price, AMM_RESERVE_PRECISION)
<1>1. CommitMarket(x) /\ Call("admin") /\ PoolsUnchanged /\ EnvironmentUnchanged
  BY DEF UpdateAmmSummaryStats
<1>2. Market(market) /\ oracle_price \in Int /\ market.pnl_pool \in Nat /\ market.fee_pool \in Nat
  BY MarketNow DEF Pools
<1>3. v \in Int
  <2>1. v = market.pnl_pool + market.fee_pool
              - (value + (market.quote_asset_amount + market.quote_asset_amount_with_unsettled_lp
                            + market.net_unsettled_funding_pnl))
    BY DEF calculate_perp_market_amm_summary_stats, calculate_net_user_pnl,
           calculate_net_user_cost_basis
  <2>2. /\ base \in Int /\ market.quote_asset_amount \in Int
        /\ market.quote_asset_amount_with_unsettled_lp \in Int
        /\ market.net_unsettled_funding_pnl \in Int
    BY <1>2, TotalNumbers
  <2> HIDE DEF base
  <2>3. AMM_RESERVE_PRECISION \in Int /\ AMM_RESERVE_PRECISION # 0 /\ base * oracle_price \in Int
    BY <1>2, <2>2, CurveConstants
  <2>4. value \in Int
    BY <2>3, QuotTypes
  <2> HIDE DEF value
  <2> QED
    BY <1>2, <2>1, <2>2, <2>4
<1> HIDE DEF v
<1>4. DOMAIN market = Fields /\ market = [f \in Fields |-> market[f]] /\ S \subseteq Fields
      /\ S \subseteq PlainFields /\ S \subseteq CurveFields
  BY <1>2, MarketNumbers DEF Fields, IntegerFields, CurveFields, PlainFields
<1>5. Changed(market, x, S) /\ x.total_fee_minus_distributions = v
  BY <1>4 DEF Changed
<1> HIDE DEF x
<1>6. Market(x)
  BY <1>2, <1>3, <1>4, <1>5, PlainMarket
<1>7. Moved(market, x)
  BY <1>4, <1>5, <1>6, ChangedMore DEF Moved
<1> QED
  BY <1>1, <1>7, MovedHandled

(* Funding.                                                                *)
LEMMA UpdateFundingRateHandled ==
  ASSUME IInv, UpdateFundingRate
  PROVE  IInv'
<1> DEFINE x == _update_amm(market, oracle_price)
           s == [m |-> x, positions |-> positions]
<1>1. PICK y \in FundingUpdates(x) : CommitMarket(y)
  BY DEF UpdateFundingRate
<1>2. /\ Call("funding") /\ PoolsUnchanged /\ EnvironmentUnchanged
      /\ UpdateAmmValid(market, oracle_price)
  BY DEF UpdateFundingRate
<1>3. Moved(market, x)
  BY <1>2, MarketNow, UpdateAmmMoves
<1> HIDE DEF x
<1>4. Reached(s0, s, {}, 0)
  <2>1. Reached(s0, [m |-> x, positions |-> s0.positions], {}, 0)
    BY <1>3, ReachedStart, ReachedMoved, MarketNow
  <2> QED
    BY <2>1, ReachedStart, MarketNow
<1>5. Commit([m |-> y, positions |-> s.positions], {}) /\ y \in FundingUpdates(s.m)
  BY <1>1 DEF CommitMarket
<1> HIDE DEF s
<1>6. Ledger' /\ market'.pnl_pool = market.pnl_pool /\ market'.fee_pool = market.fee_pool
  BY <1>4, <1>5, MarketNow, CommitRates
<1>7. transactions' = transactions + 1
  BY <1>5 DEF Commit
<1> QED
  BY <1>2, <1>6, <1>7, Handled DEF EnvironmentUnchanged

(* The handlers that change one position.                                  *)
LEMMA PlainHandled ==
  ASSUME IInv, NEW s, NEW U, Reached(s0, s, U, 0), Commit(s, U), NEW operation, Call(operation),
         PoolsUnchanged, UNCHANGED <<scenario, oracle_price, now>>
  PROVE  IInv'
<1>1. Ledger' /\ market'.pnl_pool = market.pnl_pool /\ market'.fee_pool = market.fee_pool
  BY CommitPlain DEF IInv
<1>2. transactions' = transactions + 1
  BY DEF Commit
<1> QED
  BY <1>1, <1>2, Handled

LEMMA ReachedFunded ==
  ASSUME IInv, NEW u \in Users
  PROVE  /\ Reached(s0, SettleFunding(s0, u), {u}, 0)
         /\ Reached(s0, SettleFundingThenLp(s0, u), {u}, 0)
<1> DEFINE z == 0
<1>1. Reached(s0, s0, {}, z) /\ z \in Int
  BY ReachedStart, MarketNow
<1> HIDE DEF z
<1>2. Reached(s0, SettleFunding(s0, u), {} \cup {u}, z)
  BY <1>1, ReachedFunding
<1>3. Reached(s0, SettleFundingThenLp(s0, u), {} \cup {u}, z)
  BY <1>1, ReachedFundingThenLp
<1>4. {} \cup {u} = {u}
  OBVIOUS
<1> QED
  BY <1>2, <1>3, <1>4 DEF z

LEMMA SettleFundingPaymentHandled ==
  ASSUME IInv, NEW u \in Users, SettleFundingPayment(u)
  PROVE  IInv'
<1> DEFINE s == SettleFunding(s0, u)
<1>1. Commit(s, {u}) /\ Call("funding") /\ PoolsUnchanged /\ EnvironmentUnchanged
  BY DEF SettleFundingPayment
<1>2. Reached(s0, s, {u}, 0)
  BY ReachedFunded
<1> HIDE DEF s
<1> QED
  BY <1>1, <1>2, PlainHandled DEF EnvironmentUnchanged

LEMMA SettleLpHandled ==
  ASSUME IInv, NEW u \in Users, SettleLp(u)
  PROVE  IInv'
<1> DEFINE s == SettleFundingThenLp(s0, u)
<1>1. Commit(s, {u}) /\ Call("lp") /\ PoolsUnchanged /\ EnvironmentUnchanged
  BY DEF SettleLp
<1>2. Reached(s0, s, {u}, 0)
  BY ReachedFunded
<1> HIDE DEF s
<1> QED
  BY <1>1, <1>2, PlainHandled DEF EnvironmentUnchanged

(* Liquidity providers.                                                    *)
LEMMA AddPerpLpSharesHandled ==
  ASSUME IInv, NEW u \in Users, NEW shares \in LpSizes, AddPerpLpShares(u, shares)
  PROVE  IInv'
<1> DEFINE n == standardize_base_asset_amount(shares, order_step_size)
           s == SettleFunding(s0, u)
           r == mint_lp_shares(s.m, s.positions[u], n)
           v == With(s, u, r)
           z == 0
<1>1. /\ UpdateKValid(s.m, s.m.sqrt_k + n, TRUE) /\ Commit(v, {u}) /\ Call("lp") /\ PoolsUnchanged
      /\ UNCHANGED <<scenario, oracle_price, now>>
  BY DEF AddPerpLpShares
<1>2. shares \in Int /\ shares >= 0
  BY EnvironmentAssumption DEF EnvironmentAssumption
<1>3. n \in Nat
  BY <1>2, Standardized
<1>4. Reached(s0, s, {u}, z) /\ z \in Int
  BY ReachedFunded
<1> HIDE DEF n, s, z
<1>5. Market(s.m) /\ Position(s.positions[u]) /\ FundingUpToDate(s.m, s.positions[u])
  BY <1>4, ReachedParts
<1>6. Booked(s.m, s.positions[u], r.m, r.p, 0) /\ FundingUpToDate(r.m, r.p)
  BY <1>1, <1>3, <1>5, SharesMinted
<1> HIDE DEF r
<1>7. Reached(s0, v, {u} \cup {u}, z)
  BY <1>4, <1>6, ReachedSettled
<1> HIDE DEF v
<1>8. {u} \cup {u} = {u}
  OBVIOUS
<1>9. Reached(s0, v, {u}, 0)
  BY <1>7, <1>8 DEF z
<1> QED
  BY <1>1, <1>9, PlainHandled

LEMMA FundingShares ==
  ASSUME NEW m, NEW p, Position(p)
  PROVE  settle_funding_payment(m, p).p.lp_shares = p.lp_shares
<1> DEFINE rate == CumulativeFundingRate(m, p.base_asset_amount)
           payment == calculate_funding_payment(m, p)
           q == [p EXCEPT !.last_cumulative_funding_rate = rate]
           a == update_quote_asset_amount(m, q, payment)
           b == update_quote_break_even_amount(a.m, a.p, payment)
           r == settle_funding_payment(m, p)
<1>1. r = IF p.base_asset_amount = 0 THEN [m |-> m, p |-> p]
          ELSE [b EXCEPT !.m.net_unsettled_funding_pnl = @ - payment]
  BY DEF settle_funding_payment, update_quote_asset_and_break_even_amount
<1>2. DOMAIN p = PositionFields /\ "lp_shares" \in PositionFields
  BY PositionNumbers DEF PositionFields
<1> HIDE DEF r, rate, payment
<1>3. q.lp_shares = p.lp_shares /\ DOMAIN q = PositionFields
  BY <1>2
<1> HIDE DEF q
<1>4. a.p = q \/ \E i : a.p = [q EXCEPT !.quote_asset_amount = i]
  BY DEF update_quote_asset_amount
<1> HIDE DEF a
<1>5. a.p.lp_shares = p.lp_shares /\ DOMAIN a.p = PositionFields
  BY <1>2, <1>3, <1>4
<1>6. /\ b.p = a.p \/ \E i : b.p = [a.p EXCEPT !.quote_break_even_amount = i]
      /\ b = [m |-> b.m, p |-> b.p]
  BY DEF update_quote_break_even_amount
<1> HIDE DEF b
<1>7. b.p.lp_shares = p.lp_shares
  BY <1>2, <1>5, <1>6
<1>8. [b EXCEPT !.m.net_unsettled_funding_pnl = @ - payment].p = b.p
  BY <1>6
<1>9. r.p = p \/ r.p = b.p
  BY <1>1, <1>8
<1> QED
  BY <1>7, <1>9 DEF r

LEMMA RemovePerpLpSharesHandled ==
  ASSUME IInv, NEW u \in Users, NEW shares \in LpSizes, RemovePerpLpShares(u, shares)
  PROVE  IInv'
<1> DEFINE n == SharesToBurn(u, shares)
           f == settle_funding_payment(market, positions[u])
           s == SettleFunding(s0, u)
           r == burn_lp_shares(s.m, s.positions[u], n, oracle_price)
           v == With(s, u, r)
           z == 0
<1>1. /\ n \in 1 .. positions[u].lp_shares /\ BurnValid(s.m, s.positions[u], n, oracle_price)
      /\ Commit(v, {u}) /\ Call("lp") /\ PoolsUnchanged /\ EnvironmentUnchanged
  BY DEF RemovePerpLpShares
<1>2. Ledger /\ oracle_price \in Int
  BY MarketNow
<1>3. Position(positions[u]) /\ positions = [w \in Users |-> positions[w]]
  BY <1>2, SoundNow DEF Ledger
<1>4. s.positions[u].lp_shares = positions[u].lp_shares
  <2>1. s.positions = [positions EXCEPT ![u] = f.p]
    BY DEF SettleFunding, With, s0
  <2>2. f.p.lp_shares = positions[u].lp_shares
    BY <1>3, FundingShares
  <2> HIDE DEF f
  <2>3. s.positions[u] = f.p
    BY <1>3, <2>1
  <2> QED
    BY <2>2, <2>3
<1>5. Reached(s0, s, {u}, z) /\ z \in Int
  BY ReachedFunded
<1> HIDE DEF n, s, z
<1>6. Market(s.m) /\ Position(s.positions[u]) /\ FundingUpToDate(s.m, s.positions[u])
  BY <1>5, ReachedParts
<1>7. s.positions[u].lp_shares \in Nat /\ s.m.user_lp_shares \in Nat
      /\ s.positions[u].lp_shares <= s.m.user_lp_shares
  <2>1. Sound(s)
    BY <1>5 DEF Reached
  <2>2. IsFiniteSet(Users)
    BY EnvironmentAssumption DEF EnvironmentAssumption
  <2>3. Shares(s.positions) \in [Users -> Nat]
    BY <2>1, PositionTotals DEF Sound
  <2>4. TotalOf(Shares(s.positions)) \in Nat
        /\ \A w \in Users : Shares(s.positions)[w] <= TotalOf(Shares(s.positions))
    BY <2>2, <2>3, TotalOfNaturals
  <2>5. Shares(s.positions)[u] = s.positions[u].lp_shares
    BY DEF Shares
  <2>6. s.m.user_lp_shares = TotalOf(Shares(s.positions))
    BY <2>1 DEF Sound, TotalsMatch
  <2>7. s.positions[u].lp_shares \in Nat
    BY <1>6, PositionNumbers
  <2> QED
    BY <2>4, <2>5, <2>6, <2>7
<1>8. n \in Nat /\ n <= s.positions[u].lp_shares /\ n <= s.m.user_lp_shares
  BY <1>1, <1>4, <1>7
<1>9. Booked(s.m, s.positions[u], r.m, r.p, 0) /\ FundingUpToDate(r.m, r.p)
  BY <1>1, <1>2, <1>6, <1>8, SharesBurnt
<1> HIDE DEF r
<1>10. Reached(s0, v, {u} \cup {u}, z)
  BY <1>5, <1>9, ReachedSettled
<1> HIDE DEF v
<1>11. {u} \cup {u} = {u}
  OBVIOUS
<1>12. Reached(s0, v, {u}, 0)
  BY <1>10, <1>11 DEF z
<1> QED
  BY <1>1, <1>12, PlainHandled DEF EnvironmentUnchanged

LEMMA UpdatePerLpBaseHandled ==
  ASSUME IInv, NEW expo_diff \in ExpoDiffs, UpdatePerLpBase(expo_diff)
  PROVE  IInv'
<1> DEFINE m == market
           n == m.per_lp_base + expo_diff
           b == Rebased(m.base_asset_amount_per_lp, expo_diff)
           c == Rebased(m.quote_asset_amount_per_lp, expo_diff)
           x == apply_lp_rebase_to_perp_market(market, expo_diff)
           s == [m |-> x, positions |-> positions]
           S == {"per_lp_base", "base_asset_amount_per_lp", "quote_asset_amount_per_lp"}
           z == 0
<1>1. CommitMarket(x) /\ Call("lp") /\ PoolsUnchanged /\ EnvironmentUnchanged
      /\ Abs(x.per_lp_base) <= MaxPerLpBase
  BY DEF UpdatePerLpBase
<1>2. Market(market) /\ Ledger
  BY MarketNow
<1>3. expo_diff \in Int
  BY EnvironmentAssumption DEF EnvironmentAssumption
<1>4. n \in Int /\ b \in Int /\ c \in Int
  <2>1. m.per_lp_base \in Int /\ m.base_asset_amount_per_lp \in Int
        /\ m.quote_asset_amount_per_lp \in Int
    BY <1>2, LpNumbers
  <2>2. b \in Int
    BY <1>3, <2>1, RebasedType
  <2>3. c \in Int
    BY <1>3, <2>1, RebasedType
  <2>4. n \in Int
    BY <1>3, <2>1
  <2> QED
    BY <2>2, <2>3, <2>4
<1>5. x = [market EXCEPT !.per_lp_base = n, !.base_asset_amount_per_lp = b,
                         !.quote_asset_amount_per_lp = c]
  BY DEF apply_lp_rebase_to_perp_market
<1>6. DOMAIN market = Fields /\ market = [f \in Fields |-> market[f]] /\ S \subseteq Fields
      /\ S \subseteq IntegerFields
  BY <1>2, MarketNumbers DEF Fields, IntegerFields, OtherFields
<1> HIDE DEF n, b, c
<1>7. Changed(market, x, S) /\ x.per_lp_base = n /\ x.base_asset_amount_per_lp = b
      /\ x.quote_asset_amount_per_lp = c
  BY <1>5, <1>6 DEF Changed
<1> HIDE DEF x
<1>8. Market(x)
  <2>1. \A f \in S : x[f] \in Int
    BY <1>4, <1>7
  <2>2. Typed(x)
    BY <1>2, <1>6, <1>7, <2>1, ChangedTyped DEF Market
  <2>3. {"base_asset_reserve", "quote_asset_reserve", "sqrt_k", "concentration_coef", "long_spread",
         "short_spread", "user_lp_shares", "total_social_loss", "base_asset_amount_long",
         "base_asset_amount_short", "revenue_withdraw_since_last_settle"} \subseteq Fields \ S
    BY DEF Fields, IntegerFields, CurveFields, LedgerFields, OtherFields
  <2> QED
    BY <1>1, <1>2, <1>6, <1>7, <2>2, <2>3 DEF Changed, Market, Curved
<1>9. S \cap (KeptFields \cup CountedFields) = {}
  BY DEF KeptFields, CountedFields
<1>10. x.base_asset_amount_with_amm + x.base_asset_amount_with_unsettled_lp + z
         = market.base_asset_amount_with_amm + market.base_asset_amount_with_unsettled_lp
       /\ z \in Int
  <2>1. {"base_asset_amount_with_amm", "base_asset_amount_with_unsettled_lp"} \subseteq Fields \ S
    BY DEF Fields, IntegerFields, LedgerFields, OtherFields
  <2>2. x.base_asset_amount_with_amm = market.base_asset_amount_with_amm
        /\ x.base_asset_amount_with_unsettled_lp = market.base_asset_amount_with_unsettled_lp
    BY <1>6, <1>7, <2>1 DEF Changed
  <2>3. market.base_asset_amount_with_amm \in Int
        /\ market.base_asset_amount_with_unsettled_lp \in Int
    BY <1>2, TotalNumbers
  <2> QED
    BY <2>2, <2>3
<1> HIDE DEF z, S
<1>11. Booked(market, EmptyPosition, x, EmptyPosition, z)
  BY <1>2, <1>7, <1>8, <1>9, <1>10, EmptyIsPosition, MarketBooked
<1>12. Booked(market, EmptyPosition, x, EmptyPosition, 0)
  BY <1>11 DEF z
<1>13. Reached(s0, s, {}, 0)
  <2>1. /\ Reached(s0, s0, {}, z) /\ s0.m = market /\ s0.positions = positions
    BY <1>2, ReachedStart DEF z
  <2>2. Reached(s0, [m |-> x, positions |-> s0.positions], {}, z)
    BY <1>10, <1>12, <2>1, ReachedMarket
  <2> QED
    BY <2>1, <2>2 DEF z
<1>14. Commit(s, {})
  BY <1>1 DEF CommitMarket
<1> HIDE DEF s
<1> QED
  BY <1>1, <1>13, <1>14, PlainHandled DEF EnvironmentUnchanged

(* Pools, and winding the market down.                                     *)
LEMMA MoneyHandled ==
  ASSUME IInv, Ledger', NEW operation, Call(operation), transactions' = transactions + 1,
         UNCHANGED <<scenario, oracle_price, now, last_revenue_settle_ts>>,
         market'.pnl_pool \in Nat, market'.fee_pool \in Nat, revenue_pool' \in Nat,
         tokens' \in [Users -> Int], deposited' \in Int,
         (market'.pnl_pool + market'.fee_pool + revenue_pool' + TotalOf(tokens')) - deposited'
           = (market.pnl_pool + market.fee_pool + revenue_pool + TotalOf(tokens)) - deposited
  PROVE  IInv'
<1> DEFINE a == market'.pnl_pool + market'.fee_pool + revenue_pool' + TotalOf(tokens')
           b == market.pnl_pool + market.fee_pool + revenue_pool + TotalOf(tokens)
           c == InitialFeePool + InitialRevenuePool + Cardinality(Users) * InitialTokens
<1>1. Environment'
  BY EnvironmentKept DEF IInv, Call
<1>2. IsFiniteSet(Users) /\ InitialRevenuePool \in Nat /\ InitialTokens \in Int
  BY EnvironmentAssumption DEF EnvironmentAssumption
<1>3. /\ market.pnl_pool \in Nat /\ market.fee_pool \in Nat /\ revenue_pool \in Nat
      /\ tokens \in [Users -> Int] /\ deposited \in Int /\ b = c + deposited
  BY DEF IInv, Pools, TokensConserved
<1>4. TotalOf(tokens') \in Int /\ TotalOf(tokens) \in Int
  BY <1>2, <1>3, TotalType
<1>5. a \in Int /\ b \in Int
  BY <1>3, <1>4
<1>6. c \in Int
  <2>1. Cardinality(Users) \in Nat /\ InitialFeePool \in Nat
    BY <1>2, FS_CardinalityType, OtherConstants
  <2>2. Cardinality(Users) * InitialTokens \in Int
    BY <1>2, <2>1
  <2> QED
    BY <1>2, <2>1, <2>2
<1>7. a - deposited' = b - deposited
  OBVIOUS
<1> HIDE DEF a, b, c
<1> DEFINE d == deposited
           e == deposited'
<1>8. a = c + deposited'
  <2>1. d \in Int /\ e \in Int /\ b = c + d /\ a - e = b - d
    BY <1>3, <1>7
  <2> HIDE DEF d, e
  <2>2. a = c + e
    BY <1>5, <1>6, <2>1
  <2> QED
    BY <2>2 DEF e
<1>9. Pools'
  BY <1>8 DEF Pools, TokensConserved, a, c
<1> QED
  BY <1>1, <1>9 DEF IInv

LEMMA DepositHandled ==
  ASSUME IInv, NEW amount \in FeePoolDeposits, DepositIntoPerpMarketFeePool(amount)
  PROVE  IInv'
<1> DEFINE a == market.total_fee_minus_distributions + amount
           b == market.fee_pool + amount
           x == [market EXCEPT !.total_fee_minus_distributions = a, !.fee_pool = b]
           S == {"total_fee_minus_distributions", "fee_pool"}
<1>1. /\ CommitMarket(x) /\ Call("pnl") /\ deposited' = deposited + amount
      /\ UNCHANGED <<tokens, revenue_pool, last_revenue_settle_ts>> /\ EnvironmentUnchanged
  BY DEF DepositIntoPerpMarketFeePool
<1>2. amount \in Nat /\ IsFiniteSet(Users)
  BY EnvironmentAssumption DEF EnvironmentAssumption
<1>3. /\ Market(market) /\ Ledger /\ market.pnl_pool \in Nat /\ market.fee_pool \in Nat
      /\ revenue_pool \in Nat /\ tokens \in [Users -> Int] /\ deposited \in Int
  BY MarketNow DEF Pools
<1>4. a \in Int /\ b \in Nat
  BY <1>2, <1>3, MarketNumbers
<1>5. DOMAIN market = Fields /\ market = [f \in Fields |-> market[f]] /\ S \subseteq Fields
      /\ S \subseteq PlainFields /\ {"pnl_pool"} \subseteq Fields \ S
  BY <1>3, MarketNumbers DEF Fields, IntegerFields, CurveFields, OtherFields, PlainFields
<1> HIDE DEF a, b
<1>6. /\ Changed(market, x, S) /\ x.total_fee_minus_distributions = a /\ x.fee_pool = b
      /\ x.pnl_pool = market.pnl_pool
  BY <1>5 DEF Changed
<1> HIDE DEF x
<1>7. \A f \in S : x[f] \in Int
  BY <1>4, <1>6
<1>8. Market(x)
  BY <1>3, <1>5, <1>6, <1>7, PlainMarket
<1>9. S \cap (CountedFields \cup NetFields \cup CumulativeFields) = {}
  BY DEF CountedFields, NetFields, CumulativeFields
<1> HIDE DEF S
<1>10. Ledger' /\ market'.pnl_pool = x.pnl_pool /\ market'.fee_pool = x.fee_pool
  BY <1>1, <1>3, <1>6, <1>8, <1>9, CommitPools
<1>11. transactions' = transactions + 1
  BY <1>1 DEF CommitMarket, Commit
<1>12. /\ market'.pnl_pool \in Nat /\ market'.fee_pool \in Nat /\ revenue_pool' \in Nat
       /\ tokens' \in [Users -> Int] /\ deposited' \in Int
  BY <1>1, <1>2, <1>3, <1>4, <1>6, <1>10
<1>13. (market'.pnl_pool + market'.fee_pool + revenue_pool' + TotalOf(tokens')) - deposited'
         = (market.pnl_pool + market.fee_pool + revenue_pool + TotalOf(tokens)) - deposited
  <2>1. /\ market'.pnl_pool = market.pnl_pool /\ market'.fee_pool = market.fee_pool + amount
        /\ revenue_pool' = revenue_pool /\ TotalOf(tokens') = TotalOf(tokens)
        /\ deposited' = deposited + amount
    BY <1>1, <1>6, <1>10 DEF b
  <2>2. TotalOf(tokens) \in Int
    BY <1>2, <1>3, TotalType
  <2> QED
    BY <1>2, <1>3, <2>1, <2>2
<1> QED
  BY <1>1, <1>10, <1>11, <1>12, <1>13, MoneyHandled DEF EnvironmentUnchanged

(* A market with another status.                                           *)
LEMMA StatusMarket ==
  ASSUME NEW m, Market(m), NEW x, NEW S \in SUBSET PlainFields, Changed(m, x, S \cup {"status"}),
         \A f \in S : x[f] \in Int, x.status \in Statuses
  PROVE  Market(x)
<1>1. DOMAIN m = Fields /\ \A f \in IntegerFields : m[f] \in Int
  BY MarketNumbers DEF Market, Typed
<1>2. "status" \notin IntegerFields /\ "spread_inputs" \notin IntegerFields /\ S \subseteq IntegerFields
      /\ "status" # "spread_inputs"
  BY DEF IntegerFields, CurveFields, LedgerFields, OtherFields, PlainFields
<1>3. x = [f \in Fields |-> x[f]]
  BY <1>1 DEF Changed
<1>4. \A f \in IntegerFields : x[f] \in Int
  BY <1>1, <1>2 DEF Changed, Fields
<1>5. x.spread_inputs = m.spread_inputs
  BY <1>1, <1>2 DEF Changed, Fields
<1>6. Typed(x)
  BY <1>3, <1>4, <1>5 DEF Typed, Market
<1>7. {"base_asset_reserve", "quote_asset_reserve", "sqrt_k", "concentration_coef", "long_spread",
       "short_spread"} \cup BoundedFields \subseteq Fields \ (S \cup {"status"})
  BY DEF BoundedFields, PlainFields, Fields, IntegerFields, CurveFields, LedgerFields, OtherFields
<1>8. Curved(x)
  BY <1>1, <1>7 DEF Changed, Market, Curved
<1>9. \A f \in BoundedFields : x[f] = m[f]
  BY <1>1, <1>7 DEF Changed
<1> QED
  BY <1>6, <1>8, <1>9, BoundedKept

LEMMA UpdatePerpMarketExpiryHandled ==
  ASSUME IInv, NEW delay \in ExpiryDelays, UpdatePerpMarketExpiry(now + delay)
  PROVE  IInv'
<1> DEFINE t == now + delay
           x == [market EXCEPT !.status = "ReduceOnly", !.expiry_ts = t]
           S == {"expiry_ts"}
           T == S \cup {"status"}
<1>1. CommitMarket(x) /\ Call("expiry") /\ PoolsUnchanged /\ EnvironmentUnchanged
  BY DEF UpdatePerpMarketExpiry
<1>2. Market(market) /\ Ledger /\ now \in Int
  BY MarketNow
<1>3. t \in Int
  BY <1>2, EnvironmentAssumption DEF EnvironmentAssumption
<1>4. DOMAIN market = Fields /\ market = [f \in Fields |-> market[f]] /\ T \subseteq Fields
      /\ S \subseteq PlainFields /\ {"pnl_pool", "fee_pool"} \subseteq Fields \ T
  BY <1>2, MarketNumbers DEF Fields, IntegerFields, OtherFields, PlainFields
<1> HIDE DEF t
<1>5. /\ Changed(market, x, T) /\ x.expiry_ts = t /\ x.status = "ReduceOnly"
      /\ x.pnl_pool = market.pnl_pool /\ x.fee_pool = market.fee_pool
  BY <1>4 DEF Changed
<1> HIDE DEF x
<1>6. Market(x)
  BY <1>2, <1>3, <1>4, <1>5, StatusMarket DEF Statuses
<1>7. T \cap (CountedFields \cup NetFields \cup CumulativeFields) = {}
  BY DEF CountedFields, NetFields, CumulativeFields
<1> HIDE DEF T
<1>8. Ledger' /\ market'.pnl_pool = x.pnl_pool /\ market'.fee_pool = x.fee_pool
  BY <1>1, <1>2, <1>5, <1>6, <1>7, CommitPools
<1>9. transactions' = transactions + 1
  BY <1>1 DEF CommitMarket, Commit
<1> QED
  BY <1>1, <1>5, <1>8, <1>9, Handled DEF EnvironmentUnchanged

LEMMA PoolsToRevenuePoolHandled ==
  ASSUME IInv, SettleExpiredMarketPoolsToRevenuePool
  PROVE  IInv'
<1> DEFINE z == 0
           x == [market EXCEPT !.fee_pool = z, !.pnl_pool = z, !.status = "Delisted"]
           S == {"fee_pool", "pnl_pool"}
           T == S \cup {"status"}
<1>1. /\ CommitMarket(x) /\ Call("expiry")
      /\ revenue_pool' = revenue_pool + market.fee_pool + market.pnl_pool
      /\ UNCHANGED <<tokens, last_revenue_settle_ts, deposited>> /\ EnvironmentUnchanged
  BY DEF SettleExpiredMarketPoolsToRevenuePool, PoolsToRevenuePool
<1>2. /\ Market(market) /\ Ledger /\ market.pnl_pool \in Nat /\ market.fee_pool \in Nat
      /\ revenue_pool \in Nat /\ tokens \in [Users -> Int] /\ deposited \in Int
  BY MarketNow DEF Pools
<1>3. DOMAIN market = Fields /\ market = [f \in Fields |-> market[f]] /\ T \subseteq Fields
      /\ S \subseteq PlainFields
  BY <1>2, MarketNumbers DEF Fields, IntegerFields, OtherFields, PlainFields
<1>4. z \in Int /\ z \in Nat
  OBVIOUS
<1> HIDE DEF z
<1>5. Changed(market, x, T) /\ x.fee_pool = z /\ x.pnl_pool = z /\ x.status = "Delisted"
  BY <1>3 DEF Changed
<1> HIDE DEF x
<1>6. \A f \in S : x[f] \in Int
  BY <1>4, <1>5
<1>7. Market(x)
  BY <1>2, <1>3, <1>5, <1>6, StatusMarket DEF Statuses
<1>8. T \cap (CountedFields \cup NetFields \cup CumulativeFields) = {}
  BY DEF CountedFields, NetFields, CumulativeFields
<1> HIDE DEF T
<1>9. Ledger' /\ market'.pnl_pool = x.pnl_pool /\ market'.fee_pool = x.fee_pool
  BY <1>1, <1>2, <1>5, <1>7, <1>8, CommitPools
<1>10. transactions' = transactions + 1
  BY <1>1 DEF CommitMarket, Commit
<1>11. /\ market'.pnl_pool \in Nat /\ market'.fee_pool \in Nat /\ revenue_pool' \in Nat
       /\ tokens' \in [Users -> Int] /\ deposited' \in Int
  BY <1>1, <1>2, <1>4, <1>5, <1>9
<1>12. (market'.pnl_pool + market'.fee_pool + revenue_pool' + TotalOf(tokens')) - deposited'
         = (market.pnl_pool + market.fee_pool + revenue_pool + TotalOf(tokens)) - deposited
  <2>1. /\ market'.pnl_pool = 0 /\ market'.fee_pool = 0
        /\ revenue_pool' = revenue_pool + market.fee_pool + market.pnl_pool
        /\ TotalOf(tokens') = TotalOf(tokens) /\ deposited' = deposited
    BY <1>1, <1>5, <1>9 DEF z
  <2>2. IsFiniteSet(Users)
    BY EnvironmentAssumption DEF EnvironmentAssumption
  <2>3. TotalOf(tokens) \in Int
    BY <1>2, <2>2, TotalType
  <2> QED
    BY <1>2, <2>1, <2>3
<1> QED
  BY <1>1, <1>9, <1>10, <1>11, <1>12, MoneyHandled DEF EnvironmentUnchanged

(* The environment.                                                        *)
LEMMA TickHandled ==
  ASSUME IInv, Tick
  PROVE  IInv'
<1>1. /\ UNCHANGED <<market, positions, funding_due, scenario, tokens, deposited, revenue_pool,
                     last_revenue_settle_ts, oracle_price, transactions>>
      /\ now < scenario.max_time /\ now' = now + 1
  BY DEF Tick, LedgerUnchanged
<1>2. Ledger'
  BY <1>1 DEF IInv, Ledger, s0, FundingOwedOnce
<1>3. Pools'
  BY <1>1 DEF IInv, Pools, TokensConserved
<1>4. Environment'
  <2>1. scenario.max_time \in Nat
    BY ScenarioAssumption DEF IInv, Environment
  <2> QED
    BY <1>1, <2>1 DEF IInv, Environment
<1> QED
  BY <1>2, <1>3, <1>4 DEF IInv

LEMMA InsurancePeriodPassesHandled ==
  ASSUME IInv, InsurancePeriodPasses
  PROVE  IInv'
<1>1. /\ UNCHANGED <<market, positions, funding_due, scenario, tokens, deposited, revenue_pool,
                     oracle_price, transactions, now>>
      /\ last_revenue_settle_ts' = now
  BY DEF InsurancePeriodPasses, LedgerUnchanged
<1>2. Ledger'
  BY <1>1 DEF IInv, Ledger, s0, FundingOwedOnce
<1>3. Pools'
  BY <1>1 DEF IInv, Pools, TokensConserved
<1>4. Environment'
  BY <1>1, MarketNow DEF IInv, Environment
<1> QED
  BY <1>2, <1>3, <1>4 DEF IInv

LEMMA OracleMovesHandled ==
  ASSUME IInv, NEW quote \in Quotes, OracleMoves(quote)
  PROVE  IInv'
<1> DEFINE spreads == quote.spreads
           x == [market EXCEPT !.spread_inputs = spreads]
           S == {"spread_inputs"}
           s == [m |-> x, positions |-> s0.positions]
<1>1. /\ UNCHANGED <<positions, funding_due, scenario, tokens, deposited, revenue_pool,
                     last_revenue_settle_ts, transactions, now>>
      /\ market' = x /\ oracle_price' = quote.price
  BY DEF OracleMoves, LedgerUnchanged
<1>2. quote.price \in Int /\ spreads \in [{"long", "short"} -> Spreads]
  BY EnvironmentAssumption DEF EnvironmentAssumption, Spreads
<1>3. Market(market) /\ Ledger /\ s0.positions = positions /\ s0.m = market
  BY MarketNow, ReachedStart
<1>4. DOMAIN market = Fields /\ market = [f \in Fields |-> market[f]] /\ S \subseteq Fields
      /\ (\A f \in IntegerFields : market[f] \in Int)
      /\ "spread_inputs" \notin IntegerFields /\ "status" # "spread_inputs"
      /\ IntegerFields \subseteq Fields /\ "status" \in Fields
  BY <1>3, MarketNumbers DEF Market, Typed, Fields, IntegerFields, CurveFields, OtherFields, LedgerFields
<1> HIDE DEF spreads
<1>5. Changed(market, x, S) /\ x.spread_inputs = spreads
  BY <1>4 DEF Changed
<1> HIDE DEF x
<1>6. Market(x)
  <2>1. x = [f \in Fields |-> x[f]] /\ \A f \in IntegerFields : x[f] = market[f]
    BY <1>4, <1>5 DEF Changed
  <2>2. x.status = market.status
    BY <1>4, <1>5 DEF Changed
  <2>3. Typed(x)
    BY <1>2, <1>3, <1>4, <1>5, <2>1, <2>2 DEF Typed, Market
  <2> QED
    BY <1>3, <2>1, <2>3 DEF Market, Curved, IntegerFields, CurveFields, LedgerFields, OtherFields
<1>7. \A f \in CountedFields \cup NetFields \cup CumulativeFields \cup {"pnl_pool", "fee_pool"} :
        x[f] = market[f]
  <2>1. CountedFields \cup NetFields \cup CumulativeFields \cup {"pnl_pool", "fee_pool"} \subseteq Fields \ S
    BY DEF CountedFields, NetFields, CumulativeFields, Fields, IntegerFields, LedgerFields, OtherFields
  <2> QED
    BY <1>4, <1>5, <2>1 DEF Changed
<1>8. Ledger'
  <2>1. Sound(s)
    BY <1>3, <1>6, <1>7, SoundMarket DEF Ledger
  <2>2. s0' = s
    BY <1>1, <1>3 DEF s0
  <2>3. Sound(s0)'
    BY <2>1, <2>2
  <2>4. NetBase(market)' = 0
    <3>1. NetBase(x) = NetBase(market)
      BY <1>7 DEF NetBase, CountedFields, NetFields
    <3> QED
      BY <1>1, <1>3, <3>1 DEF Ledger
  <2>5. FundingOwedOnce'
    <3>1. \A base : CumulativeFundingRate(x, base) = CumulativeFundingRate(market, base)
      BY <1>7 DEF CumulativeFundingRate, CumulativeFields
    <3> QED
      BY <1>1, <1>3, <3>1 DEF Ledger, FundingOwedOnce
  <2> QED
    BY <2>3, <2>4, <2>5 DEF Ledger
<1>9. Pools'
  <2>1. x.pnl_pool = market.pnl_pool /\ x.fee_pool = market.fee_pool
    BY <1>7
  <2> QED
    BY <1>1, <2>1, PoolsKept DEF IInv
<1>10. Environment'
  BY <1>1, <1>2 DEF IInv, Environment
<1> QED
  BY <1>8, <1>9, <1>10 DEF IInv

(* The surplus is released to the pnl pool.                                *)
LEMMA ReleaseTypes ==
  ASSUME NEW m, Market(m), m.pnl_pool \in Nat, m.fee_pool \in Nat, FeeReservedForProtocol(m) >= 0
  PROVE  LET r == ReleaseFeePool(m)
         IN  /\ Market(r) /\ Changed(m, r, {"fee_pool", "pnl_pool"})
             /\ r.pnl_pool \in Nat /\ r.fee_pool \in Nat
             /\ r.pnl_pool + r.fee_pool = m.pnl_pool + m.fee_pool
             /\ ExpiryBudget(r) = ExpiryBudget(m)
<1> DEFINE reserved == FeeReservedForProtocol(m)
           budget == ExpiryBudget(m)
           t == Least(budget, Greatest(0, m.fee_pool - reserved))
           a == m.fee_pool - t
           b == m.pnl_pool + t
           r == ReleaseFeePool(m)
           S == {"fee_pool", "pnl_pool"}
<1>1. reserved \in Int /\ budget \in Nat
  BY FeeTypes DEF ExpiryBudget
<1>2. reserved >= 0
  OBVIOUS
<1>3. r = [m EXCEPT !.fee_pool = a, !.pnl_pool = b]
  BY DEF ReleaseFeePool
<1> HIDE DEF reserved, budget
<1>4. t \in Nat /\ t <= m.fee_pool
  BY <1>1, <1>2 DEF Least, Greatest
<1> HIDE DEF t
<1>5. a \in Nat /\ b \in Nat /\ b + a = m.pnl_pool + m.fee_pool
  BY <1>4
<1>6. DOMAIN m = Fields /\ m = [f \in Fields |-> m[f]] /\ S \subseteq Fields /\ S \subseteq PlainFields
      /\ {"total_exchange_fee", "total_liquidation_fee", "total_fee_withdrawn",
          "total_fee_minus_distributions"} \subseteq Fields \ S
  BY MarketNumbers DEF Fields, IntegerFields, CurveFields, OtherFields, PlainFields
<1> HIDE DEF a, b
<1>7. Changed(m, r, S) /\ r.fee_pool = a /\ r.pnl_pool = b
  BY <1>3, <1>6 DEF Changed
<1> HIDE DEF r
<1>8. \A f \in S : r[f] \in Int
  BY <1>5, <1>7
<1>9. Market(r)
  BY <1>6, <1>7, <1>8, PlainMarket
<1>10. /\ r.total_exchange_fee = m.total_exchange_fee
       /\ r.total_liquidation_fee = m.total_liquidation_fee
       /\ r.total_fee_withdrawn = m.total_fee_withdrawn
       /\ r.total_fee_minus_distributions = m.total_fee_minus_distributions
  BY <1>6, <1>7 DEF Changed
<1>11. ExpiryBudget(r) = ExpiryBudget(m)
  BY <1>10 DEF ExpiryBudget, calculate_fee_pool, FeeReservedForProtocol, get_total_fee_lower_bound
<1> QED
  BY <1>5, <1>7, <1>9, <1>11 DEF r

LEMMA SpendOnKMoves ==
  ASSUME NEW m, Market(m), ExpiryBudget(m) > 0 => ExpiryKValid(m)
  PROVE  Moved(m, SpendBudgetOnK(m))
<1> DEFINE k == ExpiryK(m)
           budget == ExpiryBudget(m)
           upper == K_BPS_UPDATE_SCALE * ExpiryKScale
           scale == calculate_budgeted_k_scale(m, budget, upper, K_BPS_UPDATE_SCALE)
           result == get_update_k_result(m, k)
           x == update_k(apply_cost_to_market(m, adjust_k_cost(m, result)), result)
<1>1. CASE budget > 0
  <2>1. /\ BudgetedKScaleValid(m, budget) /\ UpdateKValid(m, k, TRUE) /\ NetPositionClosable(m)
        /\ NetPositionClosable(update_k(m, result))
    BY <1>1 DEF ExpiryKValid
  <2>2. k \in Int
    <3>1. K_BPS_UPDATE_SCALE \in Nat \ {0} /\ ExpiryKScale \in Nat \ {0} /\ MAX_SQRT_K \in Nat
      BY CurveConstants, OtherConstants
    <3>2. upper \in Int /\ K_BPS_UPDATE_SCALE \in Int
      BY <3>1
    <3>3. budget \in Int
      BY FeeTypes DEF ExpiryBudget
    <3> HIDE DEF upper, budget
    <3>4. scale \in Int
      BY <2>1, <3>2, <3>3, KScaleType
    <3>5. k = Least((m.sqrt_k * scale) \div K_BPS_UPDATE_SCALE, MAX_SQRT_K)
      BY DEF ExpiryK, budget, upper
    <3> HIDE DEF scale
    <3>6. m.sqrt_k \in Int
      BY MarketNumbers
    <3>7. (m.sqrt_k * scale) \div K_BPS_UPDATE_SCALE \in Int
      BY <3>1, <3>4, <3>6, ProductOver
    <3> QED
      BY <3>1, <3>5, <3>7 DEF Least
  <2> HIDE DEF k
  <2>3. Moved(m, x)
    BY <2>1, <2>2, NewKAtCost
  <2> QED
    BY <1>1, <2>3 DEF SpendBudgetOnK, k
<1>2. CASE ~(budget > 0)
  BY <1>2, MovedNot DEF SpendBudgetOnK
<1> QED
  BY <1>1, <1>2

LEMMA ExpiryPriceType ==
  ASSUME NEW m, Market(m), m.pnl_pool \in Int, NEW price \in Int
  PROVE  calculate_expiry_price(m, price) \in Int
<1> DEFINE d == m.base_asset_amount_with_amm
           v == (m.quote_asset_amount - m.pnl_pool) * AMM_RESERVE_PRECISION
           best == -Quot(v, d)
<1>1. d \in Int /\ m.quote_asset_amount \in Int /\ AMM_RESERVE_PRECISION \in Int
  BY TotalNumbers, CurveConstants
<1>2. v \in Int
  BY <1>1
<1>3. calculate_expiry_price(m, price)
        = IF d = 0 THEN price
          ELSE IF d > 0 THEN Least(best, price) - 1 ELSE Greatest(best, price) + 1
  BY DEF calculate_expiry_price
<1> HIDE DEF d, v
<1>4. d # 0 => Quot(v, d) \in Int
  BY <1>1, <1>2, QuotTypes
<1>5. d # 0 => best \in Int
  BY <1>4
<1> HIDE DEF best
<1> QED
  BY <1>1, <1>3, <1>5 DEF Least, Greatest

LEMMA SettleExpiredMarketHandled ==
  ASSUME IInv, NEW price \in scenario.oracle_prices, SettleExpiredMarket(price)
  PROVE  IInv'
<1> DEFINE m == _update_amm(market, oracle_price)
           r == ReleaseFeePool(m)
           d == SpendBudgetOnK(r)
           e == calculate_expiry_price(d, price)
           x == [d EXCEPT !.expiry_price = e, !.status = "Settlement"]
           S == {"expiry_price"}
           T == S \cup {"status"}
           P == {"fee_pool", "pnl_pool"}
<1>1. /\ CommitMarket(x) /\ Call("expiry") /\ PoolsUnchanged /\ EnvironmentUnchanged
      /\ UpdateAmmValid(market, oracle_price) /\ SettleExpiredMarketValid(m, now)
  BY DEF SettleExpiredMarket, settle_expired_market
<1>2. /\ Market(market) /\ Ledger /\ market.pnl_pool \in Nat /\ market.fee_pool \in Nat
      /\ revenue_pool \in Nat /\ tokens \in [Users -> Int] /\ deposited \in Int
      /\ oracle_price \in Int
  BY MarketNow DEF Pools
<1>3. price \in Int
  BY MarketNow, AskedFor
<1>4. Moved(market, m) /\ Market(m) /\ Changed(market, m, CurveFields)
  BY <1>1, <1>2, UpdateAmmMoves DEF Moved
<1>5. FeeReservedForProtocol(m) >= 0 /\ (ExpiryBudget(m) > 0 => ExpiryKValid(r))
  BY <1>1 DEF SettleExpiredMarketValid
<1> HIDE DEF m
<1>6. {"pnl_pool", "fee_pool"} \subseteq Fields \ CurveFields
  BY DEF Fields, IntegerFields, OtherFields, CurveFields
<1>7. m.pnl_pool = market.pnl_pool /\ m.fee_pool = market.fee_pool
  BY <1>2, <1>4, <1>6, MarketNumbers DEF Changed
<1>8. /\ Market(r) /\ Changed(m, r, P) /\ r.pnl_pool \in Nat /\ r.fee_pool \in Nat
      /\ r.pnl_pool + r.fee_pool = m.pnl_pool + m.fee_pool /\ ExpiryBudget(r) = ExpiryBudget(m)
  BY <1>2, <1>4, <1>5, <1>7, ReleaseTypes
<1> HIDE DEF r
<1>9. Market(d) /\ Changed(r, d, CurveFields)
  BY <1>5, <1>8, SpendOnKMoves DEF Moved
<1> HIDE DEF d
<1>10. d.pnl_pool = r.pnl_pool /\ d.fee_pool = r.fee_pool
  BY <1>6, <1>8, <1>9, MarketNumbers DEF Changed
<1>11. e \in Int
  BY <1>3, <1>8, <1>9, <1>10, ExpiryPriceType
<1> HIDE DEF e
<1>12. DOMAIN d = Fields /\ d = [f \in Fields |-> d[f]] /\ T \subseteq Fields
       /\ S \subseteq PlainFields /\ {"pnl_pool", "fee_pool"} \subseteq Fields \ T
  BY <1>9, MarketNumbers DEF Fields, IntegerFields, OtherFields, PlainFields
<1>13. /\ Changed(d, x, T) /\ x.expiry_price = e /\ x.status = "Settlement"
       /\ x.pnl_pool = d.pnl_pool /\ x.fee_pool = d.fee_pool
  BY <1>12 DEF Changed
<1> HIDE DEF x
<1>14. Market(x)
  BY <1>9, <1>11, <1>12, <1>13, StatusMarket DEF Statuses
<1> DEFINE A == ((CurveFields \cup P) \cup CurveFields) \cup T
<1>15. A \cap (CountedFields \cup NetFields \cup CumulativeFields) = {}
  BY DEF CountedFields, NetFields, CumulativeFields, CurveFields
<1> HIDE DEF P, T
<1>16. Changed(market, x, A)
  <2>1. Changed(market, r, CurveFields \cup P)
    BY <1>4, <1>8, ChangedTwice
  <2>2. Changed(market, d, (CurveFields \cup P) \cup CurveFields)
    BY <1>9, <2>1, ChangedTwice
  <2> QED
    BY <1>13, <2>2, ChangedTwice
<1> HIDE DEF A
<1>17. Ledger' /\ market'.pnl_pool = x.pnl_pool /\ market'.fee_pool = x.fee_pool
  BY <1>1, <1>2, <1>14, <1>15, <1>16, CommitPools
<1>18. transactions' = transactions + 1
  BY <1>1 DEF CommitMarket, Commit
<1>19. /\ market'.pnl_pool = r.pnl_pool /\ market'.fee_pool = r.fee_pool
       /\ r.pnl_pool + r.fee_pool = market.pnl_pool + market.fee_pool
       /\ UNCHANGED <<revenue_pool, tokens, deposited, last_revenue_settle_ts>>
  BY <1>1, <1>7, <1>8, <1>10, <1>13, <1>17 DEF PoolsUnchanged
<1>20. (market'.pnl_pool + market'.fee_pool + revenue_pool' + TotalOf(tokens')) - deposited'
         = (market.pnl_pool + market.fee_pool + revenue_pool + TotalOf(tokens)) - deposited
  BY <1>19
<1>21. /\ market'.pnl_pool \in Nat /\ market'.fee_pool \in Nat /\ revenue_pool' \in Nat
       /\ tokens' \in [Users -> Int] /\ deposited' \in Int
  BY <1>2, <1>8, <1>19
<1> QED
  BY <1>1, <1>17, <1>18, <1>19, <1>20, <1>21, MoneyHandled DEF EnvironmentUnchanged

(* A position after its funding was settled and it was closed at the       *)
(* expiry price.                                                           *)
LEMMA ClosedBooked ==
  ASSUME NEW m, NEW p, Market(m), Position(p)
  PROVE  LET r == CloseFunded(settle_funding_payment(m, p))
         IN  Booked(m, p, r.m, r.p, -p.base_asset_amount) /\ FundingUpToDate(r.m, r.p)
<1> DEFINE f == settle_funding_payment(m, p)
           b == f.p.base_asset_amount
           nb == -b
           value == calculate_base_asset_value_with_expiry_price(f.p, f.m.expiry_price)
           d == [base |-> nb, quote |-> value, remainder |-> 0, lp |-> FALSE]
           c == update_position_and_market(f.m, f.p, d)
           vf == value * fee_numerator
           fee == -Abs(Quot(vf, fee_denominator))
           r == update_quote_asset_and_break_even_amount(c.m, c.p, fee)
<1>1. CloseFunded(f) = r
  BY DEF CloseFunded, ClosedAtExpiry, ChargeClosingFee
<1>2. Booked(m, p, f.m, f.p, 0) /\ FundingUpToDate(f.m, f.p) /\ b = p.base_asset_amount
  BY FundingBooked
<1> HIDE DEF f
<1>3. Market(f.m) /\ Position(f.p)
  BY <1>2 DEF Booked
<1>4. b \in Int /\ Multiple(b) /\ nb \in Int /\ Multiple(nb)
  <2>1. b \in Int /\ Multiple(b)
    BY <1>3, PositionNumbers DEF Position
  <2> HIDE DEF b
  <2> QED
    BY <2>1, MultipleAdd
<1>5. f.m.expiry_price \in Int
  <2>1. \A i \in IntegerFields : f.m[i] \in Int
    BY <1>3 DEF Market, Typed
  <2> QED
    BY <2>1 DEF IntegerFields, OtherFields
<1>6. value \in Int
  <2> DEFINE v == b * f.m.expiry_price
  <2>1. v \in Int
    BY <1>4, <1>5
  <2>2. value = Quot(v, AMM_RESERVE_PRECISION)
    BY DEF calculate_base_asset_value_with_expiry_price
  <2>3. AMM_RESERVE_PRECISION \in Int /\ AMM_RESERVE_PRECISION # 0
    BY CurveConstants
  <2> HIDE DEF v, value
  <2> QED
    BY <2>1, <2>2, <2>3, QuotTypes
<1> HIDE DEF value
<1>7. fee \in Int
  <2>1. vf \in Int /\ fee_denominator \in Int /\ fee_denominator # 0
    BY <1>6, FeeConstants
  <2> HIDE DEF vf
  <2>2. Quot(vf, fee_denominator) \in Int
    BY <2>1, QuotTypes
  <2>3. Abs(Quot(vf, fee_denominator)) \in Int
    BY <2>2, AbsType
  <2> QED
    BY <2>3
<1> HIDE DEF fee, nb
<1>8. d.base = nb /\ d.quote = value /\ d.remainder = 0 /\ d.lp = FALSE
  OBVIOUS
<1> HIDE DEF d
<1>9. GoodDelta(d)
  <2>1. d.base \in Int /\ d.quote \in Int /\ Multiple(d.base)
    BY <1>4, <1>6, <1>8
  <2>2. d.remainder \in Int /\ ((d.base >= 0 /\ d.remainder >= 0) \/ (d.base <= 0 /\ d.remainder <= 0))
    BY <1>8, <2>1
  <2>3. d.lp \in BOOLEAN /\ (~d.lp => d.remainder = 0)
    BY <1>8, Zenon
  <2> QED
    BY <2>1, <2>2, <2>3, Zenon DEF GoodDelta
<1>10. Booked(f.m, f.p, c.m, c.p, IF d.lp THEN 0 ELSE d.base) /\ FundingUpToDate(c.m, c.p)
  BY <1>2, <1>3, <1>9, PositionBooked
<1>11. Booked(f.m, f.p, c.m, c.p, nb)
  BY <1>8, <1>10
<1> HIDE DEF c
<1>12. Booked(m, p, c.m, c.p, nb) /\ Market(c.m) /\ Position(c.p)
  <2>1. Booked(m, p, c.m, c.p, nb)
    BY <1>2, <1>4, <1>11, BookedOnward
  <2> QED
    BY <2>1 DEF Booked
<1>13. Booked(c.m, c.p, r.m, r.p, 0) /\ SameFunding(c.p, r.p)
  BY <1>7, <1>12, QuoteAndBreakEvenBooked
<1> HIDE DEF r
<1>14. Booked(m, p, r.m, r.p, nb)
  BY <1>4, <1>12, <1>13, BookedLast
<1>15. FundingUpToDate(r.m, r.p)
  BY <1>10, <1>13, FundingKept
<1>16. nb = -p.base_asset_amount
  BY <1>2 DEF nb
<1> QED
  BY <1>1, <1>14, <1>15, <1>16 DEF f

LEMMA SettleExpiredPositionHandled ==
  ASSUME IInv, NEW u \in Users, SettleExpiredPosition(u)
  PROVE  IInv'
<1> DEFINE p == positions[u]
           base == p.base_asset_amount
           nb == -base
           r == CloseFunded(settle_funding_payment(market, p))
           pnl == ExpiredPnl(market, p)
           debit == -pnl
           left == r.m.pnl_pool - pnl
           x == [r.m EXCEPT !.pnl_pool = left]
           w == update_quote_asset_amount(x, r.p, debit)
           S == {"pnl_pool"}
           e == settle_expired_position(market, p)
           v == With(s0, u, e)
           s1 == With(s0, u, r)
           o == [m |-> x, positions |-> positions]
           s2 == [m |-> x, positions |-> s1.positions]
           z == 0
<1>1. /\ Commit(v, {u}) /\ Call("expiry") /\ SettleExpiredPositionValid(market, p, now, settlement_duration)
      /\ tokens' = [tokens EXCEPT ![u] = @ + pnl]
      /\ UNCHANGED <<revenue_pool, last_revenue_settle_ts, deposited>> /\ EnvironmentUnchanged
  BY DEF SettleExpiredPosition
<1>2. /\ Market(market) /\ Ledger /\ market.pnl_pool \in Nat /\ market.fee_pool \in Nat
      /\ revenue_pool \in Nat /\ tokens \in [Users -> Int] /\ deposited \in Int
  BY MarketNow DEF Pools
<1>3. /\ s0.m = market /\ s0.positions = positions /\ Reached(s0, s0, {}, z) /\ z \in Int
      /\ Position(p) /\ positions = [i \in Users |-> positions[i]]
  BY <1>2, ReachedStart, SoundNow DEF Ledger
<1>4. base \in Int /\ nb \in Int
  BY <1>3, PositionNumbers
<1>5. Booked(market, p, r.m, r.p, nb) /\ FundingUpToDate(r.m, r.p)
  BY <1>2, <1>3, ClosedBooked
<1>6. pnl = r.p.quote_asset_amount /\ pnl <= market.pnl_pool
  BY <1>1 DEF ExpiredPnl, SettleExpiredPositionValid
<1>7. Market(r.m) /\ Position(r.p) /\ (\A f \in KeptFields : r.m[f] = market[f])
  BY <1>5 DEF Booked
<1>8. pnl \in Int /\ debit \in Int
  BY <1>6, <1>7, PositionNumbers
<1>9. e = [update_quote_asset_amount([r.m EXCEPT !.pnl_pool = @ - r.p.quote_asset_amount], r.p,
                                     -r.p.quote_asset_amount)
             EXCEPT !.m.base_asset_amount_with_amm = @ - base]
  BY DEF settle_expired_position, PayClosed, PayOut
<1> HIDE DEF r, pnl, z
<1>10. /\ r.m.pnl_pool = market.pnl_pool /\ r.m.fee_pool = market.fee_pool
       /\ \A f \in CumulativeFields : r.m[f] = market[f]
  BY <1>7 DEF KeptFields, CumulativeFields
<1>11. left \in Nat /\ left = market.pnl_pool - pnl
  BY <1>2, <1>6, <1>8, <1>10
<1>12. e = [w EXCEPT !.m.base_asset_amount_with_amm = @ - base]
  BY <1>6, <1>9
<1>13. DOMAIN r.m = Fields /\ r.m = [f \in Fields |-> r.m[f]] /\ S \subseteq Fields
       /\ S \subseteq PlainFields /\ {"fee_pool"} \cup CumulativeFields \subseteq Fields \ S
  BY <1>7, MarketNumbers DEF Fields, IntegerFields, OtherFields, PlainFields, CumulativeFields
<1> HIDE DEF left
<1>14. /\ Changed(r.m, x, S) /\ x.pnl_pool = left /\ x.fee_pool = r.m.fee_pool
       /\ \A f \in CumulativeFields : x[f] = r.m[f]
  BY <1>13 DEF Changed
<1> HIDE DEF x, e
<1>15. Market(x)
  BY <1>7, <1>11, <1>13, <1>14, PlainMarket
<1>16. S \cap (CountedFields \cup NetFields \cup CumulativeFields) = {}
  BY DEF CountedFields, NetFields, CumulativeFields
<1> HIDE DEF S
<1>17. /\ s1.m = r.m /\ s1.positions = [positions EXCEPT ![u] = r.p] /\ s1.positions[u] = r.p
  BY <1>3 DEF With
<1>18. Reached(s0, s1, {} \cup {u}, z + nb)
  <2>1. Booked(s0.m, s0.positions[u], r.m, r.p, nb)
    BY <1>3, <1>5
  <2> HIDE DEF nb
  <2> QED
    BY <1>3, <1>5, <2>1, ReachedUser
<1>19. {} \cup {u} = {u} /\ z + nb = nb
  BY <1>4 DEF z
<1> HIDE DEF s1, nb
<1>20. Reached(o, s2, {u}, nb)
  <2>1. Reached(s0, s1, {u}, nb)
    BY <1>18, <1>19
  <2>2. Changed(s1.m, x, S)
    BY <1>14, <1>17
  <2>3. Reached([m |-> x, positions |-> s0.positions], [m |-> x, positions |-> s1.positions], {u}, nb)
    BY <1>15, <1>16, <2>1, <2>2, PoolsReached
  <2> QED
    BY <1>3, <2>3
<1>21. /\ o.m = x /\ o.positions = positions /\ s2.m = x /\ s2.positions = s1.positions
       /\ s2.positions[u] = r.p
  BY <1>17
<1> HIDE DEF o, s2
<1>22. Booked(x, r.p, w.m, w.p, 0) /\ SameFunding(r.p, w.p)
  BY <1>7, <1>8, <1>15, QuoteBooked
<1>23. w = [m |-> w.m, p |-> w.p]
  BY DEF update_quote_asset_amount
<1> HIDE DEF w, debit
<1>24. Market(w.m) /\ Position(w.p)
  BY <1>22 DEF Booked
<1> DEFINE g == [w.m EXCEPT !.base_asset_amount_with_amm = @ + nb]
           q == [m |-> g, p |-> w.p]
<1>25. e = q
  <2>1. DOMAIN w.m = Fields /\ w.m = [f \in Fields |-> w.m[f]] /\ "base_asset_amount_with_amm" \in Fields
        /\ w.m.base_asset_amount_with_amm \in Int
    BY <1>24, MarketNumbers DEF Fields, IntegerFields, OtherFields
  <2>2. w.m.base_asset_amount_with_amm - base = w.m.base_asset_amount_with_amm + nb
    BY <1>4, <2>1 DEF nb
  <2>3. e = [m |-> [w.m EXCEPT !.base_asset_amount_with_amm = w.m.base_asset_amount_with_amm - base],
             p |-> w.p]
    BY <1>12, <1>23, <2>1
  <2> QED
    BY <2>2, <2>3
<1>26. Booked(w.m, w.p, g, w.p, -nb)
  BY <1>4, <1>24, AmmBooked
<1>27. -nb = base
  BY <1>4 DEF nb
<1> HIDE DEF base
<1>28. q.m = g /\ q.p = w.p
  OBVIOUS
<1> HIDE DEF g, q
<1>29. Booked(x, r.p, q.m, q.p, base)
  <2>1. Booked(w.m, w.p, g, w.p, base)
    BY <1>26, <1>27
  <2>2. Booked(x, r.p, g, w.p, base)
    BY <1>4, <1>7, <1>15, <1>22, <2>1, BookedOnward
  <2> QED
    BY <1>28, <2>2
<1>30. FundingUpToDate(q.m, q.p)
  <2>1. FundingUpToDate(x, r.p)
    <3>1. \A i \in Users \cap {u} : FundingUpToDate(s2.m, s2.positions[i])
      BY <1>20 DEF Reached
    <3>2. u \in Users \cap {u}
      OBVIOUS
    <3> QED
      BY <1>21, <3>1, <3>2
  <2>2. SameFunding(r.p, q.p)
    BY <1>22, <1>28
  <2> QED
    BY <1>29, <2>1, <2>2, FundingKept
<1>31. Reached(o, With(s2, u, q), {u} \cup {u}, nb + base)
  BY <1>20, <1>21, <1>29, <1>30, ReachedUser
<1>32. With(s2, u, q) = v
  BY <1>3, <1>17, <1>21, <1>25, <1>28 DEF With
<1>33. {u} \cup {u} = {u} /\ nb + base = 0
  BY <1>4 DEF nb
<1> HIDE DEF v
<1>34. Reached(o, v, {u}, 0)
  BY <1>31, <1>32, <1>33
<1>35. Market(v.m) /\ v = [m |-> v.m, positions |-> v.positions]
  BY <1>34, ReachedParts
<1>36. Changed(v.m, v.m, CurveFields \cup RateFields)
  BY <1>35, SelfChanged
<1>37. Commit([m |-> v.m, positions |-> v.positions], {u})
  BY <1>1, <1>35
<1>38. \A f \in CumulativeFields : o.m[f] = market[f]
  BY <1>10, <1>14, <1>21
<1>39. Ledger' /\ market'.pnl_pool = o.m.pnl_pool /\ market'.fee_pool = o.m.fee_pool
  BY <1>2, <1>21, <1>34, <1>35, <1>36, <1>37, <1>38, CommitLedger
<1>40. market'.pnl_pool = market.pnl_pool - pnl /\ market'.fee_pool = market.fee_pool
  BY <1>10, <1>11, <1>14, <1>21, <1>39
<1>41. transactions' = transactions + 1
  BY <1>1 DEF Commit
<1>42. /\ market'.pnl_pool \in Nat /\ market'.fee_pool \in Nat /\ revenue_pool' \in Nat
       /\ tokens' \in [Users -> Int] /\ deposited' \in Int
  BY <1>1, <1>2, <1>8, <1>11, <1>40
<1>43. TotalOf(tokens') = TotalOf(tokens) + pnl /\ TotalOf(tokens) \in Int
  <2>1. IsFiniteSet(Users)
    BY EnvironmentAssumption DEF EnvironmentAssumption
  <2>2. tokens'[u] = tokens[u] + pnl /\ (\A i \in Users : i # u => tokens'[i] = tokens[i])
        /\ tokens[u] \in Int
    BY <1>1, <1>2
  <2>3. TotalOf(tokens') = TotalOf(tokens) - tokens[u] + tokens'[u]
    BY <1>2, <1>42, <2>1, <2>2, TotalUpdate
  <2>4. TotalOf(tokens) \in Int
    BY <1>2, <2>1, TotalType
  <2> QED
    BY <1>8, <2>2, <2>3, <2>4
<1>44. (market'.pnl_pool + market'.fee_pool + revenue_pool' + TotalOf(tokens')) - deposited'
         = (market.pnl_pool + market.fee_pool + revenue_pool + TotalOf(tokens)) - deposited
  <2> DEFINE t == TotalOf(tokens)
             a == market.pnl_pool
             c == market.fee_pool
  <2>1. t \in Int /\ a \in Int /\ c \in Int /\ revenue_pool \in Int /\ deposited \in Int
    BY <1>2, <1>43
  <2>2. /\ market'.pnl_pool = a - pnl /\ market'.fee_pool = c /\ revenue_pool' = revenue_pool
        /\ TotalOf(tokens') = t + pnl /\ deposited' = deposited
    BY <1>1, <1>40, <1>43
  <2> HIDE DEF t, a, c
  <2>3. (market'.pnl_pool + market'.fee_pool + revenue_pool' + TotalOf(tokens')) - deposited'
          = (a + c + revenue_pool + t) - deposited
    BY <1>8, <2>1, <2>2
  <2> QED
    BY <2>3 DEF t, a, c
<1> QED
  BY <1>1, <1>39, <1>41, <1>42, <1>44, MoneyHandled DEF EnvironmentUnchanged

(* The pools of a market after money moved between them.                   *)
PoolFields ==
  { "fee_pool", "pnl_pool", "total_fee_withdrawn", "total_fee_minus_distributions",
    "revenue_withdraw_since_last_settle", "last_revenue_withdraw_ts" }

Pooled(m) == Market(m) /\ m.pnl_pool \in Nat /\ m.fee_pool \in Nat

LEMMA PoolNumbers ==
  ASSUME NEW m, Market(m)
  PROVE  /\ \A f \in PoolFields : m[f] \in Int
         /\ m.total_fee_minus_distributions \in Int /\ m.total_liquidation_fee \in Int
         /\ m.total_fee_withdrawn \in Int /\ m.revenue_withdraw_since_last_settle \in Int
         /\ m.last_revenue_withdraw_ts \in Int /\ m.total_social_loss \in Nat
         /\ m.quote_settled_insurance \in Int /\ m.net_revenue_since_last_funding \in Int
         /\ m.quote_asset_amount \in Int /\ m.quote_asset_amount_with_unsettled_lp \in Int
         /\ m.net_unsettled_funding_pnl \in Int /\ m.base_asset_amount_with_amm \in Int
         /\ m.base_asset_amount_with_unsettled_lp \in Int
         /\ DOMAIN m = Fields /\ m = [f \in Fields |-> m[f]]
         /\ PoolFields \subseteq Fields
         /\ get_total_fee_lower_bound(m) \in Int /\ FeeReservedForProtocol(m) \in Int
<1>1. \A f \in IntegerFields : m[f] \in Int
  BY DEF Market, Typed
<1>2. PoolFields \subseteq IntegerFields /\ PoolFields \subseteq Fields
  BY DEF PoolFields, Fields, IntegerFields, CurveFields, OtherFields
<1>3. m.total_social_loss \in Nat
  <2>1. m.total_social_loss \in Int
    BY <1>1 DEF IntegerFields, OtherFields
  <2> QED
    BY <2>1 DEF Market
<1>4. /\ m.total_fee_minus_distributions \in Int /\ m.total_liquidation_fee \in Int
      /\ m.total_fee_withdrawn \in Int /\ m.revenue_withdraw_since_last_settle \in Int
      /\ m.last_revenue_withdraw_ts \in Int
      /\ m.quote_settled_insurance \in Int /\ m.net_revenue_since_last_funding \in Int
  BY <1>1 DEF IntegerFields, CurveFields, OtherFields
<1>5. /\ m.quote_asset_amount \in Int /\ m.quote_asset_amount_with_unsettled_lp \in Int
      /\ m.net_unsettled_funding_pnl \in Int /\ m.base_asset_amount_with_amm \in Int
      /\ m.base_asset_amount_with_unsettled_lp \in Int
  BY <1>1 DEF IntegerFields, LedgerFields, OtherFields
<1> QED
  BY <1>1, <1>2, <1>3, <1>4, <1>5, MarketNumbers, FeeTypes

(* What is withdrawn stays within the limit of a period.                   *)
LEMMA PoolMarket ==
  ASSUME NEW m, Market(m), NEW x, NEW S \in SUBSET PoolFields, Changed(m, x, S),
         \A f \in S : x[f] \in Int,
         Abs(x.revenue_withdraw_since_last_settle) <= max_revenue_withdraw_per_period
  PROVE  Market(x)
<1>1. DOMAIN m = Fields /\ S \subseteq IntegerFields
  BY PoolNumbers DEF PoolFields, IntegerFields, CurveFields, OtherFields
<1>2. Typed(x)
  BY <1>1, ChangedTyped DEF Market
<1>3. {"base_asset_reserve", "quote_asset_reserve", "sqrt_k", "concentration_coef", "long_spread",
       "short_spread", "user_lp_shares", "total_social_loss", "per_lp_base",
       "base_asset_amount_long", "base_asset_amount_short"} \subseteq Fields \ S
  BY DEF PoolFields, Fields, IntegerFields, CurveFields, LedgerFields, OtherFields
<1>4. /\ x.base_asset_reserve = m.base_asset_reserve /\ x.quote_asset_reserve = m.quote_asset_reserve
      /\ x.sqrt_k = m.sqrt_k /\ x.concentration_coef = m.concentration_coef
      /\ x.long_spread = m.long_spread /\ x.short_spread = m.short_spread
      /\ x.user_lp_shares = m.user_lp_shares /\ x.total_social_loss = m.total_social_loss
      /\ x.per_lp_base = m.per_lp_base
      /\ x.base_asset_amount_long = m.base_asset_amount_long
      /\ x.base_asset_amount_short = m.base_asset_amount_short
  BY <1>1, <1>3 DEF Changed
<1> QED
  BY <1>2, <1>4 DEF Market, Curved

LEMMA BetweenPools ==
  ASSUME NEW m, Market(m), NEW x, NEW S, S = {"fee_pool", "pnl_pool"}, Changed(m, x, S),
         x.fee_pool \in Nat, x.pnl_pool \in Nat
  PROVE  Pooled(x) /\ Changed(m, x, PoolFields)
<1>1. S \subseteq PlainFields /\ S \subseteq PoolFields
  BY DEF PoolFields, IntegerFields, OtherFields, CurveFields, PlainFields
<1>2. \A f \in S : x[f] \in Int
  OBVIOUS
<1>3. Market(x)
  BY <1>1, <1>2, PlainMarket
<1>4. Changed(m, x, PoolFields)
  BY <1>1, ChangedMore
<1> QED
  BY <1>3, <1>4 DEF Pooled

LEMMA FeeToPnlPooled ==
  ASSUME NEW m, Pooled(m)
  PROVE  LET x == FeePoolToPnlPool(m)
         IN  /\ Pooled(x) /\ Changed(m, x, PoolFields)
             /\ x.pnl_pool + x.fee_pool = m.pnl_pool + m.fee_pool
<1> DEFINE target == FeePoolTarget(m)
           excess == IF target <= m.fee_pool THEN m.fee_pool - Greatest(0, target) ELSE 0
           fee == m.fee_pool - excess
           pnl == m.pnl_pool + excess
           x == FeePoolToPnlPool(m)
<1>1. Market(m) /\ m.pnl_pool \in Nat /\ m.fee_pool \in Nat
  BY DEF Pooled
<1>2. target \in Int
  BY <1>1, PoolNumbers DEF FeePoolTarget
<1>3. x = [m EXCEPT !.fee_pool = fee, !.pnl_pool = pnl]
  BY DEF FeePoolToPnlPool
<1> HIDE DEF target
<1>4. excess \in Nat /\ excess <= m.fee_pool
  BY <1>1, <1>2 DEF Greatest
<1> HIDE DEF excess
<1>5. fee \in Nat /\ pnl \in Nat /\ pnl + fee = m.pnl_pool + m.fee_pool
  BY <1>1, <1>4
<1> HIDE DEF fee, pnl
<1> DEFINE S == {"fee_pool", "pnl_pool"}
<1>6. DOMAIN m = Fields /\ m = [f \in Fields |-> m[f]] /\ S \subseteq Fields
  BY <1>1, MarketNumbers DEF Fields, IntegerFields, OtherFields
<1>7. Changed(m, x, S) /\ x.fee_pool = fee /\ x.pnl_pool = pnl
  BY <1>3, <1>6 DEF Changed
<1> HIDE DEF x
<1>8. Pooled(x) /\ Changed(m, x, PoolFields)
  BY <1>1, <1>5, <1>7, BetweenPools
<1> QED
  BY <1>5, <1>7, <1>8 DEF x

LEMMA PnlToFeePooled ==
  ASSUME NEW m, Pooled(m)
  PROVE  LET x == PnlPoolToFeePool(m)
         IN  /\ Pooled(x) /\ Changed(m, x, PoolFields)
             /\ x.pnl_pool + x.fee_pool = m.pnl_pool + m.fee_pool
<1> DEFINE reserved == FeeReservedForProtocol(m)
           missing == Greatest(0, Least(reserved - m.fee_pool, m.pnl_pool))
           fee == m.fee_pool + missing
           pnl == m.pnl_pool - missing
           x == PnlPoolToFeePool(m)
<1>1. Market(m) /\ m.pnl_pool \in Nat /\ m.fee_pool \in Nat
  BY DEF Pooled
<1>2. reserved \in Int
  BY <1>1, PoolNumbers
<1>3. x = [m EXCEPT !.fee_pool = fee, !.pnl_pool = pnl]
  BY DEF PnlPoolToFeePool
<1> HIDE DEF reserved
<1>4. missing \in Nat /\ missing <= m.pnl_pool
  BY <1>1, <1>2 DEF Greatest, Least
<1> HIDE DEF missing
<1>5. fee \in Nat /\ pnl \in Nat /\ pnl + fee = m.pnl_pool + m.fee_pool
  BY <1>1, <1>4
<1> HIDE DEF fee, pnl
<1> DEFINE S == {"fee_pool", "pnl_pool"}
<1>6. DOMAIN m = Fields /\ m = [f \in Fields |-> m[f]] /\ S \subseteq Fields
  BY <1>1, MarketNumbers DEF Fields, IntegerFields, OtherFields
<1>7. Changed(m, x, S) /\ x.fee_pool = fee /\ x.pnl_pool = pnl
  BY <1>3, <1>6 DEF Changed
<1> HIDE DEF x
<1>8. Pooled(x) /\ Changed(m, x, PoolFields)
  BY <1>1, <1>5, <1>7, BetweenPools
<1> QED
  BY <1>5, <1>7, <1>8 DEF x

LEMMA RenewedPooled ==
  ASSUME NEW m, Pooled(m), NEW ts
  PROVE  LET x == RenewRevenueWithdraw(m, ts)
         IN  /\ Pooled(x) /\ Changed(m, x, PoolFields)
             /\ x.pnl_pool = m.pnl_pool /\ x.fee_pool = m.fee_pool
<1> DEFINE x == [m EXCEPT !.revenue_withdraw_since_last_settle = 0]
           S == {"revenue_withdraw_since_last_settle"}
<1>1. Market(m) /\ m.pnl_pool \in Nat /\ m.fee_pool \in Nat
  BY DEF Pooled
<1>2. DOMAIN m = Fields /\ m = [f \in Fields |-> m[f]] /\ S \subseteq Fields
      /\ S \subseteq PoolFields
  BY <1>1, MarketNumbers DEF PoolFields, Fields, IntegerFields, OtherFields, CurveFields
<1>3. Changed(m, x, S) /\ x.revenue_withdraw_since_last_settle = 0
      /\ x.pnl_pool = m.pnl_pool /\ x.fee_pool = m.fee_pool
  BY <1>2 DEF Changed
<1> HIDE DEF x
<1>4. \A f \in S : x[f] \in Int
  BY <1>3
<1>5. Pooled(x)
  <2>1. Abs(x.revenue_withdraw_since_last_settle) <= max_revenue_withdraw_per_period
    BY <1>3, OtherConstants DEF Abs
  <2> QED
    BY <1>1, <1>2, <1>3, <1>4, <2>1, PoolMarket DEF Pooled
<1>6. Changed(m, x, PoolFields)
  BY <1>2, <1>3, ChangedMore
<1>7. Changed(m, m, PoolFields)
  BY <1>1, SelfChanged
<1>8. RenewRevenueWithdraw(m, ts) = x \/ RenewRevenueWithdraw(m, ts) = m
  BY DEF RenewRevenueWithdraw, x
<1> QED
  BY <1>3, <1>5, <1>6, <1>7, <1>8

LEMMA RevenueToPoolBounds ==
  ASSUME NEW m, Pooled(m)
  PROVE  /\ RevenueToPool(m) \in Nat /\ RevenueToPool(m) <= m.fee_pool
         /\ RevenueToPool(m) <= m.revenue_withdraw_since_last_settle
                                  + max_revenue_withdraw_per_period
<1> DEFINE th == FEE_POOL_TO_REVENUE_POOL_THRESHOLD
           loss == m.total_social_loss
           fee == m.fee_pool
           threshold == Greatest(0, fee - (th + loss))
           liquidation_fees == Least(m.total_liquidation_fee,
                                     m.quote_settled_insurance + quote_max_insurance)
           max_revenue == Greatest(0, Least(m.revenue_withdraw_since_last_settle
                                              + max_revenue_withdraw_per_period,
                                            m.net_revenue_since_last_funding))
           owed == Greatest(0, get_total_fee_lower_bound(m) + liquidation_fees - m.total_fee_withdrawn)
<1>1. Market(m) /\ fee \in Nat
  BY DEF Pooled
<1>2. RevenueToPool(m) = Least(Least(owed, threshold), max_revenue)
  BY DEF RevenueToPool
<1>3. th \in Nat /\ loss \in Nat
  BY <1>1, PoolNumbers, OtherConstants
<1> HIDE DEF th, loss, fee
<1>4. threshold \in Nat /\ threshold <= fee
  BY <1>1, <1>3 DEF Greatest
<1> HIDE DEF threshold
<1>5. liquidation_fees \in Int
  BY <1>1, PoolNumbers, OtherConstants DEF Least
<1> HIDE DEF liquidation_fees
<1> DEFINE most == m.revenue_withdraw_since_last_settle + max_revenue_withdraw_per_period
<1>9. most \in Nat
  <2>1. m.revenue_withdraw_since_last_settle \in Int /\ max_revenue_withdraw_per_period \in Nat
        /\ Abs(m.revenue_withdraw_since_last_settle) <= max_revenue_withdraw_per_period
    BY <1>1, PoolNumbers, OtherConstants DEF Market
  <2> QED
    BY <2>1 DEF Abs
<1>6. max_revenue \in Nat /\ max_revenue <= most
  <2> HIDE DEF most
  <2>1. max_revenue = Greatest(0, Least(most, m.net_revenue_since_last_funding))
    BY DEF most
  <2>2. m.net_revenue_since_last_funding \in Int
    BY <1>1, PoolNumbers
  <2> HIDE DEF max_revenue
  <2> QED
    BY <1>9, <2>1, <2>2 DEF Least, Greatest
<1> HIDE DEF max_revenue, most
<1>7. owed \in Nat
  <2> DEFINE a == get_total_fee_lower_bound(m)
  <2>1. a \in Int /\ m.total_fee_withdrawn \in Int
    BY <1>1, PoolNumbers
  <2>2. owed = Greatest(0, a + liquidation_fees - m.total_fee_withdrawn)
    OBVIOUS
  <2> HIDE DEF a, owed
  <2> QED
    BY <1>5, <2>1, <2>2 DEF Greatest
<1> HIDE DEF owed
<1>8. /\ Least(Least(owed, threshold), max_revenue) \in Nat
      /\ Least(Least(owed, threshold), max_revenue) <= fee
      /\ Least(Least(owed, threshold), max_revenue) <= most
  BY <1>1, <1>4, <1>6, <1>7, <1>9 DEF Least
<1> QED
  BY <1>2, <1>8 DEF fee, most

LEMMA RevenueTransferBounds ==
  ASSUME NEW q, Pooled(q.m), q.revenue_pool \in Nat
  PROVE  LET t == calculate_revenue_pool_transfer(q)
         IN  /\ t \in Int /\ t <= q.m.fee_pool /\ -t <= q.revenue_pool
             /\ Abs(q.m.revenue_withdraw_since_last_settle - t) <= max_revenue_withdraw_per_period
<1> DEFINE surplus == q.m.total_fee_minus_distributions - q.m.total_fee_withdrawn
                        - FEE_POOL_TO_REVENUE_POOL_THRESHOLD
           to == RevenueToPool(q.m)
           short == -surplus
           from == RevenueFromPool(q, short)
           t == calculate_revenue_pool_transfer(q)
           fee == q.m.fee_pool
           pool == q.revenue_pool
           max == max_revenue_withdraw_per_period
           since == q.m.revenue_withdraw_since_last_settle
<1>1. Market(q.m) /\ fee \in Nat /\ pool \in Nat
  BY DEF Pooled
<1>2. t = IF surplus > 0 THEN to ELSE IF surplus < 0 THEN -from ELSE 0
  BY DEF calculate_revenue_pool_transfer
<1>3. surplus \in Int /\ since \in Int /\ max \in Nat
  BY <1>1, PoolNumbers, OtherConstants
<1>7. since <= max /\ -max <= since
  <2>1. Abs(since) <= max
    BY <1>1 DEF Market
  <2> HIDE DEF since, max
  <2> QED
    BY <1>3, <2>1 DEF Abs
<1>4. to \in Nat /\ to <= fee /\ to <= since + max
  BY RevenueToPoolBounds
<1> HIDE DEF surplus, to, fee, pool, t
<1>5. surplus < 0 => from \in Nat /\ from <= pool /\ from <= max - since
  <2> SUFFICES ASSUME surplus < 0
               PROVE  from \in Nat /\ from <= pool /\ from <= max - since
    OBVIOUS
  <2> DEFINE left == Greatest(0, max - since)
  <2>1. short \in Nat
    BY <1>3
  <2>2. from = Least(short, Least(Least(left, pool), max))
    BY DEF RevenueFromPool, pool
  <2>3. max \in Nat /\ since \in Int
    BY <1>3
  <2> HIDE DEF max, since, short, from
  <2>4. left \in Nat /\ left = max - since
    BY <1>7, <2>3 DEF Greatest
  <2> HIDE DEF left
  <2> QED
    BY <1>1, <2>1, <2>2, <2>3, <2>4 DEF Least
<1> HIDE DEF from, max, since
<1>6. t \in Int /\ t <= fee /\ -t <= pool
  BY <1>1, <1>2, <1>3, <1>4, <1>5
<1>8. since - t <= max /\ -max <= since - t
  BY <1>1, <1>2, <1>3, <1>4, <1>5, <1>7
<1>9. Abs(since - t) <= max
  BY <1>3, <1>6, <1>8 DEF Abs
<1> QED
  BY <1>6, <1>9 DEF t, fee, pool, max, since

LEMMA TransferPooled ==
  ASSUME NEW q, q = [m |-> q.m, revenue_pool |-> q.revenue_pool], Pooled(q.m), q.revenue_pool \in Nat,
         NEW ts \in Int
  PROVE  LET r == TransferRevenue(q, ts)
         IN  /\ r = [m |-> r.m, revenue_pool |-> r.revenue_pool]
             /\ Pooled(r.m) /\ Changed(q.m, r.m, PoolFields) /\ r.revenue_pool \in Nat
             /\ r.m.pnl_pool + r.m.fee_pool + r.revenue_pool
                  = q.m.pnl_pool + q.m.fee_pool + q.revenue_pool
<1> DEFINE t == calculate_revenue_pool_transfer(q)
           m == q.m
           fee == m.fee_pool - t
           withdrawn == m.total_fee_withdrawn + Greatest(t, 0)
           surplus == m.total_fee_minus_distributions - t
           since == m.revenue_withdraw_since_last_settle - t
           x == [m EXCEPT !.fee_pool = fee, !.total_fee_withdrawn = withdrawn,
                          !.total_fee_minus_distributions = surplus,
                          !.revenue_withdraw_since_last_settle = since,
                          !.last_revenue_withdraw_ts = ts]
           S == {"fee_pool", "total_fee_withdrawn", "total_fee_minus_distributions",
                 "revenue_withdraw_since_last_settle", "last_revenue_withdraw_ts"}
           pool == q.revenue_pool + t
           z == [m |-> x, revenue_pool |-> pool]
           r == TransferRevenue(q, ts)
<1>1. Market(m) /\ m.pnl_pool \in Nat /\ m.fee_pool \in Nat
  BY DEF Pooled
<1>2. t \in Int /\ t <= m.fee_pool /\ -t <= q.revenue_pool
      /\ Abs(since) <= max_revenue_withdraw_per_period
  BY RevenueTransferBounds
<1>3. r = IF t = 0 THEN q ELSE z
  BY DEF TransferRevenue
<1> HIDE DEF t
<1>4. fee \in Nat /\ pool \in Nat /\ fee + pool = m.fee_pool + q.revenue_pool
  BY <1>1, <1>2
<1>5. withdrawn \in Int /\ surplus \in Int /\ since \in Int
  BY <1>1, <1>2, PoolNumbers DEF Greatest
<1>6. DOMAIN m = Fields /\ m = [f \in Fields |-> m[f]] /\ S \subseteq Fields
      /\ S \subseteq PoolFields
  BY <1>1, MarketNumbers DEF PoolFields, Fields, IntegerFields, OtherFields, CurveFields
<1> HIDE DEF fee, withdrawn, surplus, since, pool, m
<1>7. /\ Changed(m, x, S) /\ x.fee_pool = fee /\ x.total_fee_withdrawn = withdrawn
      /\ x.total_fee_minus_distributions = surplus
      /\ x.revenue_withdraw_since_last_settle = since /\ x.last_revenue_withdraw_ts = ts
  BY <1>6 DEF Changed
<1>8. x.pnl_pool = m.pnl_pool
  <2>1. "pnl_pool" \in Fields \ S
    BY DEF Fields, IntegerFields, OtherFields
  <2> QED
    BY <1>6, <1>7, <2>1 DEF Changed
<1> HIDE DEF x
<1>9. \A f \in S : x[f] \in Int
  BY <1>4, <1>5, <1>7
<1>10. Pooled(x)
  <2>1. Market(x)
    BY <1>1, <1>2, <1>6, <1>7, <1>9, PoolMarket
  <2> QED
    BY <1>1, <1>4, <1>7, <1>8, <2>1 DEF Pooled
<1>11. Changed(m, x, PoolFields) /\ Changed(m, m, PoolFields)
  BY <1>1, <1>6, <1>7, ChangedMore, SelfChanged
<1>12. z = [m |-> z.m, revenue_pool |-> z.revenue_pool] /\ z.m = x /\ z.revenue_pool = pool
  OBVIOUS
<1> HIDE DEF z
<1>13. z.m.pnl_pool + z.m.fee_pool + z.revenue_pool = m.pnl_pool + m.fee_pool + q.revenue_pool
  <2> DEFINE a == m.pnl_pool
             b == m.fee_pool
             c == q.revenue_pool
  <2>1. a \in Int /\ b \in Int /\ c \in Int /\ fee \in Int /\ pool \in Int /\ fee + pool = b + c
    BY <1>1, <1>4
  <2>2. z.m.pnl_pool = a /\ z.m.fee_pool = fee /\ z.revenue_pool = pool
    BY <1>7, <1>8, <1>12
  <2> HIDE DEF a, b, c
  <2>3. z.m.pnl_pool + z.m.fee_pool + z.revenue_pool = a + b + c
    BY <2>1, <2>2
  <2> QED
    BY <2>3 DEF a, b, c
<1>14. CASE t = 0
  <2>1. r = q
    BY <1>3, <1>14
  <2> QED
    BY <1>11, <2>1 DEF m
<1>15. CASE t # 0
  <2>1. r = z
    BY <1>3, <1>15
  <2> QED
    BY <1>4, <1>10, <1>11, <1>12, <1>13, <2>1 DEF m
<1> QED
  BY <1>14, <1>15

LEMMA BeforeUserPooled ==
  ASSUME NEW q, q = [m |-> q.m, revenue_pool |-> q.revenue_pool], Pooled(q.m), q.revenue_pool \in Nat,
         NEW last, NEW ts \in Int
  PROVE  LET r == PoolsBeforeUser(q, last, ts)
         IN  /\ r = [m |-> r.m, revenue_pool |-> r.revenue_pool]
             /\ Pooled(r.m) /\ Changed(q.m, r.m, PoolFields) /\ r.revenue_pool \in Nat
             /\ r.m.pnl_pool + r.m.fee_pool + r.revenue_pool
                  = q.m.pnl_pool + q.m.fee_pool + q.revenue_pool
<1> DEFINE m == q.m
           a == FeePoolToPnlPool(m)
           b == PnlPoolToFeePool(a)
           c == RenewRevenueWithdraw(b, last)
           w == [m |-> c, revenue_pool |-> q.revenue_pool]
           r == TransferRevenue(w, ts)
<1>1. PoolsBeforeUser(q, last, ts) = r
  <2>1. [q EXCEPT !.m = c] = w
    OBVIOUS
  <2> QED
    BY <2>1 DEF PoolsBeforeUser
<1>2. Pooled(a) /\ Changed(m, a, PoolFields) /\ a.pnl_pool + a.fee_pool = m.pnl_pool + m.fee_pool
  BY FeeToPnlPooled
<1> HIDE DEF a
<1>3. Pooled(b) /\ Changed(a, b, PoolFields) /\ b.pnl_pool + b.fee_pool = a.pnl_pool + a.fee_pool
  BY <1>2, PnlToFeePooled
<1> HIDE DEF b
<1>4. Pooled(c) /\ Changed(b, c, PoolFields) /\ c.pnl_pool = b.pnl_pool /\ c.fee_pool = b.fee_pool
  BY <1>3, RenewedPooled
<1> HIDE DEF c
<1>5. Changed(m, c, PoolFields)
  <2>1. PoolFields \cup PoolFields = PoolFields
    OBVIOUS
  <2>2. Changed(m, b, PoolFields)
    BY <1>2, <1>3, <2>1, ChangedTwice
  <2> QED
    BY <1>4, <2>1, <2>2, ChangedTwice
<1>6. w = [m |-> w.m, revenue_pool |-> w.revenue_pool] /\ w.m = c /\ w.revenue_pool = q.revenue_pool
  OBVIOUS
<1> HIDE DEF w
<1>7. /\ r = [m |-> r.m, revenue_pool |-> r.revenue_pool]
      /\ Pooled(r.m) /\ Changed(c, r.m, PoolFields) /\ r.revenue_pool \in Nat
      /\ r.m.pnl_pool + r.m.fee_pool + r.revenue_pool = c.pnl_pool + c.fee_pool + q.revenue_pool
  <2>1. Pooled(w.m) /\ w.revenue_pool \in Nat
    BY <1>4, <1>6
  <2> QED
    BY <1>6, <2>1, TransferPooled
<1> HIDE DEF r
<1>8. Changed(m, r.m, PoolFields)
  <2>1. PoolFields \cup PoolFields = PoolFields
    OBVIOUS
  <2> QED
    BY <1>5, <1>7, <2>1, ChangedTwice
<1>9. c.pnl_pool + c.fee_pool + q.revenue_pool = m.pnl_pool + m.fee_pool + q.revenue_pool
  BY <1>2, <1>3, <1>4 DEF Pooled
<1> QED
  BY <1>1, <1>7, <1>8, <1>9

LEMMA PnlToSettleBounds ==
  ASSUME NEW m, Pooled(m), NEW unsettled \in Int, NEW token_amount \in Int
  PROVE  LET pnl == PnlToSettle(m, unsettled, token_amount) IN pnl \in Int /\ pnl <= m.pnl_pool
<1>1. m.pnl_pool \in Nat /\ BorrowLimit \in Nat
  BY OtherConstants DEF Pooled
<1> QED
  BY <1>1 DEF PnlToSettle, Least, Greatest

(* Whatever the settlement moves, the pools and the user have the same     *)
(* money between them, and no pool is overdrawn.                           *)
LEMMA SettledPooled ==
  ASSUME NEW q, q = [m |-> q.m, revenue_pool |-> q.revenue_pool], Pooled(q.m), q.revenue_pool \in Nat,
         NEW unsettled \in Int, NEW token_amount \in Int, NEW last, NEW ts \in Int
  PROVE  LET r == update_pool_balances(q, unsettled, token_amount, last, ts)
         IN  /\ Pooled(r.q.m) /\ Changed(q.m, r.q.m, PoolFields)
             /\ r.q.revenue_pool \in Nat /\ r.pnl \in Int
             /\ r.q.m.pnl_pool + r.q.m.fee_pool + r.q.revenue_pool + r.pnl
                  = q.m.pnl_pool + q.m.fee_pool + q.revenue_pool
<1> DEFINE before == PoolsBeforeUser(q, last, ts)
           m == before.m
           pnl == PnlToSettle(m, unsettled, token_amount)
           loss == -pnl
           part == loss \div 100
           for_amm == IF FeePoolTarget(q.m) > q.m.fee_pool /\ pnl < 0 THEN part ELSE 0
           fee == m.fee_pool + for_amm
           left == m.pnl_pool - pnl - for_amm
           x == [m EXCEPT !.fee_pool = fee, !.pnl_pool = left]
           S == {"fee_pool", "pnl_pool"}
           r == update_pool_balances(q, unsettled, token_amount, last, ts)
<1>1. /\ before = [m |-> m, revenue_pool |-> before.revenue_pool]
      /\ Pooled(m) /\ Changed(q.m, m, PoolFields) /\ before.revenue_pool \in Nat
      /\ m.pnl_pool + m.fee_pool + before.revenue_pool = q.m.pnl_pool + q.m.fee_pool + q.revenue_pool
  BY BeforeUserPooled
<1>2. Market(m) /\ m.pnl_pool \in Nat /\ m.fee_pool \in Nat
  BY <1>1 DEF Pooled
<1>3. DOMAIN m = Fields /\ m = [f \in Fields |-> m[f]] /\ S \subseteq Fields
  BY <1>2, MarketNumbers DEF Fields, IntegerFields, OtherFields
<1>4. r = [q |-> [before EXCEPT !.m.fee_pool = m.fee_pool + for_amm,
                                !.m.pnl_pool = m.pnl_pool - pnl - for_amm],
           pnl |-> pnl]
  <2>1. m.pnl_pool = [before EXCEPT !.m.fee_pool = m.fee_pool + for_amm].m.pnl_pool
    BY <1>1, <1>3
  <2> QED
    BY <1>1, <1>3, <2>1 DEF update_pool_balances
<1>5. pnl \in Int /\ pnl <= m.pnl_pool
  BY <1>1, PnlToSettleBounds
<1> HIDE DEF before, pnl, r
<1>6. for_amm \in Nat /\ (pnl >= 0 => for_amm = 0) /\ (pnl < 0 => for_amm <= -pnl)
  <2>1. pnl < 0 => part \in Nat /\ part <= -pnl
    BY <1>5
  <2> HIDE DEF part
  <2> QED
    BY <1>5, <2>1
<1> HIDE DEF for_amm
<1>7. fee \in Nat /\ left \in Nat /\ left + fee + pnl = m.pnl_pool + m.fee_pool
  BY <1>2, <1>5, <1>6
<1>8. /\ r.q.m = [[m EXCEPT !.fee_pool = fee] EXCEPT !.pnl_pool = left]
      /\ r.q.revenue_pool = before.revenue_pool /\ r.pnl = pnl
  <2>1. [before EXCEPT !.m.fee_pool = fee, !.m.pnl_pool = left]
          = [m |-> [[m EXCEPT !.fee_pool = fee] EXCEPT !.pnl_pool = left],
             revenue_pool |-> before.revenue_pool]
    <3> DEFINE g == [m EXCEPT !.fee_pool = fee]
               b == [before EXCEPT !.m = g]
    <3>1. b = [m |-> g, revenue_pool |-> before.revenue_pool]
      BY <1>1
    <3> HIDE DEF g, b
    <3> DEFINE h == [b.m EXCEPT !.pnl_pool = left]
               n == [g EXCEPT !.pnl_pool = left]
    <3>2. b.m = g /\ h = n
      BY <3>1
    <3> HIDE DEF h, n
    <3>3. [b EXCEPT !.m = h] = [m |-> n, revenue_pool |-> before.revenue_pool]
      BY <3>1, <3>2
    <3> QED
      BY <3>3 DEF b, g, h, n
  <2> QED
    BY <1>4, <2>1
<1>9. r.q.m = x
  BY <1>8
<1> HIDE DEF fee, left
<1>10. Changed(m, x, S) /\ x.fee_pool = fee /\ x.pnl_pool = left
  BY <1>3 DEF Changed
<1> HIDE DEF x, m
<1>11. Pooled(x) /\ Changed(m, x, PoolFields)
  BY <1>2, <1>7, <1>10, BetweenPools
<1>12. Changed(q.m, x, PoolFields)
  <2>1. PoolFields \cup PoolFields = PoolFields
    OBVIOUS
  <2> QED
    BY <1>1, <1>11, <2>1, ChangedTwice
<1>13. x.pnl_pool + x.fee_pool + before.revenue_pool + pnl = q.m.pnl_pool + q.m.fee_pool + q.revenue_pool
  <2> DEFINE a == m.pnl_pool
             b == m.fee_pool
             c == before.revenue_pool
             e == q.m.pnl_pool + q.m.fee_pool + q.revenue_pool
  <2>1. a \in Int /\ b \in Int /\ c \in Int /\ fee \in Int /\ left \in Int /\ pnl \in Int
    BY <1>1, <1>2, <1>5, <1>7
  <2>2. a + b + c = e /\ left + fee + pnl = a + b /\ x.pnl_pool = left /\ x.fee_pool = fee
    BY <1>1, <1>7, <1>10
  <2> HIDE DEF a, b, c, e
  <2>3. x.pnl_pool + x.fee_pool + c + pnl = e
    BY <2>1, <2>2
  <2> QED
    BY <2>3 DEF c, e
<1> QED
  BY <1>1, <1>5, <1>8, <1>9, <1>11, <1>12, <1>13 DEF r

LEMMA NetUserPnlType ==
  ASSUME NEW m, Market(m), NEW price \in Int
  PROVE  calculate_net_user_pnl(m, price) \in Int
<1> DEFINE net == m.base_asset_amount_with_amm + m.base_asset_amount_with_unsettled_lp
           v == net * price
<1>1. net \in Int
  BY PoolNumbers
<1> HIDE DEF net
<1>2. v \in Int /\ AMM_RESERVE_PRECISION \in Int /\ AMM_RESERVE_PRECISION # 0
  BY <1>1, CurveConstants
<1> HIDE DEF v
<1>3. Quot(v, AMM_RESERVE_PRECISION) \in Int
  BY <1>2, QuotTypes
<1>4. calculate_net_user_cost_basis(m) \in Int
  BY PoolNumbers DEF calculate_net_user_cost_basis
<1>5. calculate_net_user_pnl(m, price)
        = Quot(v, AMM_RESERVE_PRECISION) + calculate_net_user_cost_basis(m)
  BY DEF calculate_net_user_pnl, v, net
<1> QED
  BY <1>3, <1>4, <1>5

LEMMA ClaimableType ==
  ASSUME NEW m, Pooled(m), NEW p, Position(p), NEW price \in Int
  PROVE  get_claimable_pnl(p, price, max_pnl_pool_excess(m, price)) \in Int
<1> DEFINE net == calculate_net_user_pnl(m, price)
           available == m.pnl_pool + m.fee_pool \div 5
           excess == max_pnl_pool_excess(m, price)
           v == p.base_asset_amount * price
           pnl == get_unrealized_pnl(p, price)
<1>1. Market(m) /\ m.pnl_pool \in Nat /\ m.fee_pool \in Nat
  BY DEF Pooled
<1>2. net \in Int
  BY <1>1, NetUserPnlType
<1>3. available \in Int
  BY <1>1
<1>4. excess = IF net < available THEN available - Greatest(net, 0) ELSE 0
  BY DEF max_pnl_pool_excess
<1> HIDE DEF net, available, excess
<1>5. excess \in Int
  BY <1>2, <1>3, <1>4 DEF Greatest
<1>6. v \in Int /\ AMM_RESERVE_PRECISION \in Int /\ AMM_RESERVE_PRECISION # 0
      /\ p.quote_asset_amount \in Int /\ p.quote_entry_amount \in Int
  BY CurveConstants, PositionNumbers
<1>7. pnl = Quot(v, AMM_RESERVE_PRECISION) + p.quote_asset_amount
  BY DEF get_unrealized_pnl
<1> HIDE DEF v, pnl
<1>8. pnl \in Int
  <2>1. Quot(v, AMM_RESERVE_PRECISION) \in Int
    BY <1>6, QuotTypes
  <2> QED
    BY <1>6, <1>7, <2>1
<1>9. get_claimable_pnl(p, price, excess)
        = IF pnl > 0
            THEN Least(pnl, Greatest(0, p.quote_asset_amount - p.quote_entry_amount) + Greatest(0, excess))
            ELSE pnl
  BY DEF get_claimable_pnl, pnl
<1>10. get_claimable_pnl(p, price, excess) \in Int
  BY <1>5, <1>6, <1>8, <1>9 DEF Least, Greatest
<1> QED
  BY <1>10 DEF excess

LEMMA SettlePnlHandled ==
  ASSUME IInv, NEW u \in Users, SettlePnl(u)
  PROVE  IInv'
<1> DEFINE s == SettleFundingThenLp(update_amm(s0), u)
           q == [m |-> s.m, revenue_pool |-> revenue_pool]
           claim == get_claimable_pnl(s.positions[u], oracle_price, max_pnl_pool_excess(s.m, oracle_price))
           r == SettleWithPools(s, u)
           x == r.q.m
           pnl == r.pnl
           debit == -pnl
           o == [m |-> x, positions |-> positions]
           s2 == [m |-> x, positions |-> s.positions]
           v == Pay(s2, u, debit)
           z == 0
           U == {u}
<1>1. /\ Call("pnl") /\ UpdateAmmValid(market, oracle_price)
      /\ Commit(Pay([s EXCEPT !.m = r.q.m], u, -r.pnl), U)
      /\ tokens' = [tokens EXCEPT ![u] = @ + r.pnl]
      /\ revenue_pool' = r.q.revenue_pool
      /\ UNCHANGED <<last_revenue_settle_ts, deposited>> /\ EnvironmentUnchanged
  BY DEF SettlePnl
<1>2. /\ Market(market) /\ Ledger /\ Environment /\ market.pnl_pool \in Nat /\ market.fee_pool \in Nat
      /\ revenue_pool \in Nat /\ tokens \in [Users -> Int] /\ deposited \in Int
      /\ oracle_price \in Int /\ now \in Int
  BY MarketNow DEF Pools
<1>3. s0.m = market /\ s0.positions = positions
  BY <1>2, ReachedStart
<1>4. Reached(s0, s, U, z) /\ z \in Int
  BY <1>1, <1>2, ReachedReady
<1>5. r = update_pool_balances(q, claim, tokens[u], last_revenue_settle_ts, now)
  BY DEF SettleWithPools
<1> HIDE DEF s, z, r, U
<1>6. s = [m |-> s.m, positions |-> s.positions] /\ Market(s.m) /\ Position(s.positions[u])
  BY <1>4, ReachedParts
<1>7. /\ s.m.pnl_pool = market.pnl_pool /\ s.m.fee_pool = market.fee_pool
      /\ \A f \in CumulativeFields : s.m[f] = market[f]
  BY <1>3, <1>4 DEF Reached, KeptFields, CumulativeFields
<1>8. Pooled(s.m)
  BY <1>2, <1>6, <1>7 DEF Pooled
<1>9. claim \in Int /\ tokens[u] \in Int
  BY <1>2, <1>6, <1>8, ClaimableType
<1>10. q = [m |-> q.m, revenue_pool |-> q.revenue_pool] /\ q.m = s.m /\ q.revenue_pool = revenue_pool
  OBVIOUS
<1> HIDE DEF q, claim
<1>11. /\ Pooled(x) /\ Changed(s.m, x, PoolFields) /\ r.q.revenue_pool \in Nat /\ pnl \in Int
       /\ x.pnl_pool + x.fee_pool + r.q.revenue_pool + pnl
            = s.m.pnl_pool + s.m.fee_pool + revenue_pool
  <2>1. Pooled(q.m) /\ q.revenue_pool \in Nat
    BY <1>2, <1>8, <1>10
  <2> QED
    BY <1>2, <1>5, <1>9, <1>10, <2>1, SettledPooled
<1> HIDE DEF x, pnl
<1>12. Market(x) /\ x.pnl_pool \in Nat /\ x.fee_pool \in Nat
  BY <1>11 DEF Pooled
<1>13. PoolFields \cap (CountedFields \cup NetFields \cup CumulativeFields) = {}
  BY DEF PoolFields, CountedFields, NetFields, CumulativeFields
<1>14. Reached(o, s2, U, z)
  BY <1>3, <1>4, <1>11, <1>12, <1>13, PoolsReached
<1>15. [s EXCEPT !.m = x] = s2
  BY <1>6
<1>16. o.m = x /\ o.positions = positions
  OBVIOUS
<1> HIDE DEF s2, o
<1>17. debit \in Int
  BY <1>11
<1>18. Commit(v, U)
  BY <1>1, <1>15 DEF x, pnl
<1> HIDE DEF debit
<1>19. Reached(o, v, U, 0)
  <2>1. Reached(o, v, U, z)
    BY <1>4, <1>14, <1>17, ReachedPay
  <2> QED
    BY <2>1 DEF z
<1> HIDE DEF v
<1>20. Market(v.m) /\ v = [m |-> v.m, positions |-> v.positions]
  BY <1>19, ReachedParts
<1>21. Changed(v.m, v.m, CurveFields \cup RateFields)
  BY <1>20, SelfChanged
<1>22. Commit([m |-> v.m, positions |-> v.positions], U)
  BY <1>18, <1>20
<1>23. \A f \in CumulativeFields : o.m[f] = market[f]
  <2>1. DOMAIN s.m = Fields /\ CumulativeFields \subseteq Fields \ PoolFields
    BY <1>6, MarketNumbers DEF CumulativeFields, PoolFields, Fields, IntegerFields, OtherFields
  <2>2. \A f \in CumulativeFields : x[f] = s.m[f]
    BY <1>11, <2>1 DEF Changed
  <2> QED
    BY <1>7, <1>16, <2>2
<1>24. Ledger' /\ market'.pnl_pool = x.pnl_pool /\ market'.fee_pool = x.fee_pool
  BY <1>2, <1>16, <1>19, <1>20, <1>21, <1>22, <1>23, CommitLedger
<1>25. transactions' = transactions + 1
  BY <1>1 DEF Commit
<1>26. tokens' = [tokens EXCEPT ![u] = @ + pnl]
  BY <1>1 DEF pnl
<1>27. /\ market'.pnl_pool \in Nat /\ market'.fee_pool \in Nat /\ revenue_pool' \in Nat
       /\ tokens' \in [Users -> Int] /\ deposited' \in Int /\ deposited' = deposited
  BY <1>1, <1>2, <1>11, <1>12, <1>24, <1>26
<1>28. TotalOf(tokens') = TotalOf(tokens) + pnl /\ TotalOf(tokens) \in Int
  <2>1. IsFiniteSet(Users)
    BY EnvironmentAssumption DEF EnvironmentAssumption
  <2>2. tokens'[u] = tokens[u] + pnl /\ (\A i \in Users : i # u => tokens'[i] = tokens[i])
        /\ tokens[u] \in Int
    BY <1>2, <1>26
  <2>3. TotalOf(tokens') = TotalOf(tokens) - tokens[u] + tokens'[u]
    BY <1>2, <1>27, <2>1, <2>2, TotalUpdate
  <2>4. TotalOf(tokens) \in Int
    BY <1>2, <2>1, TotalType
  <2> QED
    BY <1>11, <2>2, <2>3, <2>4
<1>29. (market'.pnl_pool + market'.fee_pool + revenue_pool' + TotalOf(tokens')) - deposited'
         = (market.pnl_pool + market.fee_pool + revenue_pool + TotalOf(tokens)) - deposited
  <2> DEFINE t == TotalOf(tokens)
             a == market.pnl_pool
             c == market.fee_pool
             i == x.pnl_pool
             j == x.fee_pool
             k == r.q.revenue_pool
  <2>1. t \in Int /\ a \in Int /\ c \in Int /\ revenue_pool \in Int /\ deposited \in Int
        /\ i \in Int /\ j \in Int /\ k \in Int
    BY <1>2, <1>11, <1>12, <1>28
  <2>2. /\ market'.pnl_pool = i /\ market'.fee_pool = j /\ revenue_pool' = k
        /\ TotalOf(tokens') = t + pnl /\ deposited' = deposited
        /\ i + j + k + pnl = a + c + revenue_pool
    BY <1>1, <1>7, <1>11, <1>24, <1>27, <1>28
  <2> HIDE DEF t, a, c, i, j, k
  <2>3. (i + j + k + (t + pnl)) - deposited = (a + c + revenue_pool + t) - deposited
    BY <1>11, <2>1, <2>2
  <2>4. (market'.pnl_pool + market'.fee_pool + revenue_pool' + TotalOf(tokens')) - deposited'
          = (i + j + k + (t + pnl)) - deposited
    BY <2>2
  <2> QED
    BY <2>3, <2>4 DEF t, a, c
<1> QED
  BY <1>1, <1>24, <1>25, <1>27, <1>29, MoneyHandled DEF EnvironmentUnchanged

(***************************************************************************)
(* The invariant holds of a market as it opens.                            *)
(***************************************************************************)

LEMMA HalfSpread == base_spread \div 2 \in Spreads
<1> DEFINE b == base_spread
           P == BID_ASK_SPREAD_PRECISION
<1>1. b \in Nat /\ b <= P /\ P \in Nat
  BY CurveConstants
<1> HIDE DEF b, P
<1>2. b \div 2 \in 0 .. P
  BY <1>1
<1> QED
  BY <1>2 DEF b, P, Spreads

LEMMA EmptyMarketFields ==
  LET E == EmptyPerpMarket
  IN  /\ DOMAIN E = Fields /\ E = [f \in Fields |-> E[f]]
      /\ E.status = "Active"
      /\ E.spread_inputs = [long |-> base_spread \div 2, short |-> base_spread \div 2]
      /\ E.base_asset_reserve = InitialSqrtK /\ E.quote_asset_reserve = InitialSqrtK
      /\ E.sqrt_k = InitialSqrtK /\ E.peg_multiplier = InitialPeg
      /\ E.terminal_quote_asset_reserve = InitialSqrtK
      /\ E.concentration_coef = MAX_CONCENTRATION_COEFFICIENT
      /\ E.total_fee_minus_distributions = InitialFeePool /\ E.fee_pool = InitialFeePool
      /\ \A f \in IntegerFields \ {"base_asset_reserve", "quote_asset_reserve", "sqrt_k",
                                   "peg_multiplier", "terminal_quote_asset_reserve",
                                   "concentration_coef", "total_fee_minus_distributions", "fee_pool"} :
           E[f] = 0
<1>1. DOMAIN EmptyPerpMarket = Fields
  BY DEF EmptyPerpMarket, Fields, IntegerFields, CurveFields, LedgerFields, OtherFields
<1>2. EmptyPerpMarket = [f \in DOMAIN EmptyPerpMarket |-> EmptyPerpMarket[f]]
  BY DEF EmptyPerpMarket
<1>3. \A f \in CurveFields \ {"base_asset_reserve", "quote_asset_reserve", "sqrt_k",
                              "peg_multiplier", "terminal_quote_asset_reserve",
                              "concentration_coef", "total_fee_minus_distributions"} :
           EmptyPerpMarket[f] = 0
  BY DEF EmptyPerpMarket, CurveFields
<1>4. \A f \in LedgerFields : EmptyPerpMarket[f] = 0
  BY DEF EmptyPerpMarket, LedgerFields
<1>5. \A f \in OtherFields \ {"fee_pool"} : EmptyPerpMarket[f] = 0
  BY DEF EmptyPerpMarket, OtherFields
<1>6. \A f \in IntegerFields \ {"base_asset_reserve", "quote_asset_reserve", "sqrt_k",
                                "peg_multiplier", "terminal_quote_asset_reserve",
                                "concentration_coef", "total_fee_minus_distributions", "fee_pool"} :
           EmptyPerpMarket[f] = 0
  BY <1>3, <1>4, <1>5 DEF IntegerFields
<1>7. /\ EmptyPerpMarket.status = "Active"
      /\ EmptyPerpMarket.spread_inputs = [long |-> base_spread \div 2, short |-> base_spread \div 2]
      /\ EmptyPerpMarket.base_asset_reserve = InitialSqrtK
      /\ EmptyPerpMarket.quote_asset_reserve = InitialSqrtK
      /\ EmptyPerpMarket.sqrt_k = InitialSqrtK /\ EmptyPerpMarket.peg_multiplier = InitialPeg
      /\ EmptyPerpMarket.terminal_quote_asset_reserve = InitialSqrtK
      /\ EmptyPerpMarket.concentration_coef = MAX_CONCENTRATION_COEFFICIENT
      /\ EmptyPerpMarket.total_fee_minus_distributions = InitialFeePool
      /\ EmptyPerpMarket.fee_pool = InitialFeePool
  BY DEF EmptyPerpMarket
<1> QED
  BY <1>1, <1>2, <1>6, <1>7

LEMMA EmptyMarket == Market(EmptyPerpMarket)
<1> DEFINE E == EmptyPerpMarket
           S == {"base_asset_reserve", "quote_asset_reserve", "sqrt_k", "peg_multiplier",
                 "terminal_quote_asset_reserve", "concentration_coef",
                 "total_fee_minus_distributions", "fee_pool"}
           half == base_spread \div 2
<1>1. /\ E = [f \in Fields |-> E[f]] /\ E.status = "Active"
      /\ E.spread_inputs = [long |-> half, short |-> half]
      /\ E.base_asset_reserve = InitialSqrtK /\ E.quote_asset_reserve = InitialSqrtK
      /\ E.sqrt_k = InitialSqrtK /\ E.peg_multiplier = InitialPeg
      /\ E.terminal_quote_asset_reserve = InitialSqrtK
      /\ E.concentration_coef = MAX_CONCENTRATION_COEFFICIENT
      /\ E.total_fee_minus_distributions = InitialFeePool /\ E.fee_pool = InitialFeePool
      /\ \A f \in IntegerFields \ S : E[f] = 0
  BY EmptyMarketFields
<1> HIDE DEF E
<1>2. /\ InitialSqrtK \in Nat \ {0} /\ InitialPeg \in Nat \ {0} /\ InitialFeePool \in Nat
      /\ MAX_CONCENTRATION_COEFFICIENT \in Nat \ {0}
  BY OtherConstants, CurveConstants
<1>3. \A f \in S : E[f] \in Int
  BY <1>1, <1>2
<1>4. \A f \in IntegerFields : E[f] \in Int
  <2> HIDE DEF S
  <2> QED
    BY <1>1, <1>3
<1>5. {"long_spread", "short_spread"} \cup BoundedFields \subseteq IntegerFields \ S
  BY DEF BoundedFields, IntegerFields, CurveFields, LedgerFields, OtherFields
<1>6. /\ E.long_spread = 0 /\ E.short_spread = 0 /\ E.user_lp_shares = 0
      /\ E.total_social_loss = 0 /\ E.per_lp_base = 0
      /\ E.base_asset_amount_long = 0 /\ E.base_asset_amount_short = 0
      /\ E.revenue_withdraw_since_last_settle = 0
  BY <1>1, <1>5 DEF BoundedFields
<1>7. 0 \in Spreads
  BY CurveConstants DEF Spreads
<1>8. E.spread_inputs \in [{"long", "short"} -> Spreads]
  <2>1. half \in Spreads
    BY HalfSpread
  <2> HIDE DEF half
  <2> QED
    BY <1>1, <2>1
<1>9. Typed(E)
  BY <1>1, <1>4, <1>8 DEF Typed, Statuses
<1>10. Curved(E)
  BY <1>1, <1>2, <1>6, <1>7 DEF Curved
<1>11. /\ Abs(E.per_lp_base) <= MaxPerLpBase
       /\ Abs(E.revenue_withdraw_since_last_settle) <= max_revenue_withdraw_per_period
  <2>1. MaxPerLpBase \in Nat /\ max_revenue_withdraw_per_period \in Nat
    BY EnvironmentAssumption, OtherConstants DEF EnvironmentAssumption
  <2> QED
    BY <1>6, <2>1 DEF Abs
<1>12. Multiple(E.base_asset_amount_long) /\ Multiple(E.base_asset_amount_short)
  BY <1>6, MultipleZero
<1>13. Market(E)
  BY <1>6, <1>9, <1>10, <1>11, <1>12 DEF Market
<1> QED
  BY <1>13 DEF E

LEMMA SpreadsKeepK ==
  ASSUME NEW m, Market(m)
  PROVE  update_spreads(m).sqrt_k = m.sqrt_k /\ RefreshTerminal(m).sqrt_k = m.sqrt_k
<1>1. DOMAIN m = Fields /\ m = [f \in Fields |-> m[f]] /\ "sqrt_k" \in Fields
  BY MarketNumbers DEF Fields, IntegerFields, CurveFields
<1>2. RefreshTerminal(m).sqrt_k = m.sqrt_k
  BY <1>1 DEF RefreshTerminal, calculate_bid_ask_bounds
<1>3. update_spreads(m).sqrt_k = m.sqrt_k
  BY <1>1 DEF update_spreads, update_spread_reserves
<1> QED
  BY <1>2, <1>3

LEMMA NewMarketOpens ==
  LET N == NewMarket
  IN  /\ Market(N) /\ N.sqrt_k = InitialSqrtK /\ N.status = "Active"
      /\ \A f \in CountedFields \cup NetFields \cup CumulativeFields : N[f] = 0
      /\ N.pnl_pool = 0 /\ N.fee_pool = InitialFeePool
<1> DEFINE E == EmptyPerpMarket
           R == RefreshTerminal(E)
           N == update_spreads(R)
<1>1. NewMarket = N
  BY DEF NewMarket
<1>2. /\ Market(E) /\ E.sqrt_k = InitialSqrtK /\ E.base_asset_reserve = InitialSqrtK
      /\ E.status = "Active" /\ E.fee_pool = InitialFeePool
  BY EmptyMarket, EmptyMarketFields
<1>3. \A f \in CountedFields \cup NetFields \cup CumulativeFields \cup {"pnl_pool"} : E[f] = 0
  BY EmptyMarketFields
     DEF CountedFields, NetFields, CumulativeFields, IntegerFields, LedgerFields, OtherFields
<1> HIDE DEF E
<1>4. TerminalValid(E)
  <2>1. E.base_asset_amount_with_amm = 0
    BY <1>3 DEF NetFields
  <2>2. InitialSqrtK \in Nat \ {0}
    BY OtherConstants
  <2> QED
    BY <1>2, <2>1, <2>2 DEF TerminalValid
<1>5. Moved(E, R) /\ R.sqrt_k = E.sqrt_k
  BY <1>2, <1>4, RefreshMoves, SpreadsKeepK
<1> HIDE DEF R
<1>6. Moved(R, N) /\ N.sqrt_k = R.sqrt_k
  BY <1>5, SpreadsMove, SpreadsKeepK DEF Moved
<1> HIDE DEF N
<1>7. Market(N) /\ Changed(E, N, CurveFields)
  <2>1. Moved(E, N)
    BY <1>5, <1>6, MovedTwice
  <2> QED
    BY <2>1 DEF Moved
<1>8. /\ DOMAIN E = Fields
      /\ CountedFields \cup NetFields \cup CumulativeFields \cup {"pnl_pool", "fee_pool", "status"}
           \subseteq Fields \ CurveFields
  BY <1>2, MarketNumbers
     DEF CountedFields, NetFields, CumulativeFields, Fields, IntegerFields, LedgerFields, OtherFields,
         CurveFields
<1>9. \A f \in CountedFields \cup NetFields \cup CumulativeFields \cup {"pnl_pool", "fee_pool", "status"} :
        N[f] = E[f]
  BY <1>7, <1>8 DEF Changed
<1>10. \A f \in CountedFields \cup NetFields \cup CumulativeFields : N[f] = 0
  BY <1>3, <1>9
<1>11. N.pnl_pool = 0 /\ N.fee_pool = InitialFeePool /\ N.status = "Active"
  BY <1>2, <1>3, <1>9
<1> QED
  BY <1>1, <1>2, <1>5, <1>6, <1>7, <1>10, <1>11

LEMMA ZeroTotal ==
  ASSUME NEW f, f = [u \in Users |-> 0]
  PROVE  TotalOf(f) = 0
<1> DEFINE z == 0
           n == Cardinality(Users)
<1>1. IsFiniteSet(Users)
  BY EnvironmentAssumption DEF EnvironmentAssumption
<1>2. z \in Int /\ f = [u \in Users |-> z]
  OBVIOUS
<1> HIDE DEF z
<1>3. TotalOf(f) = n * z
  BY <1>1, <1>2, TotalOfConstant
<1>4. n \in Nat
  BY <1>1, FS_CardinalityType
<1> HIDE DEF n
<1>5. n * 0 = 0
  BY <1>4
<1> QED
  BY <1>3, <1>5 DEF z

LEMMA FreshSound ==
  ASSUME NEW s, s = [m |-> NewMarket, positions |-> [u \in Users |-> EmptyPosition]]
  PROVE  /\ Sound(s) /\ s.m = NewMarket /\ NetBase(s.m) = 0
         /\ s.positions = [u \in Users |-> EmptyPosition]
<1> DEFINE N == NewMarket
           e == EmptyPosition
           ps == [u \in Users |-> EmptyPosition]
           zero == [u \in Users |-> 0]
<1>1. s.m = N /\ s.positions = ps /\ s = [m |-> s.m, positions |-> s.positions]
  OBVIOUS
<1>2. Market(N) /\ (\A f \in CountedFields \cup NetFields \cup CumulativeFields : N[f] = 0)
  BY NewMarketOpens
<1>3. Position(e)
  BY EmptyIsPosition
<1>4. /\ e.base_asset_amount = 0 /\ e.quote_asset_amount = 0 /\ e.quote_entry_amount = 0
      /\ e.quote_break_even_amount = 0 /\ e.lp_shares = 0 /\ HoldsBase(e) = 0
  BY DEF EmptyPosition, HoldsBase, NoBase
<1> HIDE DEF N, e
<1>5. \A u \in Users : ps[u] = e
  BY DEF e
<1>6. ps = [u \in Users |-> ps[u]]
  OBVIOUS
<1> HIDE DEF ps
<1>7. /\ Bases(ps) = zero /\ QuotesOf(ps) = zero /\ Entries(ps) = zero /\ BreakEvens(ps) = zero
      /\ Shares(ps) = zero /\ Holders(ps) = zero
  BY <1>4, <1>5 DEF Bases, QuotesOf, Entries, BreakEvens, Shares, Holders
<1>8. TotalOf(zero) = 0
  BY ZeroTotal
<1> HIDE DEF zero
<1>9. /\ N.base_asset_amount_long = 0 /\ N.base_asset_amount_short = 0 /\ N.quote_asset_amount = 0
      /\ N.quote_entry_amount_long = 0 /\ N.quote_entry_amount_short = 0
      /\ N.quote_break_even_amount_long = 0 /\ N.quote_break_even_amount_short = 0
      /\ N.user_lp_shares = 0 /\ N.number_of_users_with_base = 0
      /\ N.base_asset_amount_with_amm = 0 /\ N.base_asset_amount_with_unsettled_lp = 0
  BY <1>2 DEF CountedFields, NetFields
<1>10. TotalsMatch(N, ps)
  BY <1>7, <1>8, <1>9 DEF TotalsMatch
<1>11. Sound(s)
  BY <1>1, <1>2, <1>3, <1>5, <1>6, <1>10 DEF Sound
<1>12. NetBase(s.m) = 0
  BY <1>1, <1>9 DEF NetBase
<1> QED
  BY <1>1, <1>11, <1>12 DEF N, ps

LEMMA NothingDue ==
  ASSUME Sound(s0), \A u \in Users : FundingUpToDate(market, positions[u]),
         funding_due = [u \in Users |-> 0]
  PROVE  FundingOwedOnce
<1> SUFFICES ASSUME NEW u \in Users
             PROVE  (CumulativeFundingRate(market, positions[u].base_asset_amount)
                       - positions[u].last_cumulative_funding_rate) * positions[u].base_asset_amount
                      = funding_due[u]
  BY DEF FundingOwedOnce
<1> DEFINE base == positions[u].base_asset_amount
           last == positions[u].last_cumulative_funding_rate
           c == CumulativeFundingRate(market, base)
<1>1. Position(positions[u]) /\ Market(market)
  BY SoundNow
<1>2. base \in Int /\ last \in Int /\ c \in Int
  BY <1>1, PositionNumbers, RateType
<1>3. base # 0 => last = c
  BY DEF FundingUpToDate
<1>4. funding_due[u] = 0
  OBVIOUS
<1> HIDE DEF base, last, c
<1>5. (c - last) * base = 0
  <2>1. CASE base = 0
    BY <1>2, <2>1
  <2>2. CASE base # 0
    <3>1. c - last = 0
      BY <1>2, <1>3, <2>2
    <3> QED
      BY <1>2, <3>1
  <2> QED
    BY <2>1, <2>2
<1> QED
  BY <1>4, <1>5 DEF base, last, c

LEMMA InitLedger ==
  ASSUME Init
  PROVE  Ledger /\ market.pnl_pool = 0 /\ market.fee_pool = InitialFeePool
<1> DEFINE N == NewMarket
           e == EmptyPosition
           s == [m |-> N, positions |-> [v \in Users |-> e]]
<1>1. Sound(s) /\ s.m = N /\ NetBase(s.m) = 0 /\ s.positions = [v \in Users |-> e]
  BY FreshSound
<1>2. Market(N) /\ N.sqrt_k = InitialSqrtK /\ N.pnl_pool = 0 /\ N.fee_pool = InitialFeePool
  BY NewMarketOpens
<1>3. Position(e)
  BY EmptyIsPosition
<1>4. FundingUpToDate(N, e)
  <2>1. e.base_asset_amount = 0
    BY DEF EmptyPosition
  <2> HIDE DEF e, N
  <2> QED
    BY <2>1 DEF FundingUpToDate
<1>5. PICK u \in Users, shares \in scenario.initial_lp_shares :
        IF shares = 0
          THEN market = N /\ positions = [v \in Users |-> e]
          ELSE /\ UpdateKValid(N, InitialSqrtK + shares, TRUE)
               /\ market = FirstLp(shares).m
               /\ positions = [v \in Users |-> IF v = u THEN FirstLp(shares).p ELSE e]
  BY DEF Init
<1>6. funding_due = [v \in Users |-> 0] /\ scenario \in Scenarios
  BY DEF Init
<1>7. shares \in Nat
  BY <1>5, <1>6, ScenarioAssumption DEF ScenarioAssumption
<1>8. CASE shares = 0
  <2>1. market = N /\ positions = [v \in Users |-> e]
    BY <1>5, <1>8
  <2>2. s0 = s
    BY <2>1 DEF s0
  <2> HIDE DEF N, e, s
  <2>3. Sound(s0) /\ NetBase(market) = 0
    BY <1>1, <2>1, <2>2
  <2>4. \A v \in Users : FundingUpToDate(market, positions[v])
    BY <1>4, <2>1
  <2>5. FundingOwedOnce
    BY <1>6, <2>3, <2>4, NothingDue
  <2> QED
    BY <1>2, <2>1, <2>3, <2>5 DEF Ledger
<1>9. CASE shares # 0
  <2> DEFINE r == FirstLp(shares)
             t == [m |-> r.m, positions |-> [s.positions EXCEPT ![u] = r.p]]
  <2>1. /\ UpdateKValid(N, N.sqrt_k + shares, TRUE) /\ market = r.m
        /\ positions = [v \in Users |-> IF v = u THEN r.p ELSE e]
    BY <1>2, <1>5, <1>9
  <2>2. r = mint_lp_shares(N, e, shares)
    BY DEF FirstLp
  <2> HIDE DEF N, e, s, r
  <2>3. Booked(N, e, r.m, r.p, 0) /\ FundingUpToDate(r.m, r.p)
    BY <1>2, <1>3, <1>4, <1>7, <2>1, <2>2, SharesMinted
  <2>4. s.positions[u] = e
    BY <1>1
  <2>5. Sound(t)
    BY <1>1, <2>3, <2>4, TotalsStep
  <2>6. s0 = t
    <3>1. positions = [s.positions EXCEPT ![u] = r.p]
      BY <1>1, <2>1
    <3> QED
      BY <2>1, <3>1 DEF s0
  <2> HIDE DEF t
  <2>7. NetBase(market) = 0 /\ market.pnl_pool = 0 /\ market.fee_pool = InitialFeePool
    <3>1. NetBase(r.m) = NetBase(N) + 0 /\ (\A f \in KeptFields : r.m[f] = N[f])
      BY <2>3 DEF Booked
    <3>2. NetBase(N) = 0
      BY <1>1
    <3>3. r.m.pnl_pool = N.pnl_pool /\ r.m.fee_pool = N.fee_pool
      BY <3>1 DEF KeptFields
    <3> QED
      BY <1>2, <2>1, <3>1, <3>2, <3>3
  <2>8. \A v \in Users : FundingUpToDate(market, positions[v])
    <3>1. \A f \in KeptFields : r.m[f] = N[f]
      BY <2>3 DEF Booked
    <3>2. e.base_asset_amount = 0
      BY DEF e, EmptyPosition
    <3>3. FundingUpToDate(market, e)
      BY <3>2 DEF FundingUpToDate
    <3> QED
      BY <2>1, <2>3, <3>3
  <2>9. Sound(s0)
    BY <2>5, <2>6
  <2>10. FundingOwedOnce
    BY <1>6, <2>8, <2>9, NothingDue
  <2> QED
    BY <2>7, <2>9, <2>10 DEF Ledger
<1> QED
  BY <1>8, <1>9

LEMMA InitHolds ==
  ASSUME Init
  PROVE  IInv
<1>1. Ledger /\ market.pnl_pool = 0 /\ market.fee_pool = InitialFeePool
  BY InitLedger
<1>2. /\ tokens = [u \in Users |-> InitialTokens] /\ revenue_pool = InitialRevenuePool
      /\ last_revenue_settle_ts = 0 /\ oracle_price = InitialPeg /\ now = 0 /\ transactions = 0
      /\ deposited = 0 /\ scenario \in Scenarios
  BY DEF Init
<1>3. IsFiniteSet(Users) /\ InitialRevenuePool \in Nat /\ InitialTokens \in Int
  BY EnvironmentAssumption DEF EnvironmentAssumption
<1>4. InitialFeePool \in Nat /\ InitialPeg \in Nat
  BY OtherConstants
<1>5. tokens \in [Users -> Int]
  BY <1>2, <1>3
<1>6. TokensConserved
  <2> DEFINE c == Cardinality(Users) * InitialTokens
             t == TotalOf(tokens)
  <2>1. t = c
    BY <1>2, <1>3, TotalOfConstant
  <2>2. c \in Int
    BY <1>3, FS_CardinalityType
  <2> HIDE DEF c, t
  <2>3. market.pnl_pool + market.fee_pool + revenue_pool + t = InitialFeePool + InitialRevenuePool + c + deposited
    BY <1>1, <1>2, <1>3, <1>4, <2>1, <2>2
  <2> QED
    BY <2>3 DEF TokensConserved, t, c
<1>7. Pools
  BY <1>1, <1>2, <1>3, <1>4, <1>5, <1>6 DEF Pools
<1>8. Environment
  <2>1. scenario.max_time \in Nat /\ scenario.max_transactions \in Nat
    BY <1>2, ScenarioAssumption DEF ScenarioAssumption
  <2> QED
    BY <1>2, <1>4, <2>1 DEF Environment
<1> QED
  BY <1>1, <1>7, <1>8 DEF IInv

(***************************************************************************)
(* The theorems.                                                           *)
(***************************************************************************)

LEMMA StutteringKeeps ==
  ASSUME IInv, UNCHANGED vars
  PROVE  IInv'
<1>1. UNCHANGED <<market, positions, funding_due, scenario, tokens, deposited, revenue_pool,
                  last_revenue_settle_ts, oracle_price, transactions, now>>
  BY DEF vars
<1>2. Ledger'
  BY <1>1 DEF IInv, Ledger, s0, FundingOwedOnce
<1>3. Pools'
  BY <1>1 DEF IInv, Pools, TokensConserved
<1>4. Environment'
  BY <1>1 DEF IInv, Environment
<1> QED
  BY <1>2, <1>3, <1>4 DEF IInv

(* What every handler of a perp market relies on holds in every state the  *)
(* program can reach: the curve and every position are well formed, the    *)
(* market's totals are those of its positions, funding is owed once, and   *)
(* no pool is overdrawn (controller/position.rs, controller/amm.rs,        *)
(* controller/pnl.rs).                                                     *)
THEOREM InductiveInvariant == Spec => []IInv
<1>1. Init => IInv
  BY InitHolds
<1>2. IInv /\ [Next]_vars => IInv'
  <2> SUFFICES ASSUME IInv, [Next]_vars
               PROVE  IInv'
    OBVIOUS
  <2>1. ASSUME NEW taker \in Users, NEW filler \in scenario.fillers, NEW base \in scenario.order_sizes,
               NEW direction \in Directions, NEW price \in scenario.limit_prices \cup {0},
               FillWithAmm(taker, base, direction, price, filler)
        PROVE  IInv'
    BY <2>1, FillWithAmmHandled
  <2>2. ASSUME NEW taker \in Users, NEW maker \in Users, NEW filler \in scenario.fillers,
               NEW base \in scenario.order_sizes, NEW maker_base \in scenario.order_sizes,
               NEW direction \in Directions, NEW price \in scenario.limit_prices,
               NEW has_limit_price \in BOOLEAN,
               FillWithMatch(taker, maker, base, maker_base, direction, price, has_limit_price, filler)
        PROVE  IInv'
    BY <2>2, FillWithMatchHandled
  <2>3. ASSUME NEW u \in Users, NEW shares \in LpSizes, AddPerpLpShares(u, shares)
        PROVE  IInv'
    BY <2>3, AddPerpLpSharesHandled
  <2>4. ASSUME NEW u \in Users, NEW shares \in LpSizes, RemovePerpLpShares(u, shares)
        PROVE  IInv'
    BY <2>4, RemovePerpLpSharesHandled
  <2>5. ASSUME NEW u \in Users, SettleLp(u)
        PROVE  IInv'
    BY <2>5, SettleLpHandled
  <2>6. ASSUME NEW expo_diff \in ExpoDiffs, UpdatePerLpBase(expo_diff)
        PROVE  IInv'
    BY <2>6, UpdatePerLpBaseHandled
  <2>7. ASSUME UpdateFundingRate
        PROVE  IInv'
    BY <2>7, UpdateFundingRateHandled
  <2>8. ASSUME NEW u \in Users, SettleFundingPayment(u)
        PROVE  IInv'
    BY <2>8, SettleFundingPaymentHandled
  <2>9. ASSUME UpdateAmms
        PROVE  IInv'
    BY <2>9, UpdateAmmsHandled
  <2>10. ASSUME NEW peg \in Pegs, RepegAmmCurve(peg)
         PROVE  IInv'
    BY <2>10, RepegAmmCurveHandled
  <2>11. ASSUME NEW k \in scenario.sqrt_ks, UpdateK(k)
         PROVE  IInv'
    BY <2>11, UpdateKHandled
  <2>12. ASSUME NEW scale \in ConcentrationScales, UpdateConcentrationCoef(scale)
         PROVE  IInv'
    BY <2>12, UpdateConcentrationCoefHandled
  <2>13. ASSUME NEW base \in scenario.sqrt_ks, NEW k \in scenario.sqrt_ks, MoveAmmPrice(base, k)
         PROVE  IInv'
    BY <2>13, MoveAmmPriceHandled
  <2>14. ASSUME NEW peg \in Pegs, NEW k \in scenario.sqrt_ks, RecenterPerpMarketAmm(peg, k)
         PROVE  IInv'
    BY <2>14, RecenterPerpMarketAmmHandled
  <2>15. ASSUME UpdateAmmSummaryStats
         PROVE  IInv'
    BY <2>15, UpdateAmmSummaryStatsHandled
  <2>16. ASSUME NEW u \in Users, SettlePnl(u)
         PROVE  IInv'
    BY <2>16, SettlePnlHandled
  <2>17. ASSUME NEW amount \in FeePoolDeposits, DepositIntoPerpMarketFeePool(amount)
         PROVE  IInv'
    BY <2>17, DepositHandled
  <2>18. ASSUME NEW delay \in ExpiryDelays, UpdatePerpMarketExpiry(now + delay)
         PROVE  IInv'
    BY <2>18, UpdatePerpMarketExpiryHandled
  <2>19. ASSUME NEW price \in scenario.oracle_prices, SettleExpiredMarket(price)
         PROVE  IInv'
    BY <2>19, SettleExpiredMarketHandled
  <2>20. ASSUME NEW u \in Users, SettleExpiredPosition(u)
         PROVE  IInv'
    BY <2>20, SettleExpiredPositionHandled
  <2>21. ASSUME SettleExpiredMarketPoolsToRevenuePool
         PROVE  IInv'
    BY <2>21, PoolsToRevenuePoolHandled
  <2>22. ASSUME NEW quote \in Quotes, OracleMoves(quote)
         PROVE  IInv'
    BY <2>22, OracleMovesHandled
  <2>23. ASSUME InsurancePeriodPasses
         PROVE  IInv'
    BY <2>23, InsurancePeriodPassesHandled
  <2>24. ASSUME Tick
         PROVE  IInv'
    BY <2>24, TickHandled
  <2>25. ASSUME UNCHANGED vars
         PROVE  IInv'
    BY <2>25, StutteringKeeps
  <2> QED
    BY <2>1, <2>2, <2>3, <2>4, <2>5, <2>6, <2>7, <2>8, <2>9, <2>10, <2>11, <2>12, <2>13, <2>14, <2>15,
       <2>16, <2>17, <2>18, <2>19, <2>20, <2>21, <2>22, <2>23, <2>24, <2>25 DEF Next
<1> QED
  BY <1>1, <1>2, PTL DEF Spec

(* In every reachable state positions are multiples of the order step with *)
(* less than a step carried as remainder, shares and pools are not negative*)
(* and the count of holders never wraps (state/user.rs PerpPosition,       *)
(* state/perp_market.rs).                                                  *)
THEOREM TypeCorrect == Spec => []TypeOK
<1>1. IInv => TypeOK
  <2> SUFFICES ASSUME IInv
               PROVE  TypeOK
    OBVIOUS
  <2>1. /\ Ledger /\ Pools /\ Environment /\ Sound(s0)
    BY DEF IInv, Ledger
  <2>2. Market(market) /\ (\A u \in Users : Position(positions[u])) /\ TotalsMatch(market, positions)
    BY <2>1, SoundNow
  <2>3. market.status \in Statuses
    BY <2>2 DEF Market, Typed
  <2>4. ASSUME NEW u \in Users
        PROVE  /\ positions[u].lp_shares \in Nat
               /\ is_multiple_of_step_size(positions[u].base_asset_amount, order_step_size)
               /\ Abs(positions[u].remainder_base_asset_amount) < order_step_size
    <3> DEFINE p == positions[u]
    <3>1. Position(p)
      BY <2>2
    <3> HIDE DEF p
    <3>2. p.lp_shares \in Nat /\ p.base_asset_amount \in Int /\ p.remainder_base_asset_amount \in Int
          /\ order_step_size \in Nat
      BY <3>1, PositionNumbers, StepPositive
    <3>3. is_multiple_of_step_size(p.base_asset_amount, order_step_size)
      BY <3>1, <3>2, MultipleMeans DEF Position
    <3>4. Abs(p.remainder_base_asset_amount) < order_step_size
      BY <3>1, <3>2 DEF Position, Abs
    <3> QED
      BY <3>2, <3>3, <3>4 DEF p
  <2>5. market.number_of_users_with_base \in Nat
    <3> DEFINE t == TotalOf(Holders(positions))
    <3>1. t \in Nat
      <4>1. Holders(positions) \in [Users -> Nat]
        BY <2>2, PositionTotals
      <4>2. IsFiniteSet(Users)
        BY EnvironmentAssumption DEF EnvironmentAssumption
      <4> QED
        BY <4>1, <4>2, TotalOfNaturals
    <3>2. market.number_of_users_with_base >= t
      BY <2>2 DEF TotalsMatch
    <3>3. market.number_of_users_with_base \in Int
      BY <2>2 DEF Market, Typed, IntegerFields, LedgerFields
    <3> HIDE DEF t
    <3> QED
      BY <3>1, <3>2, <3>3
  <2>6. /\ now \in 0 .. scenario.max_time /\ transactions \in 0 .. scenario.max_transactions
        /\ market.pnl_pool \in Nat /\ revenue_pool \in Nat
    BY <2>1 DEF Environment, Pools
  <2> QED
    BY <2>3, <2>4, <2>5, <2>6 DEF TypeOK, Statuses
<1> QED
  BY <1>1, InductiveInvariant, PTL

(* The totals that a market keeps of its positions add up, whatever mix of *)
(* fills, flips, LP settlements, mints, burns, fees, funding payments, pnl *)
(* settlements and expiries led there (controller/position.rs              *)
(* update_position_and_market and the update_quote_ functions).            *)
THEOREM PositionTotalsAlwaysMatch == Spec => []PositionTotalsMatch
<1>1. IInv => PositionTotalsMatch
  <2> SUFFICES ASSUME IInv
               PROVE  PositionTotalsMatch
    OBVIOUS
  <2>1. TotalsMatch(market, positions)
    BY SoundNow DEF IInv, Ledger
  <2> QED
    BY <2>1 DEF TotalsMatch, PositionTotalsMatch, Bases, QuotesOf, Entries, BreakEvens, Shares
<1> QED
  BY <1>1, InductiveInvariant, PTL

(* A position owes each rate that was added while it was held, and owes it *)
(* once, whichever handler adds rates or settles funding                   *)
(* (controller/funding.rs settle_funding_payment, update_funding_rate).    *)
THEOREM FundingAlwaysOwedOnce == Spec => []FundingOwedOnce
<1>1. IInv => FundingOwedOnce
  BY DEF IInv, Ledger
<1> QED
  BY <1>1, InductiveInvariant, PTL

(* Tokens only move between users and the fee, pnl and revenue pools, but  *)
(* for what admins add to the fee pool (controller/amm.rs                  *)
(* update_pool_balances, controller/pnl.rs, controller/repeg.rs).          *)
THEOREM TokensAlwaysConserved == Spec => []TokensConserved
<1>1. IInv => TokensConserved
  BY DEF IInv, Pools
<1> QED
  BY <1>1, InductiveInvariant, PTL

(* What the users hold is what the AMM and the LPs hold against them: the  *)
(* check of validate_perp_market on the net base never fails, in a market  *)
(* that is open, settled or delisted (validation/perp_market.rs).          *)
THEOREM NetBaseAlwaysMatches == Spec => []NetBaseMatches(market)
<1>1. IInv => NetBaseMatches(market)
  <2> SUFFICES ASSUME IInv
               PROVE  NetBaseMatches(market)
    OBVIOUS
  <2>1. Market(market) /\ NetBase(market) = 0
    BY MarketNow DEF Ledger
  <2>2. /\ market.base_asset_amount_long \in Int /\ market.base_asset_amount_short \in Int
        /\ market.base_asset_amount_with_amm \in Int
        /\ market.base_asset_amount_with_unsettled_lp \in Int
    BY <2>1 DEF Market, Typed, IntegerFields, LedgerFields, OtherFields
  <2> QED
    BY <2>1, <2>2 DEF NetBase, NetBaseMatches
<1> QED
  BY <1>1, InductiveInvariant, PTL

(* The open interest of each side stays a number of whole steps, though LP *)
(* settlements, burns and expiries leave positions with parts of a step,   *)
(* and what a market gave to the revenue pool or drew from it in a period  *)
(* stays within the limit: two checks of validate_perp_market that never   *)
(* fail, in a market that is open, settled or delisted                     *)
(* (validation/perp_market.rs, controller/amm.rs                           *)
(* calculate_revenue_pool_transfer).                                       *)
THEOREM SidesWholeAndWithdrawLimited ==
  Spec => [](/\ is_multiple_of_step_size(market.base_asset_amount_long, order_step_size)
             /\ is_multiple_of_step_size(market.base_asset_amount_short, order_step_size)
             /\ Abs(market.revenue_withdraw_since_last_settle) <= max_revenue_withdraw_per_period)
<1> DEFINE Limited ==
             /\ is_multiple_of_step_size(market.base_asset_amount_long, order_step_size)
             /\ is_multiple_of_step_size(market.base_asset_amount_short, order_step_size)
             /\ Abs(market.revenue_withdraw_since_last_settle) <= max_revenue_withdraw_per_period
<1>1. IInv => Limited
  <2> SUFFICES ASSUME IInv
               PROVE  Limited
    OBVIOUS
  <2>1. Market(market)
    BY MarketNow DEF Ledger
  <2>2. market.base_asset_amount_long \in Int /\ market.base_asset_amount_short \in Int
    BY <2>1, TotalNumbers
  <2> QED
    BY <2>1, <2>2, MultipleMeans DEF Market
<1> QED
  BY <1>1, InductiveInvariant, PTL

LEMMA HoldersCounted ==
  ASSUME IInv, market.number_of_users_with_base = 0, NEW u \in Users
  PROVE  NoBase(positions[u])
<1> DEFINE h == Holders(positions)
           t == TotalOf(h)
<1>1. TotalsMatch(market, positions) /\ (\A v \in Users : Position(positions[v]))
  BY SoundNow DEF IInv, Ledger
<1>2. h \in [Users -> Nat] /\ IsFiniteSet(Users)
  BY <1>1, PositionTotals, EnvironmentAssumption DEF EnvironmentAssumption
<1>3. h[u] = HoldsBase(positions[u])
  BY DEF Holders
<1>4. 0 >= t
  BY <1>1 DEF TotalsMatch
<1> HIDE DEF h
<1>5. t \in Nat /\ h[u] <= t /\ h[u] \in Nat
  BY <1>2, TotalOfNaturals
<1> HIDE DEF t
<1>6. h[u] = 0
  BY <1>4, <1>5
<1> QED
  BY <1>3, <1>6 DEF HoldsBase

(* The pools of a settled market are only swept into the revenue pool once *)
(* no user holds base any more, not even a remainder: the count that the   *)
(* handler reads never misses a holder (controller/position.rs,            *)
(* instructions/admin.rs                                                   *)
(* handle_settle_expired_market_pools_to_revenue_pool).                    *)
THEOREM SweptOnlyWhenClosed ==
  Spec => [][SettleExpiredMarketPoolsToRevenuePool => \A u \in Users : NoBase(positions[u])]_vars
<1>1. ASSUME IInv, SettleExpiredMarketPoolsToRevenuePool
      PROVE  \A u \in Users : NoBase(positions[u])
  <2>1. market.number_of_users_with_base = 0
    BY <1>1 DEF SettleExpiredMarketPoolsToRevenuePool, PoolsToRevenuePoolValid
  <2> QED
    BY <1>1, <2>1, HoldersCounted
<1>2. IInv /\ [Next]_vars
        => [SettleExpiredMarketPoolsToRevenuePool => \A u \in Users : NoBase(positions[u])]_vars
  BY <1>1
<1> QED
  BY <1>2, InductiveInvariant, PTL DEF Spec
===============================================================================
