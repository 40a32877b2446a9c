------------------------------ MODULE SpotLedger ------------------------------
(***************************************************************************)
(* The book-keeping of one spot market: scaled balances, cumulative        *)
(* interest and the conversions between scaled balances and tokens         *)
(* (math/spot_balance.rs, controller/spot_balance.rs, math/stats.rs).      *)
(*                                                                         *)
(* A spot market is a value, the record `mk', and every operation here is  *)
(* a function from such records to such records.  The market's record and  *)
(* the balances of everybody who holds one (users and pools) are kept      *)
(* together, because update_spot_balances changes both:                    *)
(*                                                                         *)
(*   scaled_balance[h], balance_type[h]   what holder h owns or owes       *)
(*   deposit_balance, borrow_balance      the market's own totals          *)
(*   cumulative_deposit_interest, cumulative_borrow_interest               *)
(*   deposit_token_twap, borrow_token_twap, utilization_twap               *)
(*   last_interest_ts, last_twap_ts                                        *)
(*                                                                         *)
(* Checked arithmetic that fails aborts the whole transaction.  The only   *)
(* such failures that matter here are subtractions below zero and the pool *)
(* that may not turn into a borrower; they are the Can... operators, which *)
(* every action that calls the operation has among its guards.             *)
(***************************************************************************)
EXTENDS Integers, Sums

CONSTANTS
  Users,                       \* user accounts holding a position in the market
  Pools,                       \* PoolBalances: revenue pool, pnl pool, fee pools
  RevenuePool,                 \* the member of Pools that is spot_market.revenue_pool
  TokenPrecision,              \* 10^(19 - decimals): what a token amount is scaled by
  InterestPrecision,           \* SPOT_CUMULATIVE_INTEREST_PRECISION: an interest index of 1.0
  SPOT_UTILIZATION_PRECISION,  \* a utilization of 100%
  RatePeriod,                  \* ONE_YEAR * SPOT_RATE_PRECISION
  optimal_utilization,
  optimal_borrow_rate,
  max_borrow_rate,
  TwapWindow,                  \* SPOT_MARKET_TOKEN_TWAP_WINDOW
  IF_FACTOR_PRECISION,
  total_factor                 \* insurance_fund.total_factor

Holders == Users \cup Pools

ASSUME HoldersAssumption ==
  /\ IsFiniteSet(Users)
  /\ IsFiniteSet(Pools)
  /\ Users \cap Pools = {}
  /\ RevenuePool \in Pools

ASSUME PrecisionAssumption ==
  /\ TokenPrecision \in Nat \ {0}
  /\ InterestPrecision \in Nat \ {0}
  /\ SPOT_UTILIZATION_PRECISION \in Nat \ {0}
  /\ RatePeriod \in Nat \ {0}
  /\ IF_FACTOR_PRECISION \in Nat \ {0}
  /\ TwapWindow \in Nat \ {0}

ASSUME RateAssumption ==
  /\ optimal_utilization \in 1 .. SPOT_UTILIZATION_PRECISION - 1
  /\ optimal_borrow_rate \in Nat
  /\ max_borrow_rate \in Nat
  /\ optimal_borrow_rate <= max_borrow_rate
  /\ total_factor \in 0 .. IF_FACTOR_PRECISION

Larger(a, b) == IF a >= b THEN a ELSE b
Smaller(a, b) == IF a <= b THEN a ELSE b
SaturatingSub(a, b) == IF a >= b THEN a - b ELSE 0
CeilDiv(a, b) == IF a % b = 0 THEN a \div b ELSE a \div b + 1

SpotBalanceType == {"Deposit", "Borrow"}

Markets ==
  [ scaled_balance : [Holders -> Nat],
    balance_type : [Holders -> SpotBalanceType],
    deposit_balance : Nat,
    borrow_balance : Nat,
    cumulative_deposit_interest : Nat,
    cumulative_borrow_interest : Nat,
    deposit_token_twap : Nat,
    borrow_token_twap : Nat,
    utilization_twap : Nat,
    last_interest_ts : Nat,
    last_twap_ts : Nat ]

(***************************************************************************)
(* math/spot_balance.rs: tokens from scaled balances and back.             *)
(***************************************************************************)

CumulativeInterest(mk, type) ==
  IF type = "Deposit" THEN mk.cumulative_deposit_interest
                      ELSE mk.cumulative_borrow_interest

(* Rounds down, or to the next unit above whenever asked to round up: also *)
(* when the division was exact, but never away from zero.                  *)
get_spot_balance(token_amount, mk, type, round_up) ==
  LET balance == (token_amount * TokenPrecision) \div CumulativeInterest(mk, type)
  IN  IF round_up /\ balance # 0 THEN balance + 1 ELSE balance

get_token_amount(balance, mk, type) ==
  IF type = "Deposit"
    THEN (balance * mk.cumulative_deposit_interest) \div TokenPrecision
    ELSE CeilDiv(balance * mk.cumulative_borrow_interest, TokenPrecision)

TokensOf(mk, h) == get_token_amount(mk.scaled_balance[h], mk, mk.balance_type[h])
DepositTokens(mk) == get_token_amount(mk.deposit_balance, mk, "Deposit")
BorrowTokens(mk) == get_token_amount(mk.borrow_balance, mk, "Borrow")

calculate_utilization(deposit_tokens, borrow_tokens) ==
  IF deposit_tokens # 0
    THEN (borrow_tokens * SPOT_UTILIZATION_PRECISION) \div deposit_tokens
    ELSE IF borrow_tokens = 0 THEN 0 ELSE SPOT_UTILIZATION_PRECISION

Utilization(mk) == calculate_utilization(DepositTokens(mk), BorrowTokens(mk))

BorrowRate(utilization) ==
  IF utilization > optimal_utilization
    THEN optimal_borrow_rate
         + ((utilization - optimal_utilization)
            * (((max_borrow_rate - optimal_borrow_rate) * SPOT_UTILIZATION_PRECISION)
               \div (SPOT_UTILIZATION_PRECISION - optimal_utilization)))
           \div SPOT_UTILIZATION_PRECISION
    ELSE (utilization
          * ((optimal_borrow_rate * SPOT_UTILIZATION_PRECISION) \div optimal_utilization))
         \div SPOT_UTILIZATION_PRECISION

(* Mutant: lenders earn the full borrow rate, on idle deposits too.        *)
accumulated_interest_on_idle_deposits(mk, now) ==
  LET rate == BorrowRate(Utilization(mk)) * (now - mk.last_interest_ts)
  IN  IF Utilization(mk) = 0
        THEN [borrow |-> 0, deposit |-> 0]
        ELSE [ borrow |-> (mk.cumulative_borrow_interest * rate) \div RatePeriod + 1,
               deposit |-> (mk.cumulative_deposit_interest * rate) \div RatePeriod ]

(* The interest earned by each index since last_interest_ts.               *)
calculate_accumulated_interest(mk, now) ==
  LET utilization == Utilization(mk)
      modified_borrow_rate == BorrowRate(utilization) * (now - mk.last_interest_ts)
      modified_deposit_rate ==
        (modified_borrow_rate * utilization) \div SPOT_UTILIZATION_PRECISION
  IN  IF utilization = 0
        THEN [borrow |-> 0, deposit |-> 0]
        ELSE [ borrow |-> (mk.cumulative_borrow_interest * modified_borrow_rate)
                            \div RatePeriod + 1,
               deposit |-> (mk.cumulative_deposit_interest * modified_deposit_rate)
                            \div RatePeriod ]

(***************************************************************************)
(* controller/spot_balance.rs: update_spot_balances.                       *)
(***************************************************************************)

(* How an update of `token_amount' in `direction' changes holder h: the    *)
(* scaled units it takes out of the balance h has, the scaled units it     *)
(* adds in the new direction, and whether h changes sides.                 *)
BalanceChange(mk, h, token_amount, direction, is_leaving_drift) ==
  LET type == mk.balance_type[h]
      current == TokensOf(mk, h)
      remaining == SaturatingSub(token_amount, current)
  IN  IF direction = type
        THEN [ removed |-> 0,
               added |-> get_spot_balance(token_amount, mk, direction, type = "Borrow"),
               flips |-> FALSE ]
        ELSE [ removed |->
                 IF current = 0 THEN 0
                 ELSE IF current > token_amount
                   THEN get_spot_balance(token_amount, mk, type,
                                         is_leaving_drift \/ type = "Borrow")
                   ELSE mk.scaled_balance[h],
               added |->
                 IF remaining > 0
                   THEN get_spot_balance(remaining, mk, direction, direction = "Borrow")
                   ELSE 0,
               flips |-> remaining > 0 ]

Total(mk, type) == IF type = "Deposit" THEN mk.deposit_balance ELSE mk.borrow_balance

(* The update does not abort: the conversions it makes divide by an index  *)
(* that is not zero, neither the holder's balance nor the market's total   *)
(* goes below zero, and a pool does not become a borrower.                 *)
CanUpdate(mk, h, token_amount, direction, is_leaving_drift) ==
  LET type == mk.balance_type[h]
      change == BalanceChange(mk, h, token_amount, direction, is_leaving_drift)
  IN  /\ \/ CumulativeInterest(mk, direction) > 0
         \/ direction # type /\ token_amount <= TokensOf(mk, h)
      /\ \/ CumulativeInterest(mk, type) > 0
         \/ direction # type /\ token_amount >= TokensOf(mk, h)
      /\ change.removed <= mk.scaled_balance[h]
      /\ change.removed <= Total(mk, type)
      /\ change.flips => h \notin Pools

(* Mutant: a holder who changes sides keeps what the market had recorded.  *)
update_without_decrease(mk, h, token_amount, direction, is_leaving_drift) ==
  LET change == BalanceChange(mk, h, token_amount, direction, is_leaving_drift)
      type == mk.balance_type[h]
      Moved(t) == (IF t = direction THEN change.added ELSE 0)
                  - (IF t = type /\ ~change.flips THEN change.removed ELSE 0)
  IN  [mk EXCEPT
        !.scaled_balance[h] = (@ - change.removed) + change.added,
        !.balance_type[h] = IF change.flips THEN direction ELSE @,
        !.deposit_balance = @ + Moved("Deposit"),
        !.borrow_balance = @ + Moved("Borrow")]

(* Mutant: what a borrower deposits beyond its debt goes to the borrows.   *)
update_of_old_total(mk, h, token_amount, direction, is_leaving_drift) ==
  LET change == BalanceChange(mk, h, token_amount, direction, is_leaving_drift)
      type == mk.balance_type[h]
      target == IF type = "Borrow" THEN type ELSE direction
      Moved(t) == (IF t = target THEN change.added ELSE 0)
                  - (IF t = type THEN change.removed ELSE 0)
  IN  [mk EXCEPT
        !.scaled_balance[h] = (@ - change.removed) + change.added,
        !.balance_type[h] = IF change.flips THEN direction ELSE @,
        !.deposit_balance = @ + Moved("Deposit"),
        !.borrow_balance = @ + Moved("Borrow")]

update_spot_balances(mk, h, token_amount, direction, is_leaving_drift) ==
  LET change == BalanceChange(mk, h, token_amount, direction, is_leaving_drift)
      type == mk.balance_type[h]
      Moved(t) == (IF t = direction THEN change.added ELSE 0)
                  - (IF t = type THEN change.removed ELSE 0)
  IN  [mk EXCEPT
        !.scaled_balance[h] = (@ - change.removed) + change.added,
        !.balance_type[h] = IF change.flips THEN direction ELSE @,
        !.deposit_balance = @ + Moved("Deposit"),
        !.borrow_balance = @ + Moved("Borrow")]

(* The check at the end of update_spot_balances for tokens that leave.     *)
BacksWithdrawals(mk) == DepositTokens(mk) >= BorrowTokens(mk)

Opposite(type) == IF type = "Deposit" THEN "Borrow" ELSE "Deposit"

(* transfer_spot_balances: tokens go from one holder to the other; the     *)
(* direction is what happens to `from' (Deposit for a negative amount).    *)
CanTransfer(mk, from, to, tokens, direction) ==
  /\ mk.balance_type[from] = "Deposit" => mk.deposit_balance >= mk.scaled_balance[from]
  /\ CanUpdate(mk, from, tokens, direction, FALSE)
  /\ CanUpdate(update_spot_balances(mk, from, tokens, direction, FALSE),
               to, tokens, Opposite(direction), FALSE)

transfer_spot_balances(mk, from, to, tokens, direction) ==
  update_spot_balances(update_spot_balances(mk, from, tokens, direction, FALSE),
                       to, tokens, Opposite(direction), FALSE)

(***************************************************************************)
(* Interest accrual and the moving averages the withdraw guard reads.      *)
(***************************************************************************)

(* Mutant: the average is biased below zero.                               *)
weighted_average_below_zero(data1, data2, weight1, weight2) ==
  LET bias == IF weight2 <= 1 \/ data2 * weight2 = data1 * weight1 THEN 0
              ELSE IF data2 * weight2 < data1 * weight1 THEN -1 ELSE 1
  IN  IF weight1 = 0 THEN data2
      ELSE IF weight2 = 0 THEN data1
      ELSE (data1 * weight1 + data2 * weight2) \div (weight1 + weight2) + bias

(* math/stats.rs; every argument is non-negative here.                     *)
calculate_weighted_average(data1, data2, weight1, weight2) ==
  LET bias == IF weight2 <= 1 \/ data2 * weight2 = data1 * weight1 THEN 0
              ELSE IF data2 * weight2 < data1 * weight1 THEN -1 ELSE 1
      twap == (data1 * weight1 + data2 * weight2) \div (weight1 + weight2)
  IN  IF weight1 = 0 THEN data2
      ELSE IF weight2 = 0 THEN data1
      ELSE IF twap = 0 /\ bias < 0 THEN 0 ELSE twap + bias

(* Mutant: an update within the same second counts as a second.            *)
twap_stats_without_time(mk, now) ==
  LET since_last == Larger(1, now - mk.last_twap_ts)
      from_start == Larger(1, TwapWindow - since_last)
      Average(new, old) == calculate_weighted_average(new, old, since_last, from_start)
  IN  [mk EXCEPT
        !.deposit_token_twap = Average(DepositTokens(mk), @),
        !.borrow_token_twap = Average(BorrowTokens(mk), @),
        !.utilization_twap = Average(Utilization(mk), @),
        !.last_twap_ts = now]

(* The oracle averages the code updates here are left to the oracle part.  *)
update_spot_market_twap_stats(mk, now) ==
  LET since_last == now - mk.last_twap_ts
      from_start == Larger(1, TwapWindow - since_last)
      Average(new, old) == calculate_weighted_average(new, old, since_last, from_start)
  IN  [mk EXCEPT
        !.deposit_token_twap = Average(DepositTokens(mk), @),
        !.borrow_token_twap = Average(BorrowTokens(mk), @),
        !.utilization_twap = Average(Utilization(mk), @),
        !.last_twap_ts = now]

(* The part of the deposit interest that goes to the revenue pool.         *)
InterestForStakers(interest) == (interest.deposit * total_factor) \div IF_FACTOR_PRECISION

(* Mutant: interest accrues as soon as borrowers owe more, although what   *)
(* lenders earn still rounds to zero.                                      *)
accrues_for_borrowers_alone(mk, now) == calculate_accumulated_interest(mk, now).borrow > 1

(* Interest accrues only when each side's share of it is at least one.     *)
AccruesInterest(mk, now) ==
  LET interest == calculate_accumulated_interest(mk, now)
  IN  /\ interest.deposit > 0
      /\ interest.borrow > 1
      /\ interest.deposit > InterestForStakers(interest)

(* Both indices grow, and the stakers' part of the interest becomes a      *)
(* deposit of the revenue pool.                                            *)
AccrueInterest(mk, now) ==
  LET interest == calculate_accumulated_interest(mk, now)
      stakers == InterestForStakers(interest)
      grown == [mk EXCEPT
                 !.cumulative_deposit_interest = @ + (interest.deposit - stakers),
                 !.cumulative_borrow_interest = @ + interest.borrow,
                 !.last_interest_ts = now]
      \* get_interest_token_amount
      revenue == (mk.deposit_balance * stakers) \div TokenPrecision
  IN  update_spot_balances(grown, RevenuePool, revenue, "Deposit", FALSE)

update_spot_market_cumulative_interest(mk, now) ==
  update_spot_market_twap_stats(
    IF AccruesInterest(mk, now) THEN AccrueInterest(mk, now) ELSE mk, now)

(***************************************************************************)
(* A market nobody has used yet.                                           *)
(***************************************************************************)
EmptyMarket ==
  [ scaled_balance |-> [h \in Holders |-> 0],
    balance_type |-> [h \in Holders |-> "Deposit"],
    deposit_balance |-> 0,
    borrow_balance |-> 0,
    cumulative_deposit_interest |-> InterestPrecision,
    cumulative_borrow_interest |-> InterestPrecision,
    deposit_token_twap |-> 0,
    borrow_token_twap |-> 0,
    utilization_twap |-> 0,
    last_interest_ts |-> 0,
    last_twap_ts |-> 0 ]

(***************************************************************************)
(* What the balances of the holders add up to.                             *)
(***************************************************************************)
BalancesOfType(mk, type) ==
  [h \in Holders |-> IF mk.balance_type[h] = type THEN mk.scaled_balance[h] ELSE 0]

SumOfBalances(mk) == SumOf(mk.scaled_balance)
SumOfType(mk, type) == SumOf(BalancesOfType(mk, type))
===============================================================================
