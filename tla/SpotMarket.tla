------------------------------ MODULE SpotMarket ------------------------------
(***************************************************************************)
(* One spot market of the exchange: users deposit, borrow, repay and       *)
(* transfer tokens; perp pnl and liquidations move balances between        *)
(* holders; keepers accrue interest, settle revenue to the insurance fund  *)
(* and resolve bankruptcies.  Each action is one instruction, that is one  *)
(* atomic transaction: an instruction whose checks fail changes nothing,   *)
(* so its checks are the action's guards.                                  *)
(*                                                                         *)
(* What an account owns in other markets is left out, and with it margin:  *)
(* the model lets every user borrow, be liquidated or be bankrupt, which   *)
(* only adds behaviours.                                                   *)
(***************************************************************************)
EXTENDS SpotWithdraw, Helpers

CONSTANTS
  Amounts,                \* the token amounts instructions are called with
  WithdrawFee,            \* charge_withdraw_fee, in tokens
  LiquidationFee,         \* the insurance fee of a spot liquidation, in tokens
  InitialInsurance,       \* tokens in the insurance fund vault at first
  revenue_settle_period,
  APR_PRECISION,          \* periods a year * precision / MAX_APR: the cap on revenue per settlement
  Statuses,               \* the MarketStatus values an admin may set
  MaxTime,                \* bound on the clock
  MaxTransactions         \* bound on the transactions of a behaviour

ASSUME MarketAssumption ==
  /\ Amounts \subseteq Nat \ {0}
  /\ WithdrawFee \in Nat
  /\ LiquidationFee \in Nat
  /\ InitialInsurance \in Nat
  /\ revenue_settle_period \in Nat \ {0}
  /\ APR_PRECISION \in Nat \ {0}
  /\ Statuses \subseteq {"Active", "ReduceOnly", "Settlement"}
  /\ MaxTime \in Nat
  /\ MaxTransactions \in Nat

VARIABLES
  mk,                      \* the market and everybody's balance in it
  vault,                   \* spot_market_vault.amount
  insurance_vault,         \* insurance_fund_vault.amount
  now,                     \* Clock::unix_timestamp
  last_revenue_settle_ts,
  status,                  \* spot_market.status
  roundings,               \* history: tokens by which conversions may have favoured a holder
  transactions             \* history: transactions so far

vars == <<mk, vault, insurance_vault, now, last_revenue_settle_ts, status, roundings, transactions>>

(* What a unit of balance is worth, in whole tokens.                       *)
UnitTokens(m, type) == CeilDiv(CumulativeInterest(m, type), TokenPrecision)

(* The tokens by which an update may favour the holder: a debt that is     *)
(* reduced but not closed goes down by one unit more than what was paid, a *)
(* deposit that is reduced but not closed by the whole units that make up  *)
(* what was taken, and a debt too small to be one unit is not recorded.    *)
Rounds(m, h, token_amount, direction) ==
  LET type == m.balance_type[h]
      taken == IF type = "Borrow" THEN token_amount
               ELSE SaturatingSub(token_amount, TokensOf(m, h))
  IN  IF direction # type /\ TokensOf(m, h) > token_amount THEN UnitTokens(m, type)
      ELSE IF direction = "Borrow" /\ taken > 0 /\ get_spot_balance(taken, m, "Borrow", TRUE) = 0
        THEN UnitTokens(m, "Borrow")
      ELSE 0

(* The tokens by which interest, accrued now, favours depositors: what     *)
(* they may claim beyond what borrowers owe more.                          *)
InterestRounds ==
  Larger(0, DepositorsClaim(update_spot_market_cumulative_interest(mk, now)) - DepositorsClaim(mk))

(* Every action but the clock's is a transaction.                          *)
CountTransaction ==
  /\ transactions < MaxTransactions
  /\ transactions' = transactions + 1

Init ==
  /\ mk = EmptyMarket
  /\ vault = 0
  /\ insurance_vault = InitialInsurance
  /\ now = 0
  /\ last_revenue_settle_ts = 0
  /\ status = "Active"
  /\ roundings = 0
  /\ transactions = 0

Tick ==
  /\ now < MaxTime
  /\ now' = now + 1
  /\ UNCHANGED <<mk, vault, insurance_vault, last_revenue_settle_ts, status, roundings, transactions>>

(***************************************************************************)
(* Users: instructions/user.rs.                                            *)
(***************************************************************************)

(* A position whose tokens round to nothing must be empty.                 *)
IsValidPosition(m, u) == TokensOf(m, u) = 0 => m.scaled_balance[u] = 0

(* Mutant: the reduce-only cap applies to the tokens received but not to   *)
(* the balance that is credited.                                           *)
DepositCappedLate(u, amount, reduce_only) ==
  LET m == update_spot_market_cumulative_interest(mk, now)
      capped == (status = "ReduceOnly" \/ reduce_only) /\ m.balance_type[u] = "Borrow"
      after == update_spot_balances(m, u, amount, "Deposit", FALSE)
  IN  /\ CountTransaction
      /\ CanUpdate(m, u, amount, "Deposit", FALSE)
      /\ mk' = after
      /\ vault' = vault + IF capped THEN Smaller(TokensOf(m, u), amount) ELSE amount
      /\ UNCHANGED <<insurance_vault, now, last_revenue_settle_ts, status, roundings>>

(* handle_deposit.                                                         *)
Deposit(u, amount, reduce_only) ==
  LET m == update_spot_market_cumulative_interest(mk, now)
      capped == (status = "ReduceOnly" \/ reduce_only) /\ m.balance_type[u] = "Borrow"
      tokens == IF capped THEN Smaller(TokensOf(m, u), amount) ELSE amount
      after == update_spot_balances(m, u, tokens, "Deposit", FALSE)
  IN  /\ CountTransaction
      /\ CanUpdate(m, u, tokens, "Deposit", FALSE)
      /\ IsValidPosition(after, u)
      /\ after.balance_type[u] = "Deposit" /\ after.scaled_balance[u] > 0 => status = "Active"
      /\ validate_max_token_deposits(after)
      /\ mk' = after
      /\ vault' = vault + tokens
      /\ roundings' = roundings + InterestRounds + Rounds(m, u, tokens, "Deposit")
      /\ UNCHANGED <<insurance_vault, now, last_revenue_settle_ts, status>>

(* update_spot_balances_and_cumulative_deposits_with_limits.               *)
CanWithdraw(m, u, tokens, is_net_depositor) ==
  LET after == update_spot_balances(m, u, tokens, "Borrow", TRUE)
  IN  /\ CanUpdate(m, u, tokens, "Borrow", TRUE)
      /\ BacksWithdrawals(after)
      /\ check_withdraw_limits(after, u, tokens, is_net_depositor)

(* charge_withdraw_fee: the fee goes from the user to the revenue pool.    *)
CanChargeFee(m, u, fee) ==
  /\ CanUpdate(m, RevenuePool, fee, "Deposit", FALSE)
  /\ CanUpdate(update_spot_balances(m, RevenuePool, fee, "Deposit", FALSE),
               u, fee, "Borrow", FALSE)

charge_withdraw_fee(m, u, fee) ==
  update_spot_balances(update_spot_balances(m, RevenuePool, fee, "Deposit", FALSE),
                       u, fee, "Borrow", FALSE)

(* handle_withdraw.  A reduce-only withdrawal takes no more than the user  *)
(* has deposited; a heavy withdrawer pays a fee out of the amount.         *)
Withdraw(u, amount, reduce_only, pays_fee, is_net_depositor) ==
  LET m == update_spot_market_cumulative_interest(mk, now)
      is_reduce_only == reduce_only \/ status = "ReduceOnly"
      asked == IF is_reduce_only THEN Smaller(amount, TokensOf(m, u)) ELSE amount
      fee == IF pays_fee THEN WithdrawFee ELSE 0
      charged == IF pays_fee THEN charge_withdraw_fee(m, u, fee) ELSE m
      tokens == asked - fee
      after == update_spot_balances(charged, u, tokens, "Borrow", TRUE)
  IN  /\ CountTransaction
      /\ is_reduce_only => m.balance_type[u] = "Deposit"
      /\ pays_fee => CanChargeFee(m, u, fee)
      /\ tokens >= 0
      /\ CanWithdraw(charged, u, tokens, is_net_depositor)
      /\ tokens <= vault
      /\ mk' = after
      /\ vault' = vault - tokens
      /\ validate_spot_market_vault_amount(mk', vault')
      /\ UNCHANGED <<insurance_vault, now, last_revenue_settle_ts, status, roundings>>

(* handle_transfer_deposit.                                                *)
TransferDeposit(from, to, amount, is_net_depositor) ==
  LET m == update_spot_market_cumulative_interest(mk, now)
      taken == update_spot_balances(m, from, amount, "Borrow", TRUE)
      after == update_spot_balances(taken, to, amount, "Deposit", FALSE)
  IN  /\ CountTransaction
      /\ from # to
      /\ CanWithdraw(m, from, amount, is_net_depositor)
      /\ CanUpdate(taken, to, amount, "Deposit", FALSE)
      /\ IsValidPosition(after, to)
      /\ validate_spot_market_vault_amount(after, vault)
      /\ mk' = after
      /\ UNCHANGED <<vault, insurance_vault, now, last_revenue_settle_ts, status, roundings>>

(* handle_deposit_into_spot_market_revenue_pool: without accruing interest.*)
DepositIntoRevenuePool(amount) ==
  LET after == update_spot_balances(mk, RevenuePool, amount, "Deposit", FALSE)
  IN  /\ CountTransaction
      /\ status # "Settlement"
      /\ CanUpdate(mk, RevenuePool, amount, "Deposit", FALSE)
      /\ validate_max_token_deposits(after)
      /\ mk' = after
      /\ vault' = vault + amount
      /\ validate_spot_market_vault_amount(mk', vault')
      /\ UNCHANGED <<insurance_vault, now, last_revenue_settle_ts, status, roundings>>

(* add_spot_position: a closed position's slot is taken for another market *)
(* and given back to this one as an empty deposit.                         *)
ReuseSpotPosition(u) ==
  /\ CountTransaction
  /\ mk.scaled_balance[u] = 0
  /\ mk.balance_type[u] = "Borrow"
  /\ mk' = [mk EXCEPT !.balance_type[u] = "Deposit"]
  /\ UNCHANGED <<vault, insurance_vault, now, last_revenue_settle_ts, status, roundings>>

(***************************************************************************)
(* Moves between holders: perp pnl and spot liquidations.                  *)
(***************************************************************************)

(* update_pnl_pool_and_user_balance: `direction' is what happens to the    *)
(* pool: Borrow pays the user a profit the pool can cover, Deposit         *)
(* collects a loss, which the user may have to borrow.                     *)
SettlePnl(u, pool, amount, direction) ==
  LET m == update_spot_market_cumulative_interest(mk, now)
      paid == update_spot_balances(m, pool, amount, direction, FALSE)
  IN  /\ CountTransaction
      /\ direction = "Borrow" => amount <= TokensOf(m, pool)
      /\ CanTransfer(m, pool, u, amount, direction)
      /\ mk' = transfer_spot_balances(m, pool, u, amount, direction)
      /\ roundings' = roundings + InterestRounds + Rounds(m, pool, amount, direction)
                                 + Rounds(paid, u, amount, Opposite(direction))
      /\ UNCHANGED <<vault, insurance_vault, now, last_revenue_settle_ts, status>>

(* liquidate_spot in the market of the liability: the liquidator takes     *)
(* over the debt, and a part of it goes to the revenue pool.               *)
LiquidateLiability(u, liquidator, amount) ==
  LET m == update_spot_market_cumulative_interest(mk, now)
      fee == Smaller(LiquidationFee, amount)
      repaid == update_spot_balances(m, u, amount - fee, "Deposit", FALSE)
      charged == update_spot_balances(repaid, RevenuePool, fee, "Deposit", FALSE)
      after == update_spot_balances(charged, liquidator, amount, "Borrow", FALSE)
  IN  /\ CountTransaction
      /\ u # liquidator
      /\ m.balance_type[u] = "Borrow"
      /\ amount <= TokensOf(m, u)
      /\ CanUpdate(m, u, amount - fee, "Deposit", FALSE)
      /\ CanUpdate(repaid, RevenuePool, fee, "Deposit", FALSE)
      /\ CanUpdate(charged, liquidator, amount, "Borrow", FALSE)
      /\ mk' = after
      /\ roundings' = roundings + InterestRounds + Rounds(m, u, amount - fee, "Deposit")
                                 + Rounds(repaid, RevenuePool, fee, "Deposit")
                                 + Rounds(charged, liquidator, amount, "Borrow")
      /\ UNCHANGED <<vault, insurance_vault, now, last_revenue_settle_ts, status>>

(* liquidate_spot in the market of the asset the liquidator receives.      *)
LiquidateAsset(u, liquidator, amount) ==
  LET m == update_spot_market_cumulative_interest(mk, now)
      given == update_spot_balances(m, liquidator, amount, "Deposit", FALSE)
      after == update_spot_balances(given, u, amount, "Borrow", FALSE)
  IN  /\ CountTransaction
      /\ u # liquidator
      /\ m.balance_type[u] = "Deposit"
      /\ amount <= TokensOf(m, u)
      /\ CanUpdate(m, liquidator, amount, "Deposit", FALSE)
      /\ CanUpdate(given, u, amount, "Borrow", FALSE)
      /\ mk' = after
      /\ roundings' = roundings + InterestRounds + Rounds(m, liquidator, amount, "Deposit")
                                 + Rounds(given, u, amount, "Borrow")
      /\ UNCHANGED <<vault, insurance_vault, now, last_revenue_settle_ts, status>>

(***************************************************************************)
(* Keepers: instructions/keeper.rs, controller/insurance.rs.               *)
(***************************************************************************)

(* handle_update_spot_market_cumulative_interest.                          *)
UpdateCumulativeInterest(funding_paused) ==
  LET after == IF funding_paused THEN update_spot_market_twap_stats(mk, now)
                                 ELSE update_spot_market_cumulative_interest(mk, now)
  IN  /\ CountTransaction
      /\ validate_spot_market_vault_amount(after, vault)
      /\ mk' = after
      /\ UNCHANGED <<vault, insurance_vault, now, last_revenue_settle_ts, status, roundings>>

RevenueIsDue == on_the_hour_update(now, last_revenue_settle_ts, revenue_settle_period) = 0

(* settle_revenue_to_insurance_fund: the tokens that leave the revenue     *)
(* pool of market m, whose interest is up to date.  `has_stakers' stands   *)
(* for insurance_fund.user_shares > 0.                                     *)
RevenueToSettle(m, has_stakers) ==
  LET available ==
        IF DepositorsClaim(m) < RevenueTokens(m)
          THEN Larger(DepositorsClaim(m), 0) \div 2
          ELSE RevenueTokens(m)
  IN  IF has_stakers
        THEN Smaller(available \div 10, insurance_vault \div APR_PRECISION)
        ELSE available

CanSettleRevenue(m, has_stakers) ==
  /\ validate_spot_market_vault_amount(m, vault)
  /\ CanUpdate(m, RevenuePool, RevenueToSettle(m, has_stakers), "Borrow", FALSE)
  /\ RevenueToSettle(m, has_stakers) <= vault

settle_revenue(m, has_stakers) ==
  update_spot_balances(m, RevenuePool, RevenueToSettle(m, has_stakers), "Borrow", FALSE)

(* handle_settle_revenue_to_insurance_fund.                                *)
SettleRevenueToInsuranceFund(has_stakers) ==
  LET m == update_spot_market_cumulative_interest(mk, now)
      settled == RevenueToSettle(m, has_stakers)
  IN  /\ CountTransaction
      /\ RevenueIsDue
      /\ CanSettleRevenue(m, has_stakers)
      /\ settled # 0
      /\ mk' = settle_revenue(m, has_stakers)
      /\ vault' = vault - settled
      /\ insurance_vault' = insurance_vault + settled
      /\ validate_spot_market_vault_amount(mk', vault')
      /\ last_revenue_settle_ts' = now
      /\ UNCHANGED <<now, status, roundings>>

(* How much of the deposit index pays for a loss: rounded up, and nothing  *)
(* when there is nobody to pay.                                            *)
DepositInterestDelta(m, loss) ==
  IF DepositTokens(m) = 0 THEN 0
  ELSE CeilDiv(m.cumulative_deposit_interest * loss, DepositTokens(m))

(* Mutant: the insurance fund keeps half of what it has.                   *)
HalfInsurancePayment(borrow, insurance) == Smaller(borrow, insurance \div 2)

(* The insurance fund pays down to its last token.                         *)
InsurancePayment(borrow, insurance) == Smaller(borrow, SaturatingSub(insurance, 1))

(* handle_resolve_spot_bankruptcy: revenue is settled first when it is     *)
(* due; then the insurance fund pays down to its last token, the rest of   *)
(* the debt is taken from all depositors, and the debt is closed.          *)
ResolveSpotBankruptcy(u, has_stakers) ==
  LET accrued == update_spot_market_cumulative_interest(mk, now)
      settled == IF RevenueIsDue THEN RevenueToSettle(accrued, has_stakers) ELSE 0
      m == IF RevenueIsDue THEN settle_revenue(accrued, has_stakers) ELSE mk
      borrow == TokensOf(m, u)
      insurance == insurance_vault + settled
      if_payment == InsurancePayment(borrow, insurance)
      delta == DepositInterestDelta(m, borrow - if_payment)
      closed == update_spot_balances(m, u, borrow, "Deposit", FALSE)
  IN  /\ CountTransaction
      /\ m.balance_type[u] = "Borrow"
      /\ m.scaled_balance[u] > 0
      /\ RevenueIsDue => CanSettleRevenue(accrued, has_stakers)
      /\ validate_spot_market_vault_amount(m, vault - settled)
      /\ CanUpdate(m, u, borrow, "Deposit", FALSE)
      /\ delta <= m.cumulative_deposit_interest
      /\ mk' = [closed EXCEPT !.cumulative_deposit_interest = @ - delta]
      /\ vault' = (vault - settled) + if_payment
      /\ insurance_vault' = insurance - if_payment
      /\ if_payment > 0 => insurance > 0
      /\ validate_spot_market_vault_amount(mk', vault')
      /\ last_revenue_settle_ts' = IF RevenueIsDue THEN now ELSE last_revenue_settle_ts
      /\ UNCHANGED <<now, status, roundings>>

(* handle_update_spot_market_status.                                       *)
UpdateStatus(new_status) ==
  /\ CountTransaction
  /\ status' = new_status
  /\ UNCHANGED <<mk, vault, insurance_vault, now, last_revenue_settle_ts, roundings>>

Next ==
  \/ Tick
  \/ \E u \in Users, amount \in Amounts, reduce_only \in BOOLEAN :
       Deposit(u, amount, reduce_only)
  \/ \E u \in Users, amount \in Amounts, reduce_only, pays_fee, net \in BOOLEAN :
       Withdraw(u, amount, reduce_only, pays_fee, net)
  \/ \E from, to \in Users, amount \in Amounts, net \in BOOLEAN :
       TransferDeposit(from, to, amount, net)
  \/ \E amount \in Amounts : DepositIntoRevenuePool(amount)
  \/ \E u \in Users : ReuseSpotPosition(u)
  \/ \E u \in Users, pool \in Pools \ {RevenuePool}, amount \in Amounts,
        direction \in SpotBalanceType : SettlePnl(u, pool, amount, direction)
  \/ \E u, liquidator \in Users, amount \in Amounts : LiquidateLiability(u, liquidator, amount)
  \/ \E u, liquidator \in Users, amount \in Amounts : LiquidateAsset(u, liquidator, amount)
  \/ \E funding_paused \in BOOLEAN : UpdateCumulativeInterest(funding_paused)
  \/ \E has_stakers \in BOOLEAN : SettleRevenueToInsuranceFund(has_stakers)
  \/ \E u \in Users, has_stakers \in BOOLEAN : ResolveSpotBankruptcy(u, has_stakers)
  \/ \E new_status \in Statuses : UpdateStatus(new_status)

Spec == Init /\ [][Next]_vars

(***************************************************************************)
(* Properties.                                                             *)
(***************************************************************************)

(* Every variable keeps its type: in particular no balance, total or vault *)
(* ever becomes negative.                                                  *)
TypeOK ==
  /\ mk \in Markets
  /\ vault \in Nat
  /\ insurance_vault \in Nat
  /\ now \in Nat
  /\ last_revenue_settle_ts \in Nat
  /\ status \in {"Active", "ReduceOnly", "Settlement"}
  /\ roundings \in Nat
  /\ transactions \in Nat

(* update_spot_balances keeps the market's two totals together equal to    *)
(* the balances of all holders, through interest, fees, liquidations and   *)
(* bankruptcies.                                                           *)
LedgerConserved == mk.deposit_balance + mk.borrow_balance = SumOfBalances(mk)

(* deposit_balance is never below what the holders of deposits own, so     *)
(* that decrease_spot_balance cannot fail for a depositor who closes its   *)
(* position, whatever the others did before.                               *)
DepositsCovered == SumOfType(mk, "Deposit") <= mk.deposit_balance

(* The vault holds what depositors may claim, up to the worth of one unit  *)
(* of balance for each conversion that was rounded in a holder's favour    *)
(* and what the rounding of interest gave them: nothing else, such as a    *)
(* capped amount or an unpaid loss, comes between the two                  *)
(* (validate_spot_market_vault_amount, which not every instruction calls). *)
VaultCoversClaims == vault + roundings >= DepositorsClaim(mk)

(* Interest moves value from borrowers to lenders and to the revenue pool  *)
(* and creates none: if it were accrued now in a market whose deposits     *)
(* cover its borrows, what depositors may claim from the vault would grow  *)
(* by no more than the two tokens that rounding can make, as long as the   *)
(* highest rate has earned no more than half since the last accrual        *)
(* (calculate_accumulated_interest: lenders earn the borrow rate times the *)
(* utilization, which is rounded and taken of rounded token amounts).      *)
InterestIsPaidByBorrowers ==
  BacksWithdrawals(mk) /\ 2 * max_borrow_rate * (now - mk.last_interest_ts) <= RatePeriod
    => DepositorsClaim(update_spot_market_cumulative_interest(mk, now))
         <= DepositorsClaim(mk) + 2

(* A debt is closed, and of what could pay for it the insurance fund has   *)
(* no more than its last token.                                            *)
InsuranceIsUsedUp ==
  /\ insurance_vault' <= 1
  /\ \E u \in Users : mk.scaled_balance[u] > 0 /\ mk'.scaled_balance[u] = 0

(* Depositors lose value only when a bankruptcy is resolved, and only      *)
(* after the insurance fund has paid down to its last token.               *)
InsurancePaysFirst ==
  [][mk'.cumulative_deposit_interest < mk.cumulative_deposit_interest
       => InsuranceIsUsedUp]_vars

(* Interest is not lost to rounding, neither the borrowers' nor the        *)
(* lenders', however often the market is updated: the interest clock moves *)
(* only when both indices grow (update_spot_market_cumulative_interest),   *)
(* unless the loss of a bankruptcy is taken out of the deposit index in    *)
(* the same step.                                                          *)
InterestIsNotSkipped ==
  [][mk'.last_interest_ts # mk.last_interest_ts
       => /\ mk'.cumulative_borrow_interest > mk.cumulative_borrow_interest
          /\ \/ mk'.cumulative_deposit_interest > mk.cumulative_deposit_interest
             \/ InsuranceIsUsedUp]_vars

(* Nothing that happens within one second moves the averages the withdraw  *)
(* limits are computed from: a deposit does not raise the limit for the    *)
(* withdrawal that follows it.                                             *)
LimitsNeedTime ==
  [][mk.last_twap_ts = now
       => /\ mk'.deposit_token_twap = mk.deposit_token_twap
          /\ mk'.borrow_token_twap = mk.borrow_token_twap
          /\ mk'.utilization_twap = mk.utilization_twap]_vars
===============================================================================
