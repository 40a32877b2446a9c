----------------------------- MODULE SpotWithdraw -----------------------------
(***************************************************************************)
(* The guards around tokens that leave a spot market: the daily withdraw   *)
(* limits and the check of the vault against what depositors may claim     *)
(* (math/spot_withdraw.rs).                                                *)
(***************************************************************************)
EXTENDS SpotLedger

CONSTANTS
  withdraw_guard_threshold,  \* no limit applies below this many tokens
  max_token_deposits         \* 0: no cap

ASSUME GuardAssumption ==
  /\ withdraw_guard_threshold \in Nat
  /\ max_token_deposits \in Nat

calculate_min_deposit_token_amount(deposit_token_twap) ==
  deposit_token_twap
  - Larger(deposit_token_twap \div 4, Smaller(withdraw_guard_threshold, deposit_token_twap))

calculate_max_borrow_token_amount(mk) ==
  LET lesser == Smaller(DepositTokens(mk), mk.deposit_token_twap)
  IN  Larger(withdraw_guard_threshold,
             Smaller(Larger(lesser \div 6, mk.borrow_token_twap + lesser \div 10),
                     lesser - lesser \div 5))

MaxWithdrawUtilization(mk) ==
  Larger(optimal_utilization,
         mk.utilization_twap
         + SaturatingSub(SPOT_UTILIZATION_PRECISION, mk.utilization_twap) \div 2)

(* The least deposits and the most borrows that keep the utilization.      *)
calculate_token_utilization_limits(mk) ==
  [ min_deposit |->
      Smaller((BorrowTokens(mk) * SPOT_UTILIZATION_PRECISION) \div MaxWithdrawUtilization(mk),
              SaturatingSub(DepositTokens(mk), withdraw_guard_threshold)),
    max_borrow |->
      Larger((MaxWithdrawUtilization(mk) * DepositTokens(mk)) \div SPOT_UTILIZATION_PRECISION,
             withdraw_guard_threshold) ]

(* A small depositor may take out its principal whatever the limits say.   *)
(* `is_net_depositor' stands for the part of the test that reads what the  *)
(* user has put in and taken out over all markets.                         *)
check_user_exception_to_withdraw_limits(mk, u, withdrawn, is_net_depositor) ==
  /\ is_net_depositor
  /\ mk.balance_type[u] = "Deposit"
  /\ TokensOf(mk, u) + withdrawn < withdraw_guard_threshold \div 10

(* mk is the market after the withdrawal.                                  *)
check_withdraw_limits(mk, u, withdrawn, is_net_depositor) ==
  LET limits == calculate_token_utilization_limits(mk)
      min_deposit == Larger(calculate_min_deposit_token_amount(mk.deposit_token_twap),
                            limits.min_deposit)
      max_borrow == Smaller(calculate_max_borrow_token_amount(mk), limits.max_borrow)
  IN  \/ /\ DepositTokens(mk) >= min_deposit
         /\ mk.balance_type[u] = "Borrow" => BorrowTokens(mk) <= max_borrow
      \/ check_user_exception_to_withdraw_limits(mk, u, withdrawn, is_net_depositor)

DepositorsClaim(mk) == DepositTokens(mk) - BorrowTokens(mk)

RevenueTokens(mk) == get_token_amount(mk.scaled_balance[RevenuePool], mk, "Deposit")

validate_spot_balances(mk) == RevenueTokens(mk) <= DepositTokens(mk)

validate_spot_market_vault_amount(mk, vault_amount) ==
  /\ validate_spot_balances(mk)
  /\ vault_amount >= DepositorsClaim(mk)

validate_max_token_deposits(mk) ==
  max_token_deposits = 0 \/ DepositTokens(mk) <= max_token_deposits
===============================================================================
