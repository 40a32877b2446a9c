----------------------------- MODULE InsuranceFund -----------------------------
(***************************************************************************)
(* The insurance fund of one spot market: stakers own shares of a vault    *)
(* that receives revenue and pays losses (controller/insurance.rs,         *)
(* instructions/if_staker.rs, math/insurance.rs).                          *)
(*                                                                         *)
(* Shares that have become worth too little are rebased: the fund divides  *)
(* all shares by a power of ten and notes it in shares_base; a stake       *)
(* follows when its owner next uses it.  A staker who leaves requests it   *)
(* first, waits for the unstaking period, and is paid at the lower of the  *)
(* prices at the request and at the removal.                               *)
(*                                                                         *)
(* Each action is one instruction.  What the spot market may refuse        *)
(* (paused operations, its vault check, its utilization) is left out: a    *)
(* refused instruction changes nothing.                                    *)
(***************************************************************************)
EXTENDS Helpers, Sums

CONSTANTS
  Stakers,
  Amounts,                 \* tokens staked or asked for
  Losses,                  \* tokens a bankruptcy or a perp deficit asks for
  Revenues,                \* tokens the revenue pool has for the fund
  Transfers,               \* protocol shares given to a staker
  unstaking_period,
  total_factor,
  user_factor,
  EPOCH_DURATION,
  max_transfer_per_epoch,
  MaxTime,                 \* bound on the clock
  MaxTransactions          \* bound on the transactions of a behaviour

ASSUME FundAssumption ==
  /\ IsFiniteSet(Stakers)
  /\ Amounts \subseteq Nat \ {0}
  /\ Losses \subseteq Nat \ {0}
  /\ Revenues \subseteq Nat
  /\ Transfers \subseteq Nat
  /\ unstaking_period \in Nat
  /\ total_factor \in Nat \ {0}
  /\ user_factor \in 0 .. total_factor
  /\ EPOCH_DURATION \in Nat \ {0}
  /\ max_transfer_per_epoch \in Nat
  /\ MaxTime \in Nat
  /\ MaxTransactions \in Nat

VARIABLES
  vault,           \* insurance_fund_vault.amount
  fund,            \* spot_market.insurance_fund
  stakes,          \* the InsuranceFundStake of every staker
  config,          \* ProtocolIfSharesTransferConfig
  now,
  transferred,     \* history: protocol shares transferred in each epoch
  transactions     \* history: transactions so far

vars == <<vault, fund, stakes, config, now, transferred, transactions>>

NewStake ==
  [ if_shares |-> 0, if_base |-> 0, last_withdraw_request_shares |-> 0,
    last_withdraw_request_value |-> 0, last_withdraw_request_ts |-> 0 ]

(* The epoch that ends at the first multiple of EPOCH_DURATION from time.  *)
Epoch(time) == IF time = 0 THEN 0 ELSE (time - 1) \div EPOCH_DURATION

Init ==
  /\ vault = 0
  /\ fund = [total_shares |-> 0, user_shares |-> 0, shares_base |-> 0]
  /\ stakes = [s \in Stakers |-> NewStake]
  /\ config = [current_epoch_transfer |-> 0, next_epoch_ts |-> EPOCH_DURATION]
  /\ now = 0
  /\ transferred = [e \in 0 .. Epoch(MaxTime) |-> 0]
  /\ transactions = 0

(***************************************************************************)
(* math/insurance.rs                                                       *)
(***************************************************************************)

CanConvert(total_shares, vault_amount) == vault_amount = 0 => total_shares = 0

vault_amount_to_if_shares(amount, total_shares, vault_amount) ==
  IF vault_amount > 0 THEN get_proportion_u128(amount, total_shares, vault_amount)
                      ELSE amount

if_shares_to_vault_amount(n_shares, total_shares, vault_amount) ==
  IF total_shares > 0 THEN get_proportion_u128(vault_amount, n_shares, total_shares)
                      ELSE 0

RebaseExpo(total_shares, vault_amount) ==
  log10_iter((total_shares \div 10) \div vault_amount)

(* What a request that has become worth more than its value gives back     *)
(* when it ends: f and v are the fund and the vault at that time.          *)
calculate_if_shares_lost(stake, f, v) ==
  LET n_shares == stake.last_withdraw_request_shares
      value == stake.last_withdraw_request_value
  IN  IF if_shares_to_vault_amount(n_shares, f.total_shares, v) > value
        THEN n_shares - vault_amount_to_if_shares(value, f.total_shares - n_shares, v - value)
        ELSE 0

(***************************************************************************)
(* Rebases.                                                                *)
(***************************************************************************)

apply_rebase_to_insurance_fund(f, v) ==
  LET expo == IF v # 0 /\ v < f.total_shares THEN RebaseExpo(f.total_shares, v) ELSE 0
      total == f.total_shares \div Pow10[expo]
  IN  [ total_shares |-> IF v # 0 /\ total = 0 THEN v ELSE total,
        user_shares |-> f.user_shares \div Pow10[expo],
        shares_base |-> f.shares_base + expo ]

(* Mutant: shares are rounded up.                                          *)
rebase_rounding_up(stake, f) ==
  LET divisor == Pow10[f.shares_base - stake.if_base]
  IN  [stake EXCEPT
        !.if_shares = (@ + divisor - 1) \div divisor,
        !.last_withdraw_request_shares = @ \div divisor,
        !.if_base = f.shares_base]

apply_rebase_to_insurance_fund_stake(stake, f) ==
  LET divisor == Pow10[f.shares_base - stake.if_base]
  IN  [stake EXCEPT
        !.if_shares = @ \div divisor,
        !.last_withdraw_request_shares = @ \div divisor,
        !.if_base = f.shares_base]

(***************************************************************************)
(* Revenue and losses.                                                     *)
(***************************************************************************)

(* The protocol's part of the revenue becomes shares; the rest raises the  *)
(* price of all shares.                                                    *)
ProtocolShares(f, v, revenue) ==
  IF total_factor > user_factor
    THEN vault_amount_to_if_shares((revenue * (total_factor - user_factor)) \div total_factor,
                                   f.total_shares, v)
    ELSE 0

CanSettle(f, v, revenue) ==
  revenue > 0 /\ total_factor > user_factor => CanConvert(f.total_shares, v)

settle_revenue(f, v, revenue) ==
  [f EXCEPT !.total_shares = @ + ProtocolShares(f, v, revenue)]

CountTransaction ==
  /\ transactions < MaxTransactions
  /\ transactions' = transactions + 1

Tick ==
  /\ now < MaxTime
  /\ now' = now + 1
  /\ UNCHANGED <<vault, fund, stakes, config, transferred, transactions>>

(* handle_settle_revenue_to_insurance_fund.                                *)
SettleRevenue(revenue) ==
  /\ CountTransaction
  /\ revenue # 0
  /\ CanSettle(fund, vault, revenue)
  /\ fund' = settle_revenue(fund, vault, revenue)
  /\ vault' = vault + revenue
  /\ UNCHANGED <<stakes, config, now, transferred>>

AllButOne(v) == IF v >= 1 THEN v - 1 ELSE 0

(* Mutant: a loss is paid in full.                                         *)
PaymentInFull(loss, v) == loss

(* Mutant: a loss may take the whole vault.                                *)
PaymentOfAll(loss, v) == IF loss <= v THEN loss ELSE v

(* The fund pays down to its last token.                                   *)
Payment(loss, v) == IF loss <= AllButOne(v) THEN loss ELSE AllButOne(v)

(* The two bankruptcies and the perp pnl deficit: revenue is settled first *)
(* when it is due (revenue = 0 when it is not), then the fund pays.        *)
PayLoss(loss, revenue) ==
  LET v == vault + revenue
  IN  /\ CountTransaction
      /\ CanSettle(fund, vault, revenue)
      /\ fund' = settle_revenue(fund, vault, revenue)
      /\ vault' = v - Payment(loss, v)
      /\ UNCHANGED <<stakes, config, now, transferred>>

(***************************************************************************)
(* Stakers.                                                                *)
(***************************************************************************)

(* The fund and the stake of s after the rebase that starts every          *)
(* operation, for fund f and vault amount v.                               *)
RebasedFund(f, v) == apply_rebase_to_insurance_fund(f, v)
RebasedStake(s, f, v) == apply_rebase_to_insurance_fund_stake(stakes[s], RebasedFund(f, v))

(* What the handlers' controller functions do to the fund and the stake.   *)
add_insurance_fund_stake(s, amount, f0, v) ==
  LET f == RebasedFund(f0, v)
      stake == RebasedStake(s, f0, v)
      n_shares == vault_amount_to_if_shares(amount, f.total_shares, v)
  IN  /\ CanConvert(f0.total_shares, v)
      /\ fund' = [f EXCEPT !.total_shares = @ + n_shares, !.user_shares = @ + n_shares]
      /\ stakes' = [stakes EXCEPT ![s] = [stake EXCEPT !.if_shares = @ + n_shares]]

(* The shares are counted at the old base and rebased with the stake.      *)
request_remove_insurance_fund_stake(s, n_shares) ==
  LET f == RebasedFund(fund, vault)
      asked == [stakes[s] EXCEPT !.last_withdraw_request_shares = n_shares]
      stake == apply_rebase_to_insurance_fund_stake(asked, f)
      worth == if_shares_to_vault_amount(stake.last_withdraw_request_shares, f.total_shares, vault)
      value == IF worth <= AllButOne(vault) THEN worth ELSE AllButOne(vault)
  IN  /\ stake.last_withdraw_request_shares <= stake.if_shares
      /\ fund' = f
      /\ stakes' = [stakes EXCEPT ![s] = [stake EXCEPT !.last_withdraw_request_value = value,
                                                       !.last_withdraw_request_ts = now]]

RequestDone(stake) ==
  [stake EXCEPT !.last_withdraw_request_shares = 0,
                !.last_withdraw_request_value = 0,
                !.last_withdraw_request_ts = now]

(* Mutant: a cancelled request keeps all its shares.                       *)
cancel_keeping_shares(s) ==
  LET stake == RebasedStake(s, fund, vault)
  IN  /\ stake.last_withdraw_request_shares # 0
      /\ fund' = RebasedFund(fund, vault)
      /\ stakes' = [stakes EXCEPT ![s] = RequestDone(stake)]

cancel_request_remove_insurance_fund_stake(s) ==
  LET f == RebasedFund(fund, vault)
      stake == RebasedStake(s, fund, vault)
      lost == calculate_if_shares_lost(stake, f, vault)
  IN  /\ stake.last_withdraw_request_shares \in 1 .. f.total_shares
      /\ lost \in 0 .. stake.if_shares
      /\ lost <= f.user_shares
      /\ fund' = [f EXCEPT !.total_shares = @ - lost, !.user_shares = @ - lost]
      /\ stakes' = [stakes EXCEPT ![s] = RequestDone([stake EXCEPT !.if_shares = @ - lost])]

(* What a removal pays: the shares' value, at most the value requested.    *)
WithdrawAmount(stake, f) ==
  LET amount == if_shares_to_vault_amount(stake.last_withdraw_request_shares, f.total_shares, vault)
  IN  IF amount <= stake.last_withdraw_request_value
        THEN amount ELSE stake.last_withdraw_request_value

remove_insurance_fund_stake(s) ==
  LET f == RebasedFund(fund, vault)
      stake == RebasedStake(s, fund, vault)
      n_shares == stake.last_withdraw_request_shares
  IN  /\ now - stakes[s].last_withdraw_request_ts >= unstaking_period
      /\ n_shares > 0
      /\ stake.if_shares >= n_shares
      /\ n_shares <= f.user_shares
      /\ n_shares <= f.total_shares
      /\ calculate_if_shares_lost(stake, f, vault) >= 0
      /\ fund' = [f EXCEPT !.total_shares = @ - n_shares, !.user_shares = @ - n_shares]
      /\ stakes' = [stakes EXCEPT ![s] = RequestDone([stake EXCEPT !.if_shares = @ - n_shares])]
      /\ vault' = vault - WithdrawAmount(stake, f)

(* Mutant: the vault is not reloaded after revenue was settled.            *)
AddStakeAtOldPrice(s, amount, revenue) ==
  /\ CountTransaction
  /\ stakes[s].last_withdraw_request_shares = 0
  /\ stakes[s].last_withdraw_request_value = 0
  /\ CanSettle(fund, vault, revenue)
  /\ add_insurance_fund_stake(s, amount, settle_revenue(fund, vault, revenue), vault)
  /\ vault' = vault + revenue + amount
  /\ UNCHANGED <<config, now, transferred>>

(* handle_add_insurance_fund_stake: revenue is settled first if it is due. *)
AddStake(s, amount, revenue) ==
  /\ CountTransaction
  /\ stakes[s].last_withdraw_request_shares = 0
  /\ stakes[s].last_withdraw_request_value = 0
  /\ CanSettle(fund, vault, revenue)
  /\ add_insurance_fund_stake(s, amount, settle_revenue(fund, vault, revenue), vault + revenue)
  /\ vault' = vault + revenue + amount
  /\ UNCHANGED <<config, now, transferred>>

(* handle_request_remove_insurance_fund_stake.                             *)
RequestRemoveStake(s, amount) ==
  LET n_shares == vault_amount_to_if_shares(amount, fund.total_shares, vault)
  IN  /\ CountTransaction
      /\ stakes[s].last_withdraw_request_shares = 0
      /\ CanConvert(fund.total_shares, vault)
      /\ stakes[s].if_base = fund.shares_base
      /\ n_shares \in 1 .. stakes[s].if_shares
      /\ request_remove_insurance_fund_stake(s, n_shares)
      /\ UNCHANGED <<vault, config, now, transferred>>

(* handle_cancel_request_remove_insurance_fund_stake.                      *)
CancelRequest(s) ==
  /\ CountTransaction
  /\ stakes[s].last_withdraw_request_shares # 0
  /\ cancel_request_remove_insurance_fund_stake(s)
  /\ UNCHANGED <<vault, config, now, transferred>>

(* handle_remove_insurance_fund_stake.                                     *)
RemoveStake(s) ==
  /\ CountTransaction
  /\ remove_insurance_fund_stake(s)
  /\ vault' > 0
  /\ UNCHANGED <<config, now, transferred>>

(***************************************************************************)
(* The protocol's own shares.                                              *)
(***************************************************************************)

(* Mutant: the epoch moves on by one, however late it is.                  *)
update_epoch_by_one(c) ==
  IF now > c.next_epoch_ts
    THEN [current_epoch_transfer |-> 0, next_epoch_ts |-> c.next_epoch_ts + EPOCH_DURATION]
    ELSE c

update_epoch(c) ==
  IF now > c.next_epoch_ts
    THEN [ current_epoch_transfer |-> 0,
           next_epoch_ts |-> c.next_epoch_ts
             + EPOCH_DURATION * ((now - c.next_epoch_ts) \div EPOCH_DURATION + 1) ]
    ELSE c

validate_transfer(c, shares) == shares < max_transfer_per_epoch - c.current_epoch_transfer

(* The target's stake is not rebased: it must already have the fund's base. *)
transfer_protocol_insurance_fund_stake(s, shares) ==
  LET f == RebasedFund(fund, vault)
  IN  /\ stakes[s].if_base = f.shares_base
      /\ f.total_shares >= f.user_shares
      /\ f.total_shares - f.user_shares >= shares
      /\ fund' = [f EXCEPT !.user_shares = @ + shares]
      /\ stakes' = [stakes EXCEPT ![s].if_shares = @ + shares]

(* handle_transfer_protocol_if_shares.                                     *)
TransferProtocolShares(s, shares) ==
  LET c == update_epoch(config)
  IN  /\ CountTransaction
      /\ validate_transfer(c, shares)
      /\ config' = [c EXCEPT !.current_epoch_transfer = @ + shares]
      /\ transfer_protocol_insurance_fund_stake(s, shares)
      /\ transferred' = [transferred EXCEPT ![Epoch(now)] = @ + shares]
      /\ UNCHANGED <<vault, now>>

Next ==
  \/ Tick
  \/ \E revenue \in Revenues : SettleRevenue(revenue)
  \/ \E loss \in Losses, revenue \in Revenues : PayLoss(loss, revenue)
  \/ \E s \in Stakers, amount \in Amounts, revenue \in Revenues : AddStake(s, amount, revenue)
  \/ \E s \in Stakers, amount \in Amounts : RequestRemoveStake(s, amount)
  \/ \E s \in Stakers : CancelRequest(s)
  \/ \E s \in Stakers : RemoveStake(s)
  \/ \E s \in Stakers, shares \in Transfers : TransferProtocolShares(s, shares)

Spec == Init /\ [][Next]_vars

(***************************************************************************)
(* Properties.                                                             *)
(***************************************************************************)

(* The amounts are u64 and u128: no instruction takes more tokens from the *)
(* vault, or more shares from the fund or a stake, than there are.         *)
TypeOK ==
  /\ vault \in Nat
  /\ fund \in [total_shares : Nat, user_shares : Nat, shares_base : Nat]
  /\ stakes \in [Stakers -> [ if_shares : Nat, if_base : Nat,
                              last_withdraw_request_shares : Nat,
                              last_withdraw_request_value : Nat,
                              last_withdraw_request_ts : Nat ]]
  /\ config \in [current_epoch_transfer : Nat, next_epoch_ts : Nat]
  /\ now \in Nat
  /\ transferred \in [0 .. Epoch(MaxTime) -> Nat]
  /\ transactions \in Nat

(* The shares of a stake at the fund's base, and what they are worth.      *)
SharesOf(s) == stakes[s].if_shares \div Pow10[fund.shares_base - stakes[s].if_base]
ValueOf(s) == if_shares_to_vault_amount(SharesOf(s), fund.total_shares, vault)

(* The stakes never own more shares than the fund has recorded for users,  *)
(* nor users more than there are, however many rebases each stake has      *)
(* missed: safe_sub of user_shares and total_shares cannot fail.  Nor does *)
(* a request ever escrow more shares than its stake has, although rebases  *)
(* and losses come between the request and its removal                     *)
(* (controller/insurance.rs apply_rebase_to_insurance_fund_stake).         *)
SharesAddUp ==
  /\ \A s \in Stakers : stakes[s].last_withdraw_request_shares <= stakes[s].if_shares
  /\ SumOf([s \in Stakers |-> SharesOf(s)]) <= fund.user_shares
  /\ fund.user_shares <= fund.total_shares

(* As long as there are shares the vault is not empty, so that they can be *)
(* priced (vault_amount_to_if_shares "assumes total_if_shares == 0"        *)
(* otherwise).                                                             *)
SharesAreBacked == fund.total_shares > 0 => vault > 0

(* What the shares of s would be worth after the payment of a loss alone.  *)
ValueLess(s, paid) ==
  if_shares_to_vault_amount(SharesOf(s), fund.total_shares,
                            IF paid <= vault THEN vault - paid ELSE 0)

(* Only a loss takes value away from a staker who does nothing: no other   *)
(* staker's instruction, rebase or revenue does, up to a token of          *)
(* rounding.  And a loss takes no more than the stake's part of the        *)
(* payment, whatever revenue is settled with it (controller/insurance.rs   *)
(* attempt_settle_revenue_to_insurance_fund before the fund pays).         *)
NobodyIsDiluted ==
  [][\A s \in Stakers :
       stakes'[s] = stakes[s]
       => \/ ValueOf(s)' >= ValueOf(s) - 1
          \/ \E loss \in Losses, revenue \in Revenues :
               /\ PayLoss(loss, revenue)
               /\ ValueOf(s)' >= ValueLess(s, Payment(loss, vault + revenue))]_vars

(* While a request waits its shares earn nothing: when it is cancelled     *)
(* what is left of them is worth no more than the request was              *)
(* (calculate_if_shares_lost), whatever came in meanwhile and however      *)
(* often the fund was rebased.                                             *)
EscrowDoesNotEarn ==
  [][\A s \in Stakers :
       LET divisor == Pow10[fund'.shares_base - stakes[s].if_base]
           n_shares == stakes[s].last_withdraw_request_shares \div divisor
           others == stakes[s].if_shares \div divisor - n_shares
       IN  /\ n_shares > 0
           /\ stakes'[s].last_withdraw_request_shares = 0
           /\ vault' = vault
           => if_shares_to_vault_amount(stakes'[s].if_shares - others,
                                        fund'.total_shares, vault)
                <= stakes[s].last_withdraw_request_value]_vars

(* The protocol gives away fewer shares than the cap in every epoch,       *)
(* whenever and however often transfers are made.                          *)
EpochCapHolds ==
  \A e \in DOMAIN transferred : transferred[e] > 0 => transferred[e] < max_transfer_per_epoch
================================================================================
