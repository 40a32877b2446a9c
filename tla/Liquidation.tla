----------------------------- MODULE Liquidation -----------------------------
(***************************************************************************)
(* Users whose margin falls short, and what the others may do about it:    *)
(* take over parts of their positions and borrows for a fee, at the pace   *)
(* that the program allows, and pay what is left of a bankrupt user's      *)
(* losses (controller/liquidation.rs, controller/insurance.rs,             *)
(* controller/pnl.rs, instructions/keeper.rs, instructions/user.rs).       *)
(*                                                                         *)
(* One perp market, the quote and one other spot market.  Any user may     *)
(* liquidate any other, also while it is itself short of margin.  An       *)
(* action is one instruction.  Interest is SpotMarket's and trading is     *)
(* PerpMarket's; prices move as they like.                                 *)
(***************************************************************************)
EXTENDS Margin

LOCAL INSTANCE Functions

CONSTANTS
  Users,
  Setups,                \* what users did before, see Prepared
  Prices,                \* that oracles may show, [perp, asset]
  InitialAssetPrice,
  MaxBases,              \* the most base a liquidator takes over
  MaxTransfers,          \* the most of a liability it takes over
  Deposits, Withdrawals, \* what users deposit and withdraw, [in_market, amount]
  NewOrders,             \* that users place, [base, direction]
  MaxOrders,
  InitialInsurance,      \* of each spot market
  lp_cooldown_time,
  PnlAsSafeAsBorrows,    \* the contract tier is as safe as every asset's that is borrowed
  PaceRounding,          \* quote that the steps of base and fees may free beyond the pace
  MaxRounding,           \* quote that the divisions of one transaction may lose
  MaxSlot, MaxTransactions

(* Users of a setup have an amount of tokens in each spot market.          *)
ASSUME SetupsAssumption ==
  \A setup \in Setups : {setup.u, setup.other} \subseteq [SpotMarkets -> Int]

VARIABLES
  market, positions,
  spot,            \* tokens of each user in each spot market, negative when borrowed
  orders,          \* how many orders a user has and the base they ask for
  status,          \* of each user: being liquidated, bankrupt, and the pace of its liquidation
  pools,           \* of each spot market: revenue pool, vault and insurance fund
  prices,
  slot,            \* also the time
  transactions,
  freed,           \* history: margin that takeovers freed since the user's liquidation began
  fee_pool_paid    \* history: what the fee pool paid for bankruptcies

vars == <<market, positions, spot, orders, status, pools, prices, slot, transactions, freed,
          fee_pool_paid>>

(* What handlers read and change.                                          *)
s0 == [m |-> market, positions |-> positions, spot |-> spot, orders |-> orders, status |-> status,
       pools |-> pools, prices |-> prices]

Total(f) == FoldFunction(LAMBDA a, b : a + b, 0, f)

On(s, u, result) == [s EXCEPT !.m = result.m, !.positions[u] = result.p]
Maintenance(s, u) == MarginCalculation(s, u, "Maintenance")

----------------------------------------------------------------------------
(* The status of a user (state/user.rs).                                   *)

HealthyUser == [being_liquidated |-> FALSE, bankrupt |-> FALSE, margin_freed |-> 0,
                last_active_slot |-> 0, last_add_perp_lp_shares_ts |-> 0]

enter_liquidation(s, u) ==
  IF s.status[u].being_liquidated THEN s
  ELSE [s EXCEPT !.status[u].being_liquidated = TRUE, !.status[u].margin_freed = 0,
                 !.status[u].last_active_slot = slot]

exit_liquidation(s, u) ==
  [s EXCEPT !.status[u].being_liquidated = FALSE, !.status[u].bankrupt = FALSE,
            !.status[u].margin_freed = 0]

(* Mutant: the user is still being liquidated as well.                     *)
bankrupt_and_liquidated(s, u) == [s EXCEPT !.status[u].bankrupt = TRUE]

enter_bankruptcy(s, u) ==
  [s EXCEPT !.status[u].being_liquidated = FALSE, !.status[u].bankrupt = TRUE]

exit_bankruptcy(s, u) == exit_liquidation(s, u)

(* Mutant: what a takeover frees is not counted.                           *)
margin_freed_forgotten(s, u, margin_freed) == s

increment_margin_freed(s, u, margin_freed) ==
  [s EXCEPT !.status[u].margin_freed = @ + margin_freed]

update_last_active_slot(s, u) ==
  IF s.status[u].being_liquidated THEN s ELSE [s EXCEPT !.status[u].last_active_slot = slot]

cancel_orders(s, u) == [s EXCEPT !.orders[u] = NoOrders]

----------------------------------------------------------------------------
(* The start.  A setup says what the user `u' did to have what it has:     *)
(* shares it added to the curve, base it and the other user bought from    *)
(* the AMM, pnl it made trading with the other user, and balances of both; *)
(* and the price at which an admin had the market's surplus computed anew. *)

Opened(setup, u) ==
  LET empty == [v \in Users |-> EmptyPosition]
  IN  IF setup.lp = 0 THEN [m |-> NewMarket, positions |-> empty]
      ELSE [m |-> FirstLp(setup.lp).m, positions |-> [empty EXCEPT ![u] = FirstLp(setup.lp).p]]

Bought(s, u, base) ==
  IF base = 0 THEN s
  ELSE fulfill_perp_order_with_amm(
         SettleFundingThenLp(s, u),
         [taker |-> u, base |-> Abs(base), direction |-> IF base > 0 THEN "Long" ELSE "Short",
          fill_price |-> 0, post_only |-> FALSE, split |-> "Shared", filler |-> NoUser,
          referrer |-> NoUser])

Traded(s, u, other, pnl) ==
  IF pnl = 0 THEN s ELSE Pay(Pay(s, u, pnl), other, -pnl)

Revalued(s, price) ==
  IF price = 0 THEN s
  ELSE [s EXCEPT !.m.total_fee_minus_distributions =
                    calculate_perp_market_amm_summary_stats(s.m, price)]

Prepared(setup, u, other) ==
  Revalued(Traded(Bought(Bought(Opened(setup, u), other, setup.other_base), u, setup.base),
                  u, other, setup.pnl),
           setup.revalued_at)

Balances(s, held, in_market) ==
  Total([v \in Users |-> held[v][in_market]])
    + (IF in_market = "quote" THEN s.m.pnl_pool + s.m.fee_pool ELSE 0)

StartsWith(s, held) ==
  [ m |-> s.m, positions |-> s.positions, spot |-> held,
    orders |-> [v \in Users |-> NoOrders], status |-> [v \in Users |-> HealthyUser],
    pools |-> [in_market \in SpotMarkets |->
                 [revenue |-> 0, vault |-> Balances(s, held, in_market),
                  insurance |-> InitialInsurance[in_market]]],
    prices |-> [perp |-> InitialPeg, asset |-> InitialAssetPrice, last_perp |-> InitialPeg] ]

Starts(setup, u, other) ==
  StartsWith(Prepared(setup, u, other), [v \in Users |-> IF v = u THEN setup.u ELSE setup.other])

Init ==
  /\ \E setup \in Setups, u, other \in Users :
       /\ u # other
       /\ \E s \in {Starts(setup, u, other)} :
            /\ \A v \in Users : meets_initial_margin_requirement(s, v)
            /\ market = s.m /\ positions = s.positions /\ spot = s.spot /\ orders = s.orders
            /\ status = s.status /\ pools = s.pools /\ prices = s.prices
  /\ slot = 0
  /\ transactions = 0
  /\ freed = [u \in Users |-> 0]
  /\ fee_pool_paid = 0

Call == transactions < MaxTransactions

Write(s) ==
  /\ market' = s.m /\ positions' = s.positions /\ spot' = s.spot /\ orders' = s.orders
  /\ status' = s.status /\ pools' = s.pools /\ prices' = s.prices
  /\ transactions' = transactions + 1
  /\ UNCHANGED slot

(* The margin that takeovers freed, forgotten when a liquidation ends.     *)
FreedBy(s, u, margin_freed) ==
  IF ~s.status[u].being_liquidated THEN 0
  ELSE margin_freed + (IF status[u].being_liquidated THEN freed[u] ELSE 0)

NothingFreedBy(s) == [u \in Users |-> FreedBy(s, u, 0)]

Done(s) == Write(s) /\ freed' = NothingFreedBy(s) /\ UNCHANGED fee_pool_paid

Takeover(s, user, margin_freed) ==
  /\ Write(s)
  /\ freed' = [NothingFreedBy(s) EXCEPT ![user] = FreedBy(s, user, margin_freed)]
  /\ UNCHANGED fee_pool_paid

----------------------------------------------------------------------------
(* Every liquidation starts the same way.  A user that meets its margin    *)
(* and the buffer again leaves liquidation.  One that does not loses its   *)
(* orders, and in liquidate_perp its LP shares; when that is enough it     *)
(* leaves, otherwise the liquidator takes something over.                  *)

SettledFunding(s, u) == On(s, u, settle_funding_payment(s.m, s.positions[u]))
FundingSettled(user, liquidator) == SettledFunding(SettledFunding(s0, user), liquidator)

(* What giving up orders and shares freed.                                 *)
CountFreed(s, user, before, after) ==
  increment_margin_freed(s, user,
                         Greatest(0, margin_shortage(before) - margin_shortage(after)))

(* over: the liquidation has ended, nothing is taken over.                 *)
AfterRelease(start, released, user, before) ==
  LET nothing_released ==
        start.orders[user].open_orders = 0
          /\ released.positions[user].lp_shares = start.positions[user].lp_shares
      after == Maintenance(released, user)
      counted == CountFreed(released, user, before, after)
  IN  IF nothing_released THEN [s |-> released, calc |-> before, over |-> FALSE]
      ELSE IF can_exit_liquidation(after)
        THEN [s |-> exit_liquidation(counted, user), calc |-> after, over |-> TRUE]
      ELSE [s |-> counted, calc |-> after, over |-> FALSE]

LeavesAtOnce(start, user, before) ==
  start.status[user].being_liquidated /\ can_exit_liquidation(before)

Entered(start, user) == cancel_orders(enter_liquidation(start, user), user)

Liquidate(start, released, user, before) ==
  IF LeavesAtOnce(start, user, before)
    THEN [s |-> exit_liquidation(start, user), calc |-> before, over |-> TRUE]
    ELSE AfterRelease(start, released, user, before)

LiquidateWithoutShares(start, user, before) == Liquidate(start, Entered(start, user), user, before)

MayLiquidate(start, user, liquidator, before) ==
  /\ Call
  /\ user # liquidator
  /\ ~status[user].bankrupt
  /\ ~status[liquidator].bankrupt
  /\ start.status[user].being_liquidated \/ ~meets_margin_requirement(before)

(* Every takeover ends the same way.                                       *)
calculate_margin_freed(s, user, shortage) ==
  Greatest(0, shortage - margin_shortage(Maintenance(s, user)))

(* Mutant: any takeover ends the liquidation.                              *)
leaves_after_any_takeover(s, user, taken, to_cover) ==
  IF taken > 0 THEN exit_liquidation(s, user) ELSE s

AfterTakeover(s, user, taken, to_cover) ==
  IF taken >= to_cover THEN exit_liquidation(s, user)
  ELSE IF is_user_bankrupt(s, user) THEN enter_bankruptcy(s, user)
  ELSE s

Settle(s, user, liquidator, shortage, taken, to_cover) ==
  /\ meets_initial_margin_requirement(s, liquidator)
  /\ \E margin_freed \in {calculate_margin_freed(s, user, shortage)} :
       \E counted \in {increment_margin_freed(s, user, margin_freed)} :
         Takeover(AfterTakeover(counted, user, taken, to_cover), user, margin_freed)

MaxPct(s, user, shortage) == calculate_max_pct_to_liquidate(s.status[user], shortage, slot)

----------------------------------------------------------------------------
(* liquidate_perp: base is taken over at the oracle's price.               *)

update_amm(s) == [s EXCEPT !.m = _update_amm(@, s.prices.perp), !.prices.last_perp = s.prices.perp]

Price(s) == ValuationPrice(s.m, s.prices.perp)
PositionDirection(base) == IF base >= 0 THEN "Long" ELSE "Short"

BurnsAllShares(s, u) ==
  s.positions[u].lp_shares > 0
    => BurnValid(update_amm(s).m, s.positions[u], s.positions[u].lp_shares, Price(update_amm(s)))

WithoutShares(s, u) ==
  IF s.positions[u].lp_shares = 0 THEN s
  ELSE On(s, u, burn_lp_shares(s.m, s.positions[u], s.positions[u].lp_shares, Price(s)))

MarginRatioWithBuffer(s, u) ==
  get_margin_ratio(s.m, Abs(worst_case_base_asset_amount(s.positions[u].base_asset_amount,
                                                         s.orders[u].open_bids,
                                                         s.orders[u].open_asks)),
                   "Maintenance") + liquidation_margin_buffer_ratio

PerpIfFee(s, u, calc) ==
  calculate_perp_if_fee(tracked_market_margin_shortage(calc, margin_shortage(calc), "perp"),
                        Abs(s.positions[u].base_asset_amount), MarginRatioWithBuffer(s, u), Price(s))

BaseToCover(s, u, calc, if_fee) ==
  standardize_base_asset_amount_ceil(
    calculate_base_asset_amount_to_cover_margin_shortage(
      margin_shortage(calc), MarginRatioWithBuffer(s, u), if_fee, Price(s)),
    order_step_size)

BaseTakenOver(s, u, allowed, max_base) ==
  LET base == Abs(s.positions[u].base_asset_amount)
      small == calculate_base_asset_value_with_oracle_price(base, Price(s)) <= SmallPosition
  IN  standardize_base_asset_amount_ceil(
        Least(Least(base, standardize_base_asset_amount(max_base, order_step_size)),
              Greatest(allowed, IF small THEN base ELSE 0)),
        order_step_size)

Charged(r, amount) == update_quote_asset_and_break_even_amount(r.m, r.p, amount)

(* The user pays both fees; the insurance fund's is only recorded.         *)
BaseTransferred(s, user, liquidator, base, if_fee) ==
  LET value == calculate_base_asset_value_with_oracle_price(base, Price(s))
      direction == PositionDirection(s.positions[user].base_asset_amount)
      fee == (value * perp_liquidator_fee) \div LIQUIDATION_FEE_PRECISION
      insurance == (value * if_fee) \div LIQUIDATION_FEE_PRECISION
      closed == On(s, user,
                   Charged(Charged(update_position_and_market(
                                     s.m, s.positions[user],
                                     get_position_delta_for_fill(base, value, Opposite(direction))),
                                   -fee), -insurance))
      taken == On(closed, liquidator,
                  Charged(update_position_and_market(
                            closed.m, closed.positions[liquidator],
                            get_position_delta_for_fill(base, value, direction)), fee))
  IN  [taken EXCEPT !.m.total_liquidation_fee = @ + insurance]

TakeOverBase(s, calc, user, liquidator, max_base) ==
  IF s.positions[user].base_asset_amount = 0 THEN Done(s)
  ELSE \E if_fee \in {PerpIfFee(s, user, calc)} :
         /\ max_base >= order_step_size
         /\ BaseCoverValid(MarginRatioWithBuffer(s, user), if_fee, Price(s))
         /\ \E to_cover \in {BaseToCover(s, user, calc, if_fee)} :
              \E allowed \in {PctOf(to_cover, MaxPct(s, user, margin_shortage(calc)))} :
                IF allowed = 0 THEN Done(s)
                ELSE \E base \in {BaseTakenOver(s, user, allowed, max_base)} :
                       \E taken \in {BaseTransferred(s, user, liquidator, base, if_fee)} :
                         Settle(taken, user, liquidator, margin_shortage(calc), base, to_cover)

HasSomethingInMarket(u) ==
  \/ positions[u].base_asset_amount # 0
  \/ positions[u].lp_shares > 0
  \/ orders[u].open_orders > 0

LiquidatePerp(user, liquidator, max_base) ==
  \E start \in {FundingSettled(user, liquidator)} :
    \E before \in {Maintenance(start, user)} :
      /\ MayLiquidate(start, user, liquidator, before)
      /\ ~LeavesAtOnce(start, user, before)
           => /\ HasSomethingInMarket(user)
              /\ UpdateAmmValid(start.m, start.prices.perp)
              /\ BurnsAllShares(Entered(start, user), user)
      /\ \E l \in {Liquidate(start, WithoutShares(update_amm(Entered(start, user)), user),
                            user, before)} :
           IF l.over THEN Done(l.s) ELSE TakeOverBase(l.s, l.calc, user, liquidator, max_base)

----------------------------------------------------------------------------
(* The other liquidations: a liability of the user is taken over, and for  *)
(* it an asset, at a discount or a premium.  Either may be an amount of    *)
(* tokens or the pnl of a position without base.                           *)

SpotPrice(s, in_market) == IF in_market = "quote" THEN PRICE_PRECISION ELSE s.prices.asset

DepositAsset(s, u, in_market) ==
  [ amount |-> s.spot[u][in_market], price |-> SpotPrice(s, in_market),
    weight |-> maintenance_asset_weight[in_market],
    multiplier |-> Premium(spot_liquidator_fee[in_market]) ]

BorrowLiability(s, u, in_market) ==
  [ amount |-> -s.spot[u][in_market], price |-> SpotPrice(s, in_market),
    weight |-> maintenance_liability_weight[in_market] + liquidation_margin_buffer_ratio,
    multiplier |-> Discount(spot_liquidator_fee[in_market]) ]

PnlAsset(s, u) ==
  [ amount |-> s.positions[u].quote_asset_amount, price |-> PRICE_PRECISION,
    weight |-> get_unrealized_asset_weight(s.m, s.positions[u].quote_asset_amount, "Maintenance",
                                           s.prices.last_perp),
    multiplier |-> Premium(perp_liquidator_fee) ]

PnlLiability(s, u) ==
  [ amount |-> -s.positions[u].quote_asset_amount, price |-> PRICE_PRECISION,
    weight |-> SPOT_WEIGHT_PRECISION, multiplier |-> Discount(perp_liquidator_fee) ]

GiveTokens(s, from, to, in_market, amount) ==
  [s EXCEPT !.spot[from][in_market] = @ - amount, !.spot[to][in_market] = @ + amount]

GivePnl(s, from, to, amount) ==
  LET given == On(s, to, update_quote_asset_amount(s.m, s.positions[to], amount))
  IN  On(given, from, update_quote_asset_amount(given.m, given.positions[from], -amount))

Transfers(s, calc, user, asset, liability, if_fee, max_transfer) ==
  LET to_cover == calculate_liability_transfer_to_cover_margin_shortage(
                    margin_shortage(calc), asset, liability, if_fee)
      allowed == PctOf(to_cover, MaxPct(s, user, margin_shortage(calc)))
      transfer == LiabilityTransfer(asset, liability, max_transfer, allowed)
  IN  [ shortage |-> margin_shortage(calc), to_cover |-> to_cover, allowed |-> allowed,
        liability |-> transfer,
        asset |-> calculate_asset_transfer_for_liability_transfer(asset, liability, transfer) ]

(* moved is the state that the transfers leave.                            *)
TakeOver(s, moved, transfers, user, liquidator) ==
  IF transfers.allowed = 0 THEN Done(s)
  ELSE /\ transfers.liability # 0
       /\ transfers.asset # 0
       /\ Settle(moved, user, liquidator, transfers.shortage, transfers.liability,
                 transfers.to_cover)

(* Mutant: the fee goes to the insurance fund, and the user keeps it too.  *)
borrow_repaid_in_full(s, user, liquidator, in_market, amount, if_fee) ==
  [GiveTokens(s, liquidator, user, in_market, amount)
     EXCEPT !.pools[in_market].revenue = @ + (amount * if_fee) \div LIQUIDATION_FEE_PRECISION]

BorrowTakenOver(s, user, liquidator, in_market, amount, if_fee) ==
  LET insurance == (amount * if_fee) \div LIQUIDATION_FEE_PRECISION
  IN  [GiveTokens(s, liquidator, user, in_market, amount)
         EXCEPT !.spot[user][in_market] = @ - insurance,
                !.pools[in_market].revenue = @ + insurance]

TakeOverBorrow(s, calc, user, liquidator, asset_market, liability_market, max_transfer) ==
  LET asset == DepositAsset(s, user, asset_market)
      liability == BorrowLiability(s, user, liability_market)
      if_fee == calculate_spot_if_fee(
                  tracked_market_margin_shortage(calc, margin_shortage(calc), liability_market),
                  asset, liability, spot_if_liquidation_fee[liability_market])
  IN  /\ LiabilityCoverValid(asset, liability, if_fee)
      /\ \E t \in {Transfers(s, calc, user, asset, liability, if_fee, max_transfer)} :
           \E repaid \in {BorrowTakenOver(s, user, liquidator, liability_market, t.liability, if_fee)} :
             TakeOver(s, GiveTokens(repaid, user, liquidator, asset_market, t.asset), t,
                      user, liquidator)

LiquidateSpot(user, liquidator, asset_market, liability_market, max_transfer) ==
  /\ spot[user][asset_market] > 0
  /\ spot[user][liability_market] < 0
  /\ \E before \in {Maintenance(s0, user)} :
       /\ MayLiquidate(s0, user, liquidator, before)
       /\ \E l \in {LiquidateWithoutShares(s0, user, before)} :
            IF l.over THEN Done(l.s)
            ELSE TakeOverBorrow(l.s, l.calc, user, liquidator, asset_market, liability_market,
                                max_transfer)

HasOnlyPnl(u) == positions[u].base_asset_amount = 0 /\ positions[u].lp_shares = 0

TakeOverBorrowForPnl(s, calc, user, liquidator, liability_market, max_transfer) ==
  LET asset == PnlAsset(s, user)
      liability == BorrowLiability(s, user, liability_market)
  IN  /\ LiabilityCoverValid(asset, liability, 0)
      /\ \E t \in {Transfers(s, calc, user, asset, liability, 0, max_transfer)} :
           \E repaid \in {GiveTokens(s, liquidator, user, liability_market, t.liability)} :
             TakeOver(s, GivePnl(repaid, user, liquidator, t.asset), t, user, liquidator)

LiquidateBorrowForPerpPnl(user, liquidator, liability_market, max_transfer) ==
  /\ HasOnlyPnl(user)
  /\ positions[user].quote_asset_amount > 0
  /\ spot[user][liability_market] < 0
  /\ \E start \in {FundingSettled(user, liquidator)} :
       \E before \in {Maintenance(start, user)} :
         /\ MayLiquidate(start, user, liquidator, before)
         /\ \E l \in {LiquidateWithoutShares(start, user, before)} :
              IF l.over THEN Done(l.s)
              ELSE TakeOverBorrowForPnl(l.s, l.calc, user, liquidator, liability_market,
                                        max_transfer)

(* Losses in a riskier contract wait for borrows of safer assets.          *)
TierViolation(u) ==
  ~PnlAsSafeAsBorrows /\ \E in_market \in SpotMarkets : spot[u][in_market] < 0

TakeOverLoss(s, calc, user, liquidator, asset_market, max_transfer) ==
  LET asset == DepositAsset(s, user, asset_market)
      liability == PnlLiability(s, user)
  IN  IF TierViolation(user) THEN orders[user].open_orders > 0 /\ Done(s)
      ELSE /\ LiabilityCoverValid(asset, liability, 0)
           /\ \E t \in {Transfers(s, calc, user, asset, liability, 0, max_transfer)} :
                \E paid \in {GiveTokens(s, user, liquidator, asset_market, t.asset)} :
                  TakeOver(s, GivePnl(paid, liquidator, user, t.liability), t, user, liquidator)

LiquidatePerpPnlForDeposit(user, liquidator, asset_market, max_transfer) ==
  /\ HasOnlyPnl(user)
  /\ positions[user].quote_asset_amount < 0
  /\ spot[user][asset_market] > 0
  /\ \E start \in {FundingSettled(user, liquidator)} :
       \E before \in {Maintenance(start, user)} :
         /\ MayLiquidate(start, user, liquidator, before)
         /\ \E l \in {LiquidateWithoutShares(start, user, before)} :
              IF l.over THEN Done(l.s)
              ELSE TakeOverLoss(l.s, l.calc, user, liquidator, asset_market, max_transfer)

----------------------------------------------------------------------------
(* Bankruptcies.  A user that owes and has nothing left has its losses     *)
(* paid by the insurance fund, then by the fee pool, then by everybody.    *)

Insurance(s, in_market) == Greatest(0, s.pools[in_market].insurance - 1)

PayFromInsurance(s, in_market, amount) ==
  [s EXCEPT !.pools[in_market].insurance = @ - amount, !.pools[in_market].vault = @ + amount]

BankruptUser(s, u) ==
  IF ~s.status[u].bankrupt /\ is_user_bankrupt(s, u) THEN enter_bankruptcy(s, u) ELSE s

ExitIfSolvent(s, u) == IF is_user_bankrupt(s, u) THEN s ELSE exit_bankruptcy(s, u)

CanResolve(s, user, liquidator) ==
  /\ Call
  /\ user # liquidator
  /\ s.status[user].bankrupt
  /\ ~status[liquidator].being_liquidated
  /\ ~status[liquidator].bankrupt

PerpIfPayment(s, loss) ==
  Least(Least(loss, Insurance(s, "quote")), quote_max_insurance - s.m.quote_settled_insurance)

InsurePnl(s, payment) ==
  [PayFromInsurance(s, "quote", payment)
     EXCEPT !.m.quote_settled_insurance = @ + payment, !.m.pnl_pool = @ + payment]

(* Longs and shorts both pay, by a change of the funding rates.            *)
Socialize(m, loss) ==
  LET delta == calculate_funding_rate_deltas_to_resolve_bankruptcy(m, loss)
  IN  IF loss = 0 THEN m
      ELSE [m EXCEPT !.total_social_loss = @ + loss,
                     !.cumulative_funding_rate_long = @ + delta,
                     !.cumulative_funding_rate_short = @ - delta]

(* Mutant: positions also pay what the insurance fund paid.                *)
insured_loss_shared_too(s, u, loss, from_insurance, from_fee_pool) ==
  LET insured == InsurePnl(s, from_insurance)
      shared == [insured EXCEPT !.m = Socialize([@ EXCEPT !.fee_pool = @ - from_fee_pool],
                                                loss - from_fee_pool)]
  IN  On(shared, u, update_quote_asset_amount(shared.m, shared.positions[u], loss))

PerpLossPaid(s, u, loss, from_insurance, from_fee_pool) ==
  LET insured == InsurePnl(s, from_insurance)
      charged == [insured EXCEPT !.m.fee_pool = @ - from_fee_pool]
      shared == [charged EXCEPT !.m = Socialize(@, loss - from_insurance - from_fee_pool)]
  IN  On(shared, u, update_quote_asset_amount(shared.m, shared.positions[u], loss))

ResolvePerpBankruptcy(user, liquidator) ==
  LET s == BankruptUser(s0, user)
      loss == -positions[user].quote_asset_amount
      from_insurance == PerpIfPayment(s, loss)
      from_fee_pool == Least(loss - from_insurance, market.fee_pool)
      paid == ExitIfSolvent(PerpLossPaid(s, user, loss, from_insurance, from_fee_pool), user)
  IN  /\ CanResolve(s, user, liquidator)
      /\ loss > 0
      /\ Abs(market.base_asset_amount_long) + Abs(market.base_asset_amount_short) # 0
      /\ Write(paid)
      /\ freed' = NothingFreedBy(paid)
      /\ fee_pool_paid' = fee_pool_paid + from_fee_pool

(* The deposits of a spot market: those of users, of its revenue pool and, *)
(* in the quote market, of the perp market's pools.                        *)
DepositsOf(s, in_market) ==
  Total([u \in Users |-> Greatest(0, s.spot[u][in_market])]) + s.pools[in_market].revenue
    + (IF in_market = "quote" THEN s.m.pnl_pool + s.m.fee_pool ELSE 0)

LowerDeposits(s, in_market, loss) ==
  LET Left(deposit) == calculate_cumulative_deposit_interest_delta_to_resolve_bankruptcy(
                         deposit, loss, DepositsOf(s, in_market))
      lowered == [s EXCEPT !.spot = [u \in Users |-> [s.spot[u] EXCEPT ![in_market] = Left(@)]],
                           !.pools[in_market].revenue = Left(@)]
  IN  IF in_market # "quote" THEN lowered
      ELSE [lowered EXCEPT !.m.pnl_pool = Left(@), !.m.fee_pool = Left(@)]

ResolveSpotBankruptcy(user, liquidator, in_market) ==
  LET s == BankruptUser(s0, user)
      borrow == -spot[user][in_market]
      if_payment == Least(borrow, Insurance(s, in_market))
      paid == LowerDeposits(PayFromInsurance(s, in_market, if_payment), in_market,
                            borrow - if_payment)
  IN  /\ CanResolve(s, user, liquidator)
      /\ borrow > 0
      /\ Done(ExitIfSolvent([paid EXCEPT !.spot[user][in_market] = 0], user))

(* A market that owes its users more than it may, and whose pool is empty, *)
(* draws on the insurance fund.                                            *)
DeficitWithdraw(s) ==
  LET excess == IF unrealized_pnl_max_imbalance = 0 THEN 0
                ELSE calculate_net_user_pnl(s.m, s.prices.last_perp) - unrealized_pnl_max_imbalance
  IN  Least(Least(excess, max_revenue_withdraw_per_period - s.m.revenue_withdraw_since_last_settle),
            Least(quote_max_insurance - s.m.quote_settled_insurance, Insurance(s, "quote")))

ResolvePerpPnlDeficit ==
  /\ Call
  /\ market.total_fee_minus_distributions < 0
  /\ UpdateAmmValid(market, s0.prices.perp)
  /\ \E s \in {update_amm(s0)} : \E amount \in {DeficitWithdraw(s)} :
       /\ s.m.total_fee_minus_distributions < 0
       /\ s.m.pnl_pool = 0
       /\ amount > 0
       /\ Done([InsurePnl(s, amount)
                  EXCEPT !.m.total_fee_minus_distributions = @ + amount,
                         !.m.revenue_withdraw_since_last_settle = @ + amount,
                         !.m.last_revenue_withdraw_ts = slot])

----------------------------------------------------------------------------
(* What users do meanwhile.                                                *)

Credit(s, u, in_market, amount) ==
  [s EXCEPT !.spot[u][in_market] = @ + amount, !.pools[in_market].vault = @ + amount]

LeaveIfMarginMet(s, u) ==
  IF s.status[u].being_liquidated /\ can_exit_liquidation(Maintenance(s, u))
    THEN exit_liquidation(s, u) ELSE s

Deposit(u, in_market, amount) ==
  /\ Call
  /\ ~status[u].bankrupt
  /\ \E s \in {Credit(s0, u, in_market, amount)} :
       Done(update_last_active_slot(LeaveIfMarginMet(s, u), u))

Withdraw(u, in_market, amount) ==
  /\ Call
  /\ ~status[u].bankrupt
  /\ pools[in_market].vault >= amount
  /\ \E s \in {Credit(s0, u, in_market, -amount)} :
       /\ meets_initial_margin_requirement(s, u)
       /\ Done(update_last_active_slot(
                 IF status[u].being_liquidated THEN exit_liquidation(s, u) ELSE s, u))

is_new_order_risk_increasing(s, u, base, direction) ==
  LET held == s.positions[u].base_asset_amount
  IN  IF direction = "Long" THEN held >= 0 \/ s.orders[u].open_bids + base > Abs(held)
      ELSE held <= 0 \/ Abs(s.orders[u].open_asks - base) > held

WithOrder(s, u, base, direction) ==
  [LeaveIfMarginMet(s, u)
     EXCEPT !.orders[u] = [open_orders |-> @.open_orders + 1,
                           open_bids |-> @.open_bids + (IF direction = "Long" THEN base ELSE 0),
                           open_asks |-> @.open_asks - (IF direction = "Short" THEN base ELSE 0)]]

(* Nobody who is still short of margin places orders, not even to reduce.  *)
PlaceOrderValid(s, u, base, direction, reduce_only) ==
  /\ ~LeaveIfMarginMet(s, u).status[u].being_liquidated
  /\ ~s.status[u].bankrupt
  /\ s.orders[u].open_orders < MaxOrders
  /\ base > 0
  /\ meets_margin_requirement(
       MarginCalculation(WithOrder(s, u, base, direction), u,
                         IF ~reduce_only /\ is_new_order_risk_increasing(s, u, base, direction)
                           THEN "Initial" ELSE "Maintenance"))

PlacePerpOrder(u, base, direction) ==
  /\ Call
  /\ PlaceOrderValid(s0, u, base, direction, FALSE)
  /\ Done(update_last_active_slot(WithOrder(s0, u, base, direction), u))

(* How many shares an LP that is short of margin gives up, and how much of *)
(* its position it is made to close.                                       *)
calculate_lp_shares_to_burn_for_risk_reduction(s, u, shortage) ==
  LET settled == simulate_settled_lp_position(s.m, s.positions[u], Price(s))
      worst_case == WorstCaseSettled(s.m, settled, s.orders[u])
      base == Abs(settled.base_asset_amount)
      from_shares == Abs(worst_case - settled.base_asset_amount
                           - (IF worst_case >= 0 THEN s.orders[u].open_bids ELSE s.orders[u].open_asks))
      to_cover == (shortage * AMM_RESERVE_PRECISION)
                    \div ((Price(s) * get_margin_ratio(s.m, Abs(worst_case), "Initial"))
                             \div MARGIN_PRECISION)
      percent == QuotCeil((to_cover - base) * 100, from_shares)
  IN  IF to_cover < base
        THEN [ shares |-> Greatest(standardize_base_asset_amount(settled.lp_shares \div 10,
                                                                 order_step_size), order_step_size),
               close |-> Least(standardize_base_asset_amount_ceil(to_cover, order_step_size), base) ]
        ELSE [ shares |-> Clamp(standardize_base_asset_amount_ceil(
                                  QuotCeil(settled.lp_shares * percent, 100), order_step_size),
                                order_step_size, settled.lp_shares),
               close |-> base ]

(* The shares are burnt and an order to reduce is placed.  A user without  *)
(* room for it only loses the shares.                                      *)
LpBurnt(s, u, burn) ==
  [On(s, u, burn_lp_shares(s.m, s.positions[u], burn.shares, Price(s)))
     EXCEPT !.status[u].last_add_perp_lp_shares_ts = slot]

CloseDirection(s, u) == Opposite(PositionDirection(s.positions[u].base_asset_amount))

DeriskValid(s, u, burn) ==
  /\ burn.shares <= s.positions[u].lp_shares
  /\ BurnValid(s.m, s.positions[u], burn.shares, Price(s))
  /\ LET burnt == LpBurnt(s, u, burn)
     IN  s.orders[u].open_orders < MaxOrders
           => PlaceOrderValid(burnt, u, burn.close, CloseDirection(burnt, u), TRUE)

burn_user_lp_shares_for_risk_reduction(s, u, burn) ==
  LET burnt == LpBurnt(s, u, burn)
  IN  IF s.orders[u].open_orders < MaxOrders
        THEN WithOrder(burnt, u, burn.close, CloseDirection(burnt, u)) ELSE burnt

(* The pools pay or are paid.                                              *)
PnlPaid(s, u, settled) ==
  [On(s, u, update_quote_asset_amount(settled.q.m, s.positions[u], -settled.pnl))
     EXCEPT !.pools["quote"].revenue = settled.q.revenue_pool, !.spot[u]["quote"] = @ + settled.pnl]

PnlSettled(s, u) ==
  PnlPaid(s, u, update_pool_balances(
                  [m |-> s.m, revenue_pool |-> s.pools["quote"].revenue],
                  get_claimable_pnl(s.positions[u], s.prices.perp,
                                    max_pnl_pool_excess(s.m, s.prices.perp)),
                  s.spot[u]["quote"], 0, slot))

(* An LP that is short of initial margin first gives up shares, once per   *)
(* cooldown.                                                               *)
CooledDown(s, u) == slot - s.status[u].last_add_perp_lp_shares_ts >= lp_cooldown_time

AttemptBurnValid(s, u, burn) == CooledDown(s, u) => DeriskValid(s, u, burn)

attempt_burn_user_lp_shares_for_risk_reduction(s, u, burn) ==
  IF CooledDown(s, u) THEN burn_user_lp_shares_for_risk_reduction(s, u, burn) ELSE s

(* A loss is only settled with a user that meets its margin.  For an LP    *)
(* that met its initial margin this is not asked, and one that does not    *)
(* meet it keeps what was done to its shares.                              *)
SettleUnlessShort(s, u, is_lp, burnt, unrealized_pnl) ==
  LET short == /\ ~is_lp \/ burnt
               /\ unrealized_pnl < 0
               /\ ~meets_maintenance_margin_requirement(s, u)
  IN  /\ is_lp \/ ~short
      /\ Done(update_last_active_slot(IF short THEN s ELSE PnlSettled(s, u), u))

SettlePnl(u) ==
  /\ Call
  /\ ~status[u].bankrupt
  /\ ~is_available(positions[u])
  /\ UpdateAmmValid(market, s0.prices.perp)
  /\ \E start \in {update_amm(s0)} :
       /\ SettleFundingThenLpValid(start, u)
       /\ \E s \in {On(start, u, settle_funding_payment_then_lp(start.m, positions[u]))} :
            \E calc \in {MarginCalculation(s, u, "Initial")} :
              LET is_lp == s.positions[u].lp_shares > 0
                  pnl == get_unrealized_pnl(s.positions[u], s.prices.perp)
              IN  IF is_lp /\ ~meets_margin_requirement(calc)
                    THEN \E burn \in {calculate_lp_shares_to_burn_for_risk_reduction(
                                       s, u, margin_shortage(calc))} :
                           /\ AttemptBurnValid(s, u, burn)
                           /\ \E after \in {attempt_burn_user_lp_shares_for_risk_reduction(
                                             s, u, burn)} :
                                SettleUnlessShort(after, u, is_lp, TRUE, pnl)
                    ELSE SettleUnlessShort(s, u, is_lp, FALSE, pnl)

----------------------------------------------------------------------------
(* The environment.                                                        *)

OthersUnchanged == UNCHANGED <<market, positions, spot, orders, status, pools, transactions, freed,
                               fee_pool_paid>>

PricesMove(perp, asset) ==
  /\ Call
  /\ <<perp, asset>> # <<prices.perp, prices.asset>>
  /\ prices' = [prices EXCEPT !.perp = perp, !.asset = asset]
  /\ UNCHANGED slot
  /\ OthersUnchanged

SlotPasses ==
  /\ Call
  /\ slot < MaxSlot
  /\ slot' = slot + 1
  /\ UNCHANGED prices
  /\ OthersUnchanged

Next ==
  \/ \E user, liquidator \in Users, max_base \in MaxBases :
       LiquidatePerp(user, liquidator, max_base)
  \/ \E user, liquidator \in Users, asset_market, liability_market \in SpotMarkets,
        max_transfer \in MaxTransfers :
       LiquidateSpot(user, liquidator, asset_market, liability_market, max_transfer)
  \/ \E user, liquidator \in Users, in_market \in SpotMarkets, max_transfer \in MaxTransfers :
       LiquidateBorrowForPerpPnl(user, liquidator, in_market, max_transfer)
  \/ \E user, liquidator \in Users, in_market \in SpotMarkets, max_transfer \in MaxTransfers :
       LiquidatePerpPnlForDeposit(user, liquidator, in_market, max_transfer)
  \/ \E user, liquidator \in Users : ResolvePerpBankruptcy(user, liquidator)
  \/ \E user, liquidator \in Users, in_market \in SpotMarkets :
       ResolveSpotBankruptcy(user, liquidator, in_market)
  \/ ResolvePerpPnlDeficit
  \/ \E u \in Users, d \in Deposits : Deposit(u, d.in_market, d.amount)
  \/ \E u \in Users, w \in Withdrawals : Withdraw(u, w.in_market, w.amount)
  \/ \E u \in Users, o \in NewOrders : PlacePerpOrder(u, o.base, o.direction)
  \/ \E u \in Users : SettlePnl(u)
  \/ \E p \in Prices : PricesMove(p.perp, p.asset)
  \/ SlotPasses

Spec == Init /\ [][Next]_vars

----------------------------------------------------------------------------
(* Properties.                                                             *)

(* A user is never both being liquidated and bankrupt, and one that is     *)
(* marked bankrupt still owes and has nothing: no sequence of liquidations,*)
(* resolutions of one debt after the other, and prices in between leaves a *)
(* user marked that could pay (state/user.rs enter_bankruptcy,             *)
(* controller/liquidation.rs resolve_perp_bankruptcy).                     *)
StatusCoherent ==
  \A u \in Users :
    /\ ~(status[u].being_liquidated /\ status[u].bankrupt)
    /\ status[u].bankrupt => is_user_bankrupt(s0, u)

MeetsMaintenance(u) == meets_maintenance_margin_requirement(s0, u)

(* A user that leaves liquidation, other than into bankruptcy, meets its   *)
(* maintenance margin, whichever handler lets it go: by what was taken     *)
(* over, by its orders or shares being cancelled, by a deposit, a          *)
(* withdrawal or a new order (controller/liquidation.rs liquidate_perp).   *)
ExitMeetsMargin ==
  [][\A u \in Users :
       (status[u].being_liquidated /\ ~status'[u].being_liquidated /\ ~status'[u].bankrupt)
         => MeetsMaintenance(u)']_vars

Shortage(u) == margin_shortage(Maintenance(s0, u))

(* Nothing of the user is small enough to be taken whole.                  *)
NothingSmall(u) ==
  /\ Shortage(u) >= SmallShortage
  /\ orders[u].open_orders = 0
  /\ positions[u].lp_shares = 0
  /\ \/ positions[u].base_asset_amount = 0
     \/ calculate_base_asset_value_with_oracle_price(positions[u].base_asset_amount, prices.perp)
          > SmallPosition
  /\ \A in_market \in SpotMarkets :
       \/ spot[u][in_market] >= 0
       \/ get_token_value(-spot[u][in_market], SpotPrice(s0, in_market)) > SmallLiability
  /\ positions[u].base_asset_amount # 0 \/ positions[u].quote_asset_amount >= 0
       \/ -positions[u].quote_asset_amount > SmallLiability

PctFreeable(u) ==
  LET since == IF status[u].being_liquidated THEN status[u].last_active_slot ELSE slot
  IN  Least(LIQUIDATION_PCT_PRECISION,
            ((slot - since) * LIQUIDATION_PCT_PRECISION) \div liquidation_duration
              + initial_pct_to_liquidate)

(* However many liquidators take over parts of a user, in whatever order   *)
(* and by whatever instruction, together they free no more of its margin   *)
(* than the share that the slots since its liquidation began allow         *)
(* (math/liquidation.rs calculate_max_pct_to_liquidate).                   *)
PaceHolds ==
  [][\A u \in Users :
       (status'[u].being_liquidated /\ freed'[u] > freed[u] /\ NothingSmall(u))
         => (freed'[u] - PaceRounding) * LIQUIDATION_PCT_PRECISION
              <= PctFreeable(u) * (Shortage(u) + freed[u])]_vars

UnpaidFunding == Total([u \in Users |-> calculate_funding_payment(market, positions[u])])

(* What would be left of the market's pools if every position closed       *)
(* against the curve, beyond the surplus and the liquidation fees that it  *)
(* records.                                                                *)
Unrecorded ==
  market.pnl_pool + market.fee_pool - market.quote_asset_amount - UnpaidFunding
    - SignedCurveValue(market) - market.total_fee_minus_distributions
    - market.total_liquidation_fee

(* A bankrupt user's borrow is paid, by the insurance fund and depositors. *)
LossShared(in_market) ==
  \E u \in Users : is_user_bankrupt(s0, u) /\ spot[u][in_market] < 0 /\ spot'[u][in_market] = 0

(* Liquidations and bankruptcies give away no quote that nobody paid: what *)
(* a bankrupt user does not pay is paid by the insurance fund, or by all   *)
(* positions together.  Losses that the fee pool paid are set apart (they  *)
(* count twice, neither charged to the surplus nor credited to a pool), and*)
(* so is what the pools lose as depositors of quote                        *)
(* (controller/liquidation.rs resolve_perp_bankruptcy).                    *)
ClaimsStayBacked ==
  [][(market.user_lp_shares = 0 /\ market'.user_lp_shares = 0 /\ ~LossShared("quote"))
       => Abs((Unrecorded + 2 * fee_pool_paid)' - (Unrecorded + 2 * fee_pool_paid))
            <= MaxRounding]_vars

(* What the fee pool pays for a bankruptcy is taken off the surplus that   *)
(* the market records, as the field is documented: fees less recognized    *)
(* pnl and withdrawals from the pool (state/perp_market.rs                 *)
(* total_fee_minus_distributions).                                         *)
SurplusCountsWithdrawals ==
  [][fee_pool_paid' > fee_pool_paid
       => market'.total_fee_minus_distributions
            <= market.total_fee_minus_distributions - (fee_pool_paid' - fee_pool_paid)]_vars

(* What is in the vault of a spot market and nobody's, but for what the    *)
(* fee pool paid, which resolve_perp_bankruptcy credits to nobody.         *)
Unclaimed(in_market) ==
  pools[in_market].vault - pools[in_market].revenue - Balances(s0, spot, in_market)
    - (IF in_market = "quote" THEN fee_pool_paid ELSE 0)

(* The vault of a spot market goes on holding what its depositors and      *)
(* pools may withdraw less what is lent, through takeovers, fees, payments *)
(* of the insurance fund and, but for the rounding of each deposit, losses *)
(* that depositors share: never less, and no more that would be nobody's   *)
(* (controller/liquidation.rs resolve_spot_bankruptcy).                    *)
VaultMatchesBalances ==
  [][\A in_market \in SpotMarkets :
       Unclaimed(in_market)' - Unclaimed(in_market)
         \in 0 .. (IF LossShared(in_market) THEN MaxRounding ELSE 0)]_vars
===============================================================================
