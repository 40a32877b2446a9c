# Drift protocol v2: a TLA+ verification project

Drift is an exchange on Solana for perpetual futures and for spot lending. The
program (`src/programs/drift/src`) is a set of *instructions*: each one is an atomic
transaction that either passes all its checks and commits, or changes nothing.
Around it, a TypeScript SDK (`src/sdk/src`) caches accounts, subscribes to events,
keeps an off-chain order book and sends transactions.

## 1. Inventory

### The program

| part | source | state it keeps | operations | what makes it correct |
|---|---|---|---|---|
| spot market ledger | `controller/spot_balance.rs`, `math/spot_balance.rs`, `math/stats.rs` | scaled balance of every user and pool, two totals, two interest indices, three averages | update_spot_balances, transfer_spot_balances, cumulative interest, twap stats | totals equal the holders' balances; interest creates nothing; averages need time |
| spot instructions | `instructions/user.rs`, `controller/spot_position.rs`, `math/spot_withdraw.rs` | the token vault | deposit, withdraw, transfer, revenue pool deposit, swap | the vault holds what depositors may claim; withdraw limits |
| insurance fund | `controller/insurance.rs`, `instructions/if_staker.rs`, `math/insurance.rs`, `state/insurance_fund_stake.rs` | vault, total/user shares, shares base, stakes and their pending requests | add, request, cancel, remove, transfer of protocol shares, revenue settlement, losses, rebase | shares add up; a request never pays more than the share price; a loss dilutes everybody alike |
| orders | `controller/orders.rs`, `math/orders.rs`, `state/order_params.rs`, `validation/order.rs`, `math/auction.rs` | 32 order slots of a user, open order counters, open bids and asks of positions | place, modify, cancel, trigger, expire, fill | counters match slots; no order fills beyond its size; nothing fills after it closed |
| matching and fulfillment | `math/matching.rs`, `math/fulfillment.rs`, `controller/orders.rs` | taker, maker and AMM of one fill | fulfillment methods, match orders | price of a fill is acceptable to both sides |
| perp positions | `controller/position.rs`, `math/position.rs` | base, quote, break even, entry of a position; market totals | update_position_and_market | market totals equal the users' positions |
| AMM | `controller/amm.rs`, `math/amm.rs`, `math/amm_spread.rs`, `math/cp_curve.rs`, `math/repeg.rs`, `controller/repeg.rs` | reserves, peg, spreads, fee and pnl pools | swap, repeg, update k, fee to pools | constant product; reserves stay in bounds; costs covered by fees |
| LP | `controller/lp.rs`, `math/lp.rs` | LP shares, AMM per-LP positions, remainders | mint, burn, settle, remove | LP positions and the AMM's unsettled position add up |
| funding | `controller/funding.rs`, `math/funding.rs` | cumulative funding rates, last rates of positions | update_funding_rate, settle_funding_payment | every position pays each rate once |
| pnl | `controller/pnl.rs`, `math/pnl.rs` | pnl pool, fee pool, unsettled pnl | settle_pnl, settle_expired_position, update_pool_balances | winners are paid from the pool only |
| margin | `math/margin.rs`, `state/margin_calculation.rs` | none | margin calculation | risk increasing needs initial margin |
| liquidation and bankruptcy | `controller/liquidation.rs`, `math/liquidation.rs`, `math/bankruptcy.rs` | user status bits, liquidation margin freed | liquidate perp / spot / borrow for pnl / pnl for deposit, resolve bankruptcies | enter and exit of liquidation; bankruptcy only with nothing left; insurance before depositors |
| user account | `state/user.rs`, `instructions/user.rs`, `validation/user.rs` | positions, orders, status, idle | initialize, delete, idle, delegate | a deleted account owns and owes nothing |
| market configuration | `instructions/admin.rs`, `state/perp_market.rs`, `validation/perp_market.rs` | status, paused operations, expiry, guard rails | about 90 admin instructions | a market is not removed while somebody holds a position |
| oracles | `state/oracle.rs`, `math/oracle.rs`, `state/oracle_map.rs` | historical oracle data | price validity, averages | stale or divergent prices block what depends on them |
| account maps | `state/*_map.rs`, `instructions/optional_accounts.rs`, `instructions/constraints.rs` | none | loading of accounts | (framework) |
| external venues | `state/fulfillment_params/*`, `math/serum.rs` | none | Serum and Phoenix fills | (calls to other programs) |

Everything is single threaded on chain: instructions that touch the same account are
serialised. What is hard is the *sequence*: any of them may come next, from anyone, with
prices, clock and interest as they then are, and the amounts rounded to integers at each
conversion.

### The SDK and the rest

`src/sdk/src`: account subscribers and the bulk loader (polling and websocket, results by
slot), `userMap`, `orderSubscriber` and `DLOB` (the off-chain book), `events` (log polling
and its cache), `tx` (retrying senders), `priorityFee`, `blockhashSubscriber`, and a
TypeScript copy of the program's arithmetic. Callbacks, timers and results of different
slots interleave there. `src/programs/{pyth,switchboard,token_faucet}` are test
stand-ins, `src/cli` a thin command line, `src/tests` and `src/test-scripts` tests.

## 2. Plan

Order: what protects the users' tokens first.

1. **Spot market** (done, every property proved): `SpotLedger`, `SpotWithdraw`,
   `SpotMarket`.
2. **Insurance fund** (done, every property proved): shares, stakes with pending withdraw
   requests, rebases, losses.
3. **Perp orders** (done, every property proved): order slots and their life
   cycle, the counters and open bids/asks of positions, trigger, expiry, fills with auction
   and matching.
4. **Perp market** (done, its ledger proved): positions, the curve, LP, pools, funding,
   expiry: what the market records against what its positions and pools hold.
5. **Liquidation** (done, `StatusCoherent` proved): a user's status over several markets, the pace of takeovers,
   both bankruptcies and who pays for them. It composes the operators of the perp market
   with margin, two spot markets and their insurance funds.
6. **SDK account cache** (done): the polling loader and its subscribers, shown to
   implement a specification of what a subscriber promises, with liveness (the safety
   part proved).

Left: spot orders and the flash loan of a swap (`handle_begin_swap`, `handle_end_swap`);
interest during a liquidation; the websocket subscribers and the event poller of the SDK.

Theorems worth proving next: `VaultMatchesBalances` and
`ExitMeetsMargin` of the liquidation, on top of the lemmas about the operators of
`PerpPositions` and `PerpPools` in `PerpMarketProofs`; `SurplusIsReal`, which needs a bound
on the roundings of each change of the curve.

## 3. Modules

| module | models | used by |
|---|---|---|
| `Sums` | the sum of a function over a finite set, as a cardinality and one value after the other | `SpotLedger`, `InsuranceFund`, `PerpOrders`, `PerpMarket` |
| `SpotLedger` | a spot market as a record: balances, totals, interest, averages | `SpotWithdraw` |
| `SpotWithdraw` | withdraw limits, the check of the vault, the cap on deposits | `SpotMarket` |
| `Helpers` | `on_the_hour_update`, `get_proportion_u128`, `log10_iter`, powers of ten | `SpotMarket`, `InsuranceFund` |
| `SpotMarket` | the instructions on one spot market | `MCSpotMarket`, `SpotMarketProofs` |
| `InsuranceFund` | the insurance fund of one spot market and its stakers | `MCInsuranceFund`, `InsuranceFundProofs` |
| `UserOrders` | the orders of one user in one perp market, with their counters | `PerpOrders` |
| `PerpOrders` | the instructions on the orders of one perp market | `MCPerpOrders`, `PerpOrdersProofs` |
| `Signed` | signed arithmetic: division towards zero, proportions, steps | `AmmCurve` |
| `AmmCurve` | the constant product curve, its spread reserves, repeg, k, concentration, and their cost | `PerpPositions` |
| `PerpPositions` | a position and the market's totals about positions; LP shares; funding payments | `Fees` |
| `Fees` | fees, rebates and rewards of a fill | `PerpFills` |
| `PerpFills` | one fill, with the AMM or with a maker whom the AMM may join | `PerpPools` |
| `PerpPools` | funding rates, pools, expiry price, winding down, the market at its start | `PerpMarket`, `Margin` |
| `PerpMarket` | the instructions on one perp market | `MCPerpMarket`, `PerpMarketProofs` |
| `Margin` | the margin of a user over a perp and two spot markets | `Liquidation` |
| `Liquidation` | users short of margin, liquidators, bankruptcies | `MCLiquidation`, `LiquidationProofs` |
| `AccountView` | what an account subscriber promises (abstract) | `AccountCache` |
| `AccountCache` | the polling loader and its subscribers | `MCAccountCache`, `AccountCacheProofs` |
| `InductionProofs` | induction over numbers and finite sets, functions defined by recursion, quotients | the proof modules |
| `SumsProofs` | what changes and compares sums | the proof modules |
| `SpotMarketProofs`, `InsuranceFundProofs`, `PerpOrdersProofs`, `PerpMarketProofs`, `LiquidationProofs`, `AccountCacheProofs` | the theorems about each specification | |

In every specification an action is one instruction, from its first check to its last
assignment. An instruction that fails leaves no trace on chain, so its checks are guards.
Definitions have the source's names where there is one; definitions that begin with a
capital letter name an idea the code has only inline. A definition whose comment says
*Mutant* is no part of the model: it is the form of the next definition that a plausible
mistake would give, and shows that the property that rejects it depends on the code.

### Spot market

`mk` is the `SpotMarket` account together with everybody's `SpotPosition` in it:
`scaled_balance` and `balance_type` per holder (users and pools), `deposit_balance`,
`borrow_balance`, the two cumulative interest indices, and the averages the withdraw guard
uses. `vault` and `insurance_vault` are the two token accounts. Balances are stored scaled
by an index and converted at each use, with the roundings of
`math/spot_balance.rs`: this is where the interesting cases come from, so the precisions
are constants and the arithmetic is integer arithmetic as in the code.

| action | instruction |
|---|---|
| `Deposit`, `Withdraw`, `TransferDeposit`, `DepositIntoRevenuePool` | `instructions/user.rs` |
| `ReuseSpotPosition` | `state/user.rs`: a position without balance is given to another market and back |
| `SettlePnl` | the spot side of `controller/pnl.rs` |
| `LiquidateLiability`, `LiquidateAsset` | the two legs of a spot liquidation, `controller/liquidation.rs` |
| `UpdateCumulativeInterest`, `SettleRevenueToInsuranceFund`, `ResolveSpotBankruptcy` | `instructions/keeper.rs` |
| `UpdateStatus` | `instructions/admin.rs` |

Left out: margin (a guard only, every user may borrow, be liquidated or turn bankrupt
here), paused operations, oracle averages, records and statistics of users, and a
`revenue_settle_period` of 0 (which turns settlement off). `roundings` and `transactions`
are history variables: the first is the number of tokens by which conversions may have
favoured a holder. A conversion adds what one unit of balance is worth (`UnitTokens`), an
accrual of interest what the claims grew by (`InterestRounds`). A count of roundings, one
token each, is not a bound: once the index has grown a unit is worth more than a token.

### Insurance fund

The fund is `vault`, `total_shares`, `user_shares`, `shares_base`; a stake is its shares,
base and pending request; the transfer configuration is the counter of the current epoch.
Actions: `AddStake`, `RequestRemoveStake`, `CancelRequest`, `RemoveStake`,
`TransferProtocolShares`, `SettleRevenue` (how much revenue is due is an input here),
`PayLoss` (perp and spot bankruptcies and pnl deficits), and the clock. A rebase divides
the fund's shares by a power of ten when a loss left them worth too little; a stake
follows only when its owner next uses it. Left out: `cost_basis` and user statistics,
which only report.

### Perp orders

A user is a record with its order slots, `next_order_id`, the counters `open_orders`,
`open_auctions` (account) and `position_orders` (position), `open_bids`, `open_asks` and
the position's `base_asset_amount`. Sizes count steps; prices are ranks.

| action | instruction |
|---|---|
| `PlaceOrder`, `CancelOrder`, `CancelOrders`, `ModifyOrder`, `PlaceAndTake`, `PlaceAndMake` | `instructions/user.rs` |
| `FillOrder`, `TriggerOrder`, `ForceCancelOrders`, `UpdateUserOpenOrdersCount` | `instructions/keeper.rs` |
| `UpdateStatus` | `instructions/admin.rs` |

`handle_place_orders` is a sequence of placements, and a cancellation by ids one of
cancellations; neither is an action of its own. `fill_perp_order` gives the set of books
that may result: the makers' orders are swept (`SweptUsers`) and sorted, the methods
determined, the book taken through them one by one, and what is left of a reduce-only order
cancelled when it can be filled no further (`Tidied`). The loops of the code are recursive
functions of the number of rounds. Its inputs are what other parts compute: the oracle's price, the
AMM's price, how much the AMM fills up to a price (`AmmDepths`), and what it wants of a
match (`JitAmounts`, at most half of it; that the AMM never flips its own position by it
is left out, which only adds behaviours). During an auction the price is any price up to
the limit. The band around the oracle within which a maker's price must be is a difference
(`MaxOracleDiff`), in the code a percentage.

Left out: quote amounts, fees and rewards, margin (a failing margin check undoes the whole
instruction; where the code instead cancels an order, in `TriggerOrder`, it is an input),
LP shares, users in liquidation, prices relative to the oracle's, the check of the price
of a fill against the bands (a failed instruction), other markets of the same user, and
the limit of 16 maker orders in one fill. The parameters of an order and of a modification
are any records of the types the program decodes (`OrderParams`, `ModifyOrderParams`); the
runs give a few of them.

### Perp market

A chain of modules of operators on a market record `m`, or on `[m, positions]`, each
adding one part, and `PerpMarket` on top with the variables and one action per handler.
The fields are those of `PerpMarket`, `AMM` and `PerpPosition` that some decision or
property depends on. Amounts are integers in small units (prices and quote in tenths, base
in hundredths or thousandths) and every division rounds as in the code, `Signed` giving
Rust's division of negative numbers.

The code divides and subtracts with checked operations: a division by zero, or a reserve
below zero, makes the instruction fail. The definitions that end in `Valid` (`TerminalValid`,
`KResultValid`, `AdjustAmmValid`, `UpdateAmmValid`, `LpsTakeValid` and others) say on which
states the operators they guard are defined, and the actions have them as guards. They are
written where the proofs asked for them; in the runs they cut off nothing that the code
would go on with. `MaxPerLpBase` stands for the literal 9 by which
`handle_update_perp_market_per_lp_base` bounds the exponent of the per-share unit.

| action | handler |
|---|---|
| `FillWithAmm`, `FillWithMatch` | `fulfill_perp_order` of `controller/orders.rs`, with the updates of the AMM and of funding around it |
| `AddPerpLpShares`, `RemovePerpLpShares`, `SettleLp`, `UpdatePerLpBase` | `instructions/user.rs`, `keeper.rs`, `admin.rs`, `controller/lp.rs` |
| `UpdateFundingRate`, `SettleFundingPayment` | `controller/funding.rs` |
| `UpdateAmms`, `RepegAmmCurve`, `UpdateK`, `UpdateConcentrationCoef`, `MoveAmmPrice`, `RecenterPerpMarketAmm` | `controller/repeg.rs`, `instructions/admin.rs` |
| `SettlePnl`, `DepositIntoPerpMarketFeePool`, `UpdateAmmSummaryStats` | `controller/pnl.rs`, `instructions/admin.rs` |
| `UpdatePerpMarketExpiry`, `SettleExpiredMarket`, `SettleExpiredPosition`, `SettleExpiredMarketPoolsToRevenuePool` | `instructions/admin.rs`, `controller/repeg.rs`, `controller/pnl.rs` |
| `OracleMoves`, `Tick`, `InsurancePeriodPasses` | the environment |

A `scenario` says which groups of handlers a behaviour calls, with which sizes, and its
bounds: one run covers several. Inputs: the rate that the price averages ask for, the
spreads that averages and volatility ask for, the oracle's price. Left out: margin (in
`Liquidation`), price averages, the validity of oracles, the admin's overrides of the
summary statistics (only their recomputation is there), fuel and statistics of users.

### Margin and liquidation

`Margin` computes what `calculate_margin_requirement_and_total_collateral` does from the
user's deposits and borrows, its position with provided liquidity, open orders and unpaid
funding. `Liquidation` has the four liquidations of `controller/liquidation.rs` as one
shape: begin, cancel orders or shares and perhaps stop there, take over what the pace and
the limits allow, and leave, go on or turn bankrupt. `Liquidate` is the beginning, `Settle`
the end; each handler puts its own takeover between them. Then the two bankruptcies,
`ResolvePerpPnlDeficit`, and what lets a user go by its own doing: `Deposit`, `Withdraw`,
`PlacePerpOrder`, `SettlePnl`. A `setup` is a user that one move of a price endangers,
prepared with the operators of the perp market so that it is a state the program reaches.

Left out: interest and trading between the steps (the other modules'), so the insurance
fund's revenue period does not pass within a behaviour; strict prices (averages equal the
price); the isolated tier; transfers of a liquidation in a third token.

### Account cache of the SDK

JavaScript runs one callback at a time and the continuations of resolved promises before
the next, so an action reaches from a timer, an answer or a client's call to the next
await that really waits. The loader's `accountsToLoad`, `bufferAndSlotMap`, `loadPromise`
and `mostRecentSlot` and the subscriber's `user` are variables with those names. A request
under way remembers its chunks and which of their objects were emptied since, as an
`AccountToLoad` that loses its last callback is dropped and a new one made when the key is
added again. `status` is how far `subscribe()` got: off, waiting for the load under way,
fetching, on, or hung on a promise that a later load replaced.

The chain and the nodes are external. Faults: a node answers for any slot up to the
current one; answers overtake each other; a request fails, or gets no answer in ten
seconds; a chunk comes without a result; a load is found pending after a minute (the
process slept or the clock was set) and a second one starts beside it; accounts are
closed, created, removed and added again meanwhile.

`AccountView` is the specification: every copy is what the chain held at its slot, it
never goes back, and a watched account that exists is caught up with. `AccountCache`
implements it with `view <- user` and the chain seen per subscriber. Two subscribers of
one account are exempt from catching up, see below. Left out: error callbacks, a callback
that throws, two calls of `subscribe()` at once, a polling frequency of 0.

## 4. Runs

On chain nothing happens unless somebody sends a transaction, and nobody has to: the
specifications of the program state no fairness. Their behaviours end when the bound on
transactions and time is reached, hence `CHECK_DEADLOCK FALSE`. Users and stakers are
interchangeable there, in the initial states and in all properties, so those runs reduce
by symmetry; scenarios that single out a user come once per user.

`AccountCache` has no bound on polls and states fairness: weak on the interval's timer and
on the timeout of requests, which the event loop guarantees, and strong on an answer for
the current slot to a request about an account: a node that is asked again and again is
not behind or unreachable for ever, which is an assumption about the environment. Clients
owe nothing. That run uses no symmetry.

| run | shows |
|---|---|
| `spot_safety` | in every order of four transactions and one tick: `LedgerConserved` (the totals equal the holders' balances), `DepositsCovered`, `VaultCoversClaims` (the vault holds the depositors' claim, deposits less borrows, up to the counted roundings), `InsurancePaysFirst` (depositors lose only when the insurance fund is used up), `LimitsNeedTime` (withdraw limits do not move within a second) |
| `spot_interest` | with finer indices and five seconds: `InterestIsPaidByBorrowers` (claims grow by at most two tokens of rounding) and `InterestIsNotSkipped` (the interest clock moves only when both indices grow: an update that rounds either side's interest to nothing leaves the timestamp, so that the interest is not lost; only a bankruptcy's loss may be taken out of the deposit index in the same step) |
| `insurance_shares` | `EpochCapHolds` over three epochs, `SharesAddUp`, `SharesAreBacked`, `NobodyIsDiluted` (a newcomer pays the price after due revenue, and a loss takes no more from a stake than its part), `EscrowDoesNotEarn` (a request that is cancelled keeps nothing of what the fund earned meanwhile), with a loss that forces a rebase |
| `orders_life` | six kinds of order through their whole life: `CountersMatchSlots`, `OpenBidsAndAsksMatch`, `PositionsBalance`, `NoImmediateOrderStays`, `NoFillAfterExpiry` |
| `orders_matching` | three users, so that a taker meets two makers: `ReduceOnlyReduces`: reduce-only orders, also two of one maker in one fill, never increase or flip a position; `BestPriceFirst`: a better maker price is used up before a worse one is touched, of one maker or of two |
| `perp_lp` | trading, liquidity provision, funding and admin changes of the curve: `PositionTotalsMatch` (what the market records is what positions hold), `FundingOwedOnce` (against a history of every rate added), `MarketStaysValid` (no legal sequence reaches a market its own validation refuses), `LastLpCanLeave` |
| `perp_pools` | four scenarios. Curve updates between fills under a moving oracle and funding, the same around a match with a maker, and fills with rewards: `SurplusIsReal` (the recorded surplus is what would be left if every position closed, up to counted roundings). Winding a market down: `TokensConserved`, `SettlementAffordable` |
| `liquidation` | eight kinds of user in danger, prices that fall and recover, two actors: `StatusCoherent`, `ExitMeetsMargin` (nobody is let go short of margin), `PaceHolds` (all liquidators together free no more than the schedule allows), `ClaimsStayBacked` and `VaultMatchesBalances` (what is taken over, insured and socialised adds up) |
| `sdk_cache` | `CacheFits`, `ImplementsAccountView` (refinement, safety and liveness), `PollingRecovers` (no failure leaves a load pending) |

Why the bounds are enough to meet the cases. Two users are a depositor and a borrower, a
taker and a maker; `orders_matching` has three, a taker and two makers that compete. Amounts are chosen against
the precisions: one token is more than one unit of balance in `spot_safety`, so that
roundings of both signs happen; the larger amount reaches the deposit cap, the limits and
full utilisation. Four transactions are a deposit, a borrow, something that moves the
index or the balances, and an exit. In `insurance_shares` the loss of 300
takes all but one token of a vault of 100 or 200, which forces the rebase; three seconds
are three epochs, so that a transfer can be two epochs late. Orders of two steps can be filled
in parts; two slots hold two orders that compete for one position; three transactions are
a placement, a trigger or a competing order, and a fill, with the clock passing the
auction and `max_ts` in between.

In `perp_lp` four transactions are a fill, a change of what LPs hold, a rate or a recentred
curve, and a settlement or exit, with an LP there from the start or not; 130 base against a
step of 10 and 330 shares leave remainders. In `perp_pools` three transactions of
`CurveUpdates` are a fill and two changes of the curve, or a change between two fills, with
no LP, one or two; a match, which only reaches the curve through the AMM's part of it, is
followed or preceded by one other. `WindingDown` has five: a fill each way, a
settlement, the expiry price and a position or the pools. In `liquidation` three
transactions are two takeovers, or a takeover, a bankruptcy and its resolution, while
prices move at no cost; each setup is its own initial state. In `sdk_cache` the layouts put
two accounts into one chunk, two requests and two chunks of one request; the lone
subscriber sees three slots and an overlapping load; polls are unbounded.

### Where the code and its own words disagree

Three runs expect a violation; `PROJECT.json` has the finding with the quoted line:

- `orders_jitorder`: `place_and_make` with a `max_ts` in the past goes on with the user's
  previous order as if it had just been placed, and cancels it at the end. The same property
  fails with three users when another maker's resting order has the id of the new order,
  as ids are unique per user only.
- `perp_sides`: an LP settlement whose remainder closes a position exactly counts as a
  flip: each side's open interest keeps an amount that nobody holds.
- `liquidation_feepool`: what the fee pool pays for a bankruptcy stays in
  `total_fee_minus_distributions`, which later repegs and withdrawals count on.

### Behaviours to know

Met while modelling. The model reproduces them as they are, and no property states them.

- Each partial repayment takes one unit of balance more off a debt than was paid for
  (`controller/spot_balance.rs:227`). With nine decimals a unit is one token: three tokens
  borrowed and one repaid twice leave no debt, and a vault one token below
  deposits - borrows, which `state/spot_market.rs:39` says it never is. From then on the
  instructions that compare the two fail until other roundings have made up for it. A
  borrow smaller than one unit (`math/spot_balance.rs:26`) records no debt at all.
  `VaultCoversClaims` allows for both: it shows that nothing else comes between the vault
  and the claims, and does not catch these two.
- A partial withdrawal may leave a balance worth no token, which `handle_deposit` calls
  invalid.
- What the fee pool pays for a perp bankruptcy is credited to nobody
  (`controller/liquidation.rs:2273`): the tokens stay in the vault and in no balance.
  `VaultMatchesBalances` and `ClaimsStayBacked` set that payment apart with the history
  variable `fee_pool_paid`, and hold for everything else.
- A pending unstake request of fewer shares than the rebase divisor becomes zero shares
  (`controller/insurance.rs:177`) while its value stays set.
- `fill_perp_order` accepts a market in status ReduceOnly: an order placed earlier may
  still open a position (`controller/orders.rs:912`).
- `handle_update_perp_market_expiry` reopens a market that was already settled.
- The LPs' slice of a fee is paid to them and counted in `total_fee_minus_distributions`.
- Burning LP shares writes a position's remainder off without counting a user less in
  `number_of_users_with_base` (`controller/lp.rs`, `burn_lp_shares`). The count may stay
  above the number of holders, and the pools of an expired market, which are swept only
  when it is 0, then stay where they are. It is never below: `SweptOnlyWhenClosed`.
- A rebase of the per-share totals to a coarser unit loses what is below it, and then
  `LastLpCanLeave` fails; the runs only refine the unit.
- A perp bankruptcy cannot be resolved while nobody holds base, as there is nobody to
  socialise the loss to.
- `liquidate_perp` fails when the margin ratio with its buffer is not above the
  liquidator's fee: the base to cover is then `u64::MAX` and rounding it up to a step
  overflows. `calculate_asset_transfer...` subtracts 6 from the asset's decimals, which
  fails for tokens with fewer.
- A second subscriber of an account is called back on changes only. If what it fetched for
  itself was older than what the loader already had, it stays behind until the next change.
- The loader compares bytes, not slots: an account that returns to bytes the loader has
  cached is not passed on to a subscriber whose own fetch was in between. The model writes
  fresh contents only.
- A subscriber that waits for a load which is then given up after a minute waits for ever;
  its copy is still updated.

## 5. Proofs

Each theorem holds for every value of the constants that the named assumptions allow: any
finite number of users, holders, stakers, slots, accounts and requests, any precisions,
rates, caps, prices, amounts and order parameters. The bounds on transactions and time are
arbitrary numbers there. TLC evaluates the assumptions in every run.

| module | theorem | states |
|---|---|---|
| `SpotMarketProofs` | `TypeCorrect`, `LedgerIsConserved`, `DepositsAreCovered`, `Invariance` | `TypeOK`, `LedgerConserved`, `DepositsCovered`, and the invariant behind them |
| | `VaultAlwaysCoversClaims`, `InterestAlwaysPaidByBorrowers` | `VaultCoversClaims`, `InterestIsPaidByBorrowers` |
| | `InterestNeverSkipped`, `LimitsAlwaysNeedTime`, `InsuranceAlwaysPaysFirst` | the action properties `InterestIsNotSkipped`, `LimitsNeedTime`, `InsurancePaysFirst` |
| `InsuranceFundProofs` | `TypeCorrect`, `SharesAlwaysAddUp`, `SharesAlwaysBacked`, `EpochCapAlwaysHolds` | `TypeOK`, `SharesAddUp`, `SharesAreBacked`, `EpochCapHolds` |
| | `NobodyIsEverDiluted`, `EscrowNeverEarns` | the action properties `NobodyIsDiluted`, `EscrowDoesNotEarn` |
| `PerpOrdersProofs` | `TypeCorrect`, `CountersAlwaysMatch`, `BidsAndAsksAlwaysMatch`, `PositionsAlwaysBalance`, `NoImmediateOrderEverStays` | the invariants `TypeOK`, `CountersMatchSlots`, `OpenBidsAndAsksMatch`, `PositionsBalance`, `NoImmediateOrderStays` |
| | `ExpiredOrdersNeverFill`, `ReduceOnlyAlwaysReduces`, `BestPriceAlwaysFirst` | the action properties `NoFillAfterExpiry`, `ReduceOnlyReduces`, `BestPriceFirst` |
| `PerpMarketProofs` | `TypeCorrect`, `PositionTotalsAlwaysMatch`, `FundingAlwaysOwedOnce`, `TokensAlwaysConserved`, `InductiveInvariant` | the invariants `TypeOK`, `PositionTotalsMatch`, `FundingOwedOnce`, `TokensConserved`, and the invariant behind them |
| | `NetBaseAlwaysMatches` | `NetBaseMatches(market)`, the part of `MarketStaysValid` about what users hold against the AMM and LPs |
| | `SidesWholeAndWithdrawLimited` | three more parts of `MarketStaysValid`, in every status of the market: each side's open interest is a number of whole steps, and what the market gave to or drew from the revenue pool in a period stays within `max_revenue_withdraw_per_period` |
| | `SweptOnlyWhenClosed` | an action property: the pools of an expired market are swept only when no position holds base |
| `LiquidationProofs` | `StatusAlwaysCoherent` | `StatusCoherent` |
| `AccountCacheProofs` | `CacheFitsTheorem`, `ImplementsSafeView` | `CacheFits`, and the refinement of `AccountView!SafetySpec` |

Every proof module has the same layers: facts about the operators of the model, one lemma
each; one lemma per action that it keeps the inductive invariant (`Inv`, in
`PerpMarketProofs` `IInv`); the theorems, by temporal logic.

### Induction

The library's induction theorems take an operator as a parameter, which the installed
provers cannot instantiate. `InductionProofs` states induction with *sets* instead: a
property is the set of the numbers (or finite sets) that have it. It derives this from the
library's theorem that strict inclusion between finite sets is well-founded, and from it
that a function defined by recursion on the number of rounds exists and takes its values
where each round does (`RecursionExists`, `NatRecursionExists`, `RunsAgree`). Sums are
cardinalities of sets of pairs (`Sums`): `SumsProofs` shows what one changed argument does
to a sum, that sums add, and that larger terms have a larger sum.

### Spot market

`Inv` is `TypeOK` with a sound ledger and timely clocks. The ledger is sound when the
totals are what the balances add up to, pools never owe, and the borrow index is positive.
None of the parts is inductive alone: that a total stays a natural number when a balance
is taken off it needs that the total is the sum of the balances; that the sum changes by
exactly one holder's change needs the totals before; that a division is defined needs the
positive index. That clocks do not run ahead is what makes the elapsed time of an interest
update and of an average a natural number.

`VaultCoversClaims` is inductive relative to `Inv`. Per update of a balance, the claim
(deposits less borrows, in tokens) changes by the tokens that moved, up to `Rounds`: this is
where floor and ceiling of `math/spot_balance.rs` meet, and the case split follows
`update_spot_balances`. `InterestIsPaidByBorrowers` is the one with products of three
factors. Utilization is rounded down of token amounts that are themselves rounded; the
proof bounds what lenders and stakers are credited by what borrowers are charged, plus one
token from the utilization and one from the conversion of the totals. One token is not
enough, and without the premise that the highest rate has earned no more than half since
the last accrual nothing is: TLC has small counterexamples of both.

The action properties follow from a description of what each operator does to the
indices, the clocks and the averages (`Moves` in `SpotMarketProofs`), composed along the instruction.

### Insurance fund

`Inv` says that every stake, divided by the power of ten of the rebases it has missed,
together own no more than the users' shares, that no stake is ahead of the fund's base, no
request exceeds its stake, and the vault is not empty while there are shares. The rebases a
stake catches up with at once must give no more than one by one: that is
`(a \div 10^m) \div 10^n = a \div 10^(m+n)` (`DivTwice` and powers by recursion) and that
the quotients of a sum's terms add up to no more than the quotient of the sum. For the cap
`Inv` adds that the epochs to come have given nothing away, and that the counter of the
current one is not below what the history has of it.

The action properties compare what a stake is worth before and after an instruction, each
rounded. Along an instruction the shares are divided by d, the fund trades shares for
tokens, and the stake is divided by d too. The exponent of d is the logarithm of a tenth of
the shares per token, so (d - 1) * vault is not above the shares, and the division costs
less than a token (`DivisionKeepsValue`); every trade is at the price or better for the
fund (`RevenueBuysShares`, `TradeKeepsValue`). A loss is compared with the same payment
without the revenue that is settled before it: a fund that settles revenue and pays as
much at once may end with as many tokens and a lower price, since the protocol got shares
for the revenue. A cancelled request keeps k = value * (shares - n) / (vault - value) of
its n shares, rounded down, and k * vault is then not above value * (shares - n + k)
(`KeptSharesAreWorthValue`).

### Perp orders

`Inv`: every account is sound and the AMM's position mirrors the users'. An account is
sound when each slot is empty or holds an open order with something left to fill, an order
that waits for its trigger is unfilled and in no auction, a post-only order is a limit
order, the open orders have ids of their own, all below `next_order_id`, and `open_orders`,
`open_auctions`, `open_bids`, `open_asks` are the sums over the slots. The last part is
stronger than the properties and makes them inductive: every operator of `UserOrders`
changes one slot, hence each sum by one difference.

Within an instruction an order that must be filled at once may be in a slot. Soundness
therefore takes the id of the order that may; at the end of the instruction it is none.
The loops (`cancel_orders`, the methods of a fill) are handled by `RecursionExists`: every
round goes from a book to a book in which each account is sound and each order is what is
left of the one it was (`Books`, `OrdersLeft`).

For the action properties the same induction carries how far each position has moved:
towards the side it trades, by live orders that are not expired and, if all orders on that
side are reduce-only, not past zero (`Moves`, `MovedBooks`). The lemma `NextInv` is
`Inv /\ [Next]_vars => Inv' /\ StepIsSound`; two of the properties are consequences of its
first part, `StepMoves`, the third is its second part, `StepInOrder`. TLC checked `Inv` on
the constants of both order runs before it was proved.

`BestPriceFirst` follows a fill from the list of makers to the accounts it leaves:

1. `BestFirst` lists every order the sweep left, in price order, and
   `determine_perp_fulfillment_methods` keeps that order and leaves out no better order
   before a worse one (`EveryMakerListed`, `MethodsInOrder`, `BetterListedBefore`): the
   limit on methods and the limit price end the list, neither makes a hole in it.
2. A method touches the taker's order and one maker order. A match either uses up the
   maker's post-only order or exhausts the taker's, after which no method does anything
   (`MatchUsesUp`, `FulfillInTurn`). A post-only order is needed here: what a reduce-only
   one may fill is capped by the position, not by its size.
3. Hence a worse order that was touched was reached by a taker that was not exhausted, and
   the better order is gone (`BetterGoneFirst`). Whatever the sweep cancels of the worse
   orders it cancels of the better ones too: a better price is further beyond the oracle's
   (`BetterIsDropped`).
4. The instructions around the fill: `place_and_take` cancels what is left of the order it
   placed by its id, which no other open order has (`OtherOrdersStay`, the reason for the
   own ids in `Inv`); `place_and_make` fills only with the order it has just placed, unless
   it is misused (`jit_misused`, the finding above; `NoJitOrderThere`).

The proof corrected the property: without the condition that both makers are on the same
side, and that `place_and_make` was not misused, it does not hold with three users.

### Perp market

`IInv` has three parts. `Ledger`: the market is well formed (`Market`: every amount an
integer, reserves, `sqrt_k` and the concentration positive, spreads and the unit per share
within their bounds, no negative number of shares, whole steps on each side, withdrawals
within their limit), every position is (`Position`: its base
a multiple of the step, its remainder smaller than a step), the totals of the market are those of the positions, the net base is 0 and `FundingOwedOnce`.
`Pools`: no pool is below 0 and tokens are conserved. `Environment`: the inputs.

`PositionTotalsMatch` is not inductive alone. That a total moves by as much as a position
does depends on which branch `get_position_update_type` takes, which depends on the signs
and the multiples of the step; that these stay depends on the market being well formed, so
that the amounts of a swap or of an LP's part are numbers at all. Every operator that
touches a position and a market therefore has a lemma that it is `Booked`: each total moves
as the position does, the status, rates and pools stay, and the net base shifts by a stated
amount. The shift is what makes the handlers compose: a user's side of a fill shifts the net
base by what it trades, the AMM's, a maker's or the LPs' side shifts it back, and the sum
along a handler is 0. `Reached` carries this along a handler from operator to operator,
together with which users have paid their funding.

`FundingOwedOnce` compares with a history of every rate that was added. The invariant is
needed for the order of steps: an operator that changes a position's base does so after
`settle_funding_payment` (`FundingUpToDate`), all others keep base and last rate
(`SameFunding`), and the handler that adds a rate changes no position.

`TokensConserved` needs that pools are not overdrawn: each transfer (`update_pool_balances`,
the revenue transfers, the settlement of pnl, the sweep) is bounded by what the pool it
takes from has, and the bounds are different in each branch.

`SidesWholeAndWithdrawLimited` is part of the well-formed market. A side is whole because
what `UpdateOpenInterest` adds to it or moves across it is always a position's base before
or after the change, never an LP's remainder. The limit needs its own lower bound: the
transfer to the revenue pool is capped by what was withdrawn plus the limit, which is a
cap only as long as no more than the limit was withdrawn, and the same holds the other way
round for what the market draws from the pool.

The number of users with base is the one total that is only an inequality: it is at least
the number of holders, as a burn writes a remainder off without counting it. That direction
is enough for `SweptOnlyWhenClosed`.

What is assumed of the constants (`PositionsAssumption`, `FillsAssumption`,
`FeesAssumption`, `PoolsAssumption`, `ScenarioAssumption`, `EnvironmentAssumption`): a
positive step and precisions, finitely many users, scenarios that start with numbers where
the code has unsigned ones and order sizes that are multiples of the step, as
`validation/order.rs` ensures, and that a step of the totals per share is at most
`AMM_RESERVE_PRECISION` (10^9 in the code, with exponents up to 9).

### Liquidation

The inductive invariant is `Sound`: every user has a status and a balance in both spot
markets (`SetupsAssumption` says so of the setups that a behaviour starts with), and one
that is marked bankrupt is not being liquidated and is bankrupt in the sense of
`is_user_bankrupt`. No arithmetic of margin is needed, only who may be touched: a
step works on the holdings of some users and keeps all marks (`Works`), and those users are
not marked bankrupt, since every liquidation and every instruction of the user checks it.
Two instructions do touch a marked user. The resolution of one debt removes the mark in its
last step unless the user is still bankrupt. And the loss of a spot bankruptcy that is
socialised lowers everybody's deposits, but a marked user has none.

### Account cache

`Inv`: the loader's list has every key that somebody asks for, once; a request under way has
as many objects as keys, position by position, and an object that is not empty is asked
for; what is stored is what the chain held at its slot. The invariant must speak about the
requests since an answer is applied long after they were made. `ImplementsSafeView` shows
for every step that each subscriber's copy stays, or is replaced by one that
`AccountView` allows.

### What stays with TLC

Liveness and `ENABLED` are out of the provers' reach: `PollingRecovers` and the fairness of
`AccountView`. Of the perp market, `SurplusIsReal` and `SettlementAffordable` (bounds on
the roundings of the curve, which hold for a `MaxRounding` that fits the instance),
`LastLpCanLeave` and the parts of `MarketStaysValid` other than the net base, the whole
steps of each side and the limit of withdrawals (what is left over of the per-share
totals, products of reserves against k). Of the liquidation, `ExitMeetsMargin`,
`PaceHolds`, `VaultMatchesBalances` and `ClaimsStayBacked`: their operators are chains of
roundings of signed quotients, and the two about the vault need besides that a loss is
never larger than the deposits that share it, which the amounts of a run ensure.

## 6. What is not modelled

Spot orders and their fulfilment, swaps, price averages and the spreads they ask for, the
validity of oracles, external venues (Serum, Phoenix), account loading and constraints
(the framework's), admin instructions that assign one parameter, statistics and records.
Of the SDK: the websocket subscribers, which rely on one node sending in order and restart
without fetching, the user map and order book (rebuilt from the cached accounts), events,
transaction senders, and the TypeScript copy of the program's arithmetic. `PROJECT.json`
lists each part with the reason.
