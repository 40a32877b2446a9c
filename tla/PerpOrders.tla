------------------------------ MODULE PerpOrders ------------------------------
(***************************************************************************)
(* The order book of one perp market: users place, modify and cancel       *)
(* orders; keepers fill, trigger and expire them (controller/orders.rs,    *)
(* instructions/user.rs, instructions/keeper.rs).  Each action is one      *)
(* instruction; a check that fails makes it change nothing.                *)
(*                                                                         *)
(* A fill may go through several makers and the AMM.  What the AMM offers  *)
(* is an input: its price, how much it fills up to each price (AmmDepths), *)
(* and its share of a match (jit).  Margin is left out: that a user may    *)
(* not place or fill for want of collateral only removes behaviours.       *)
(***************************************************************************)
EXTENDS UserOrders, SequencesExt, Sums

CONSTANTS
  Users,
  Params,              \* the order parameters users place
  Changes,             \* the parameters a modification gives
  InitialPositions,    \* positions from earlier trades
  AmmDepths,           \* what the AMM fills: functions on Prices and 0
  JitAmounts,          \* what the AMM wants of a match
  MaxOracleDiff,       \* how far a maker's price may be beyond the oracle's
  Statuses,            \* the MarketStatus values an admin may set
  MaxSlot, MaxTime,    \* bounds on the clocks
  MaxTransactions      \* bound on the transactions of a behaviour

ASSUME BookAssumption ==
  /\ IsFiniteSet(Users)
  /\ Params \subseteq OrderParams
  /\ \A change \in Changes : \A f \in DOMAIN change :
       f \in DOMAIN ModifyOrderParams /\ change[f] \in ModifyOrderParams[f]
  /\ InitialPositions \subseteq Int
  /\ AmmDepths \subseteq [Prices \cup {0} -> Nat]
  /\ JitAmounts \subseteq Nat
  /\ MaxOracleDiff \in Nat
  /\ Statuses \subseteq {"Active", "ReduceOnly"}
  /\ MaxSlot \in Nat /\ MaxTime \in Nat /\ MaxTransactions \in Nat

VARIABLES
  users,                       \* the account of every user
  base_asset_amount_with_amm,  \* what the users hold against the AMM
  status,                      \* market.status
  slot, now,                   \* Clock
  jit_misused,                 \* history: place_and_make took another order
  transactions                 \* history: transactions so far

vars == <<users, base_asset_amount_with_amm, status, slot, now, jit_misused, transactions>>

PositionsOf(us) == IntegerSumOf([u \in Users |-> us[u].base_asset_amount])

Init ==
  /\ users \in {[u \in Users |-> NewUser(p[u])] : p \in [Users -> InitialPositions]}
  /\ base_asset_amount_with_amm = PositionsOf(users)
  /\ status = "Active"
  /\ slot = 0
  /\ now = 0
  /\ jit_misused = FALSE
  /\ transactions = 0

CountTransaction ==
  /\ transactions < MaxTransactions
  /\ transactions' = transactions + 1

(* A slot passes, and perhaps a second.                                    *)
Tick(seconds) ==
  /\ slot < MaxSlot
  /\ now + seconds <= MaxTime
  /\ slot' = slot + 1
  /\ now' = now + seconds
  /\ UNCHANGED <<users, base_asset_amount_with_amm, status, jit_misused, transactions>>

(***************************************************************************)
(* Makers.                                                                 *)
(***************************************************************************)

(* For a taker that goes `direction': price p is no worse than price q.    *)
NoWorse(direction, p, q) == Signed(direction, p) <= Signed(direction, q)

do_orders_cross(taker_direction, maker_price, taker_price) ==
  NoWorse(taker_direction, maker_price, taker_price)

is_maker_for_taker(maker_order, taker_order) ==
  /\ slot = maker_order.slot /\ slot = taker_order.slot => is_jit_maker(maker_order)
  /\ ~taker_order.post_only
  /\ is_resting_limit_order(maker_order, slot)
  /\ \/ ~is_resting_limit_order(taker_order, slot)
     \/ maker_order.post_only
     \/ maker_order.slot + maker_order.auction_duration
          <= taker_order.slot + taker_order.auction_duration

NoJit == -1

(* The orders of maker m that may meet order o (find_maker_orders).        *)
Candidates(m, o, jit_maker_order_id) ==
  {j \in Slots :
     LET k == m.orders[j]
     IN  /\ IsLive(k)
         /\ is_limit_order(k)
         /\ k.direction = OppositeSide(o.direction)
         /\ is_maker_for_taker(k, o)
         /\ jit_maker_order_id # NoJit => k.order_id = jit_maker_order_id}

(* The percentage of the code is a difference of prices here.              *)
limit_price_breaches_maker_oracle_price_bands(k, oracle_price) ==
  Signed(k.direction, k.price) - Signed(k.direction, oracle_price) >= MaxOracleDiff

(* Mutant: expired orders of makers are matched.                           *)
DroppedButExpired(m, o, jit_maker_order_id, oracle_price) ==
  {j \in Candidates(m, o, jit_maker_order_id) :
     LET k == m.orders[j]
     IN  \/ limit_price_breaches_maker_oracle_price_bands(k, oracle_price)
         \/ should_cancel_reduce_only_order(k, m.base_asset_amount)}

(* The ones among them that are cancelled instead.                         *)
Dropped(m, o, jit_maker_order_id, oracle_price) ==
  {j \in Candidates(m, o, jit_maker_order_id) :
     LET k == m.orders[j]
     IN  \/ limit_price_breaches_maker_oracle_price_bands(k, oracle_price)
         \/ should_expire_order(k, now)
         \/ should_cancel_reduce_only_order(k, m.base_asset_amount)}

(* Mutant: the worst price comes first.                                    *)
WorstFirst(us, direction, infos) ==
  {s \in SetToSeqs(infos) :
     \A a, b \in DOMAIN s : a < b =>
       NoWorse(direction, us[s[b][1]].orders[s[b][2]].price, us[s[a][1]].orders[s[a][2]].price)}

(* insert_maker_order_info: best price for the taker first; which of two   *)
(* equal prices comes first is left open by the binary search.             *)
BestFirst(us, direction, infos) ==
  {s \in SetToSeqs(infos) :
     \A a, b \in DOMAIN s : a < b =>
       NoWorse(direction, us[s[a][1]].orders[s[a][2]].price, us[s[b][1]].orders[s[b][2]].price)}

(***************************************************************************)
(* Fulfillment of order i of user t.  A book is the users and what they    *)
(* hold against the AMM.                                                   *)
(***************************************************************************)

AMM(price) == [kind |-> "AMM", price |-> price, maker |-> 0, index |-> 0]
Match(info, price) == [kind |-> "Match", price |-> price, maker |-> info[1], index |-> info[2]]

MaxMethods == 6

(* For an order o with this limit price, 0 for none: price p is good       *)
(* enough.                                                                 *)
Crosses(o, limit_price, p) == limit_price = 0 \/ do_orders_cross(o.direction, p, limit_price)

(* One maker order more: the AMM before it when it is better.  The makers  *)
(* are sorted, so the first that does not cross ends the loop.             *)
AddMethod(acc, o, info, price, limit_price, can_fill_with_amm) ==
  LET amm_first == can_fill_with_amm /\ ~NoWorse(o.direction, price, acc.amm_price)
      match == Append(acc.methods, Match(info, price))
      amm_and_match == Append(Append(acc.methods, AMM(price)), Match(info, price))
  IN  IF ~Crosses(o, limit_price, price) \/ Len(acc.methods) > MaxMethods THEN acc
      ELSE IF amm_first THEN [methods |-> amm_and_match, amm_price |-> price]
      ELSE [methods |-> match, amm_price |-> acc.amm_price]

(* Makers the taker crosses, the AMM before each one it is better than,    *)
(* and the AMM at the end.  The price is 0 when the AMM has no maker to    *)
(* stop at.                                                                *)
determine_perp_fulfillment_methods(us, o, infos, limit_price, amm_price, can_fill_with_amm) ==
  LET price(info) == us[info[1]].orders[info[2]].price
      after[n \in 0 .. Len(infos)] ==
        IF n = 0 THEN [methods |-> <<>>, amm_price |-> amm_price]
        ELSE AddMethod(after[n - 1], o, infos[n], price(infos[n]), limit_price, can_fill_with_amm)
      all == after[Len(infos)]
  IN  IF o.post_only
        THEN IF can_fill_with_amm /\ NoWorse(o.direction, amm_price, limit_price)
               THEN <<AMM(0)>> ELSE <<>>
        ELSE IF can_fill_with_amm /\ Crosses(o, limit_price, all.amm_price)
               THEN Append(all.methods, AMM(0)) ELSE all.methods

AmmSizeThreshold(u) == IF AbsOf(u.base_asset_amount) > min_order_size THEN min_order_size ELSE 1

(* Mutant: the AMM fills the order's size, not what is left of it.         *)
fill_whole_size_with_amm(book, t, i, amount) ==
  LET u == book.users[t]
      o == u.orders[i]
      filled == LesserOf(amount, o.base_asset_amount)
  IN  IF filled < AmmSizeThreshold(u) THEN book
      ELSE [ users |-> [book.users EXCEPT ![t] = FillSlot(u, i, filled)],
             amm |-> book.amm + Signed(o.direction, filled) ]

fulfill_perp_order_with_amm(book, t, i, amount) ==
  LET u == book.users[t]
      o == u.orders[i]
      filled == LesserOf(amount, get_base_asset_amount_unfilled(o, u.base_asset_amount))
  IN  IF filled < AmmSizeThreshold(u) THEN book
      ELSE [ users |-> [book.users EXCEPT ![t] = FillSlot(u, i, filled)],
             amm |-> book.amm + Signed(o.direction, filled) ]

(* Mutant: the maker's amount is not reduced by what the AMM took.         *)
match_with_stale_amount(book, t, i, m, j, taker_price, jit) ==
  LET taker == book.users[t]
      maker == book.users[m]
      o == taker.orders[i]
      k == maker.orders[j]
      maker_amount == get_base_asset_amount_unfilled(k, maker.base_asset_amount)
      matched == LesserOf(maker_amount, get_base_asset_amount_unfilled(o, taker.base_asset_amount))
      after == fulfill_perp_order_with_amm(book, t, i, LesserOf(jit, matched \div 2))
  IN  IF ~do_orders_cross(o.direction, k.price, taker_price) \/ matched = 0 THEN book
      ELSE [after EXCEPT !.users[t] = FillSlot(@, i, LesserOf(matched, Unfilled(@.orders[i]))),
                         !.users[m] = FillSlot(@, j, matched)]

(* The AMM takes its share first, at most half; the maker gets the rest.   *)
fulfill_perp_order_with_match(book, t, i, m, j, taker_price, jit) ==
  LET taker == book.users[t]
      maker == book.users[m]
      o == taker.orders[i]
      k == maker.orders[j]
      maker_amount == get_base_asset_amount_unfilled(k, maker.base_asset_amount)
      matched == LesserOf(maker_amount, get_base_asset_amount_unfilled(o, taker.base_asset_amount))
      after == fulfill_perp_order_with_amm(book, t, i, LesserOf(jit, matched \div 2))
      left == after.users[t]
      amount == LesserOf(maker_amount, get_base_asset_amount_unfilled(left.orders[i], left.base_asset_amount))
  IN  IF ~do_orders_cross(o.direction, k.price, taker_price) \/ matched = 0 THEN book
      ELSE [after EXCEPT !.users[t] = FillSlot(@, i, amount), !.users[m] = FillSlot(@, j, amount)]

(* The next method, unless the order is filled.                            *)
FulfillWith(book, t, i, method, taker_price, depth, jit) ==
  IF ~IsOpen(book.users[t].orders[i]) THEN book
  ELSE IF method.kind = "AMM" THEN fulfill_perp_order_with_amm(book, t, i, depth[method.price])
  ELSE fulfill_perp_order_with_match(book, t, i, method.maker, method.index, taker_price, jit)

fulfill_perp_order(book, t, i, methods, taker_price, depth, jit) ==
  LET after[n \in 0 .. Len(methods)] ==
        IF n = 0 THEN book
        ELSE FulfillWith(after[n - 1], t, i, methods[n], taker_price, depth, jit)
  IN  after[Len(methods)]

(* FillMode::get_limit_price: place_and_take uses the end of the auction.  *)
FillLimitPrices(o, is_place_and_take) ==
  IF is_place_and_take /\ has_auction(o) THEN AuctionPrices(o) ELSE LimitPrices(o, slot)

(* The limit price and the price a match uses: the AMM's when there is no  *)
(* limit.                                                                  *)
TakerPrices(o, is_place_and_take) ==
  UNION {{limit_price} \X (IF limit_price = 0 THEN Prices ELSE {limit_price}) :
           limit_price \in FillLimitPrices(o, is_place_and_take)}

AmmIsAvailable(o) == is_auction_complete(o.slot, min_auction_duration, slot)

(* fill_perp_order refuses to try: nobody to fill a limit order, or one    *)
(* that has expired so recently that its owner may still replace it.       *)
IsImpossibleFill(o, makers) ==
  \/ ~AmmIsAvailable(o) /\ makers = {} /\ is_limit_order(o)
  \/ should_expire_order(o, now) /\ is_limit_order(o) /\ ~should_expire_order(o, now - ExpiryBuffer)

CancelIf(u, i, condition) == IF condition THEN cancel_order(u, i) ELSE u

(* get_maker_orders_info: the orders of the makers that may not be filled  *)
(* any more are cancelled ...                                              *)
SweptUsers(us, t, o, makers, jit_maker_order_id, oracle_price) ==
  [m \in Users |->
     IF m \in makers \ {t} THEN CancelAll(us[m], Dropped(us[m], o, jit_maker_order_id, oracle_price))
     ELSE us[m]]

(* ... and the others are what order o may be filled with.                 *)
MakerOrders(us, t, o, makers, jit_maker_order_id, oracle_price) ==
  UNION {{m} \X (Candidates(us[m], o, jit_maker_order_id)
                   \ Dropped(us[m], o, jit_maker_order_id, oracle_price)) : m \in makers \ {t}}

(* What is left of a reduce-only order that can be filled no further goes. *)
Tidied(book, t, i) ==
  [book EXCEPT !.users[t] =
     CancelIf(@, i, should_cancel_reduce_only_order(@.orders[i], @.base_asset_amount))]

(* What may become of the users `us' when order i of t is filled with the  *)
(* accounts `makers'.  Makers' orders are swept first; the fill is given   *)
(* up when the oracle is too far from its average.                         *)
fill_perp_order(us, t, i, makers, jit_maker_order_id, oracle_price, is_place_and_take) ==
  LET o == us[t].orders[i]
      swept == SweptUsers(us, t, o, makers, jit_maker_order_id, oracle_price)
      infos == MakerOrders(us, t, o, makers, jit_maker_order_id, oracle_price)
      book == [users |-> swept, amm |-> base_asset_amount_with_amm]
      filled(infoseq, prices, amm_price, depth, jit) ==
        fulfill_perp_order(book, t, i,
          determine_perp_fulfillment_methods(swept, o, infoseq, prices[1], amm_price, AmmIsAvailable(o)),
          prices[2], depth, jit)
  IN  {book} \cup
      IF IsImpossibleFill(o, makers) THEN {}
      ELSE IF should_expire_order(o, now) \/ should_cancel_reduce_only_order(o, us[t].base_asset_amount)
        THEN {[book EXCEPT !.users[t] = cancel_order(@, i)]}
      ELSE {Tidied(filled(infoseq, prices, amm_price, depth, jit), t, i) :
              infoseq \in BestFirst(swept, o.direction, infos),
              prices \in TakerPrices(o, is_place_and_take),
              amm_price \in Prices, depth \in AmmDepths, jit \in JitAmounts}

(***************************************************************************)
(* Instructions of users.                                                  *)
(***************************************************************************)

SlotsOf(u, order_id) == {i \in Slots : IsOpen(u.orders[i]) /\ u.orders[i].order_id = order_id}

CancelById(u, order_id) == CancelAll(u, SlotsOf(u, order_id))

ForceReduceOnly == status = "ReduceOnly"

Placeable(u, params, crosses_amm) ==
  CanPlace(expire_orders(u, now), params, ForceReduceOnly, crosses_amm, slot, now)

Place(u, params, crosses_amm) ==
  place_perp_order(expire_orders(u, now), params, ForceReduceOnly, crosses_amm, slot, now)

(* handle_place_perp_order.                                                *)
PlaceOrder(u, params, crosses_amm) ==
  /\ CountTransaction
  /\ ~params.immediate_or_cancel
  /\ Placeable(users[u], params, crosses_amm)
  /\ users' = [users EXCEPT ![u] = Place(@, params, crosses_amm)]
  /\ UNCHANGED <<base_asset_amount_with_amm, status, slot, now, jit_misused>>

(* handle_cancel_order.                                                    *)
CancelOrder(u, i) ==
  /\ CountTransaction
  /\ IsOpen(users[u].orders[i])
  /\ users' = [users EXCEPT ![u] = cancel_order(@, i)]
  /\ UNCHANGED <<base_asset_amount_with_amm, status, slot, now, jit_misused>>

(* handle_cancel_orders, and the cancellations of a liquidation.           *)
CancelOrders(u, directions) ==
  LET cancelled == {i \in Slots : /\ IsOpen(users[u].orders[i])
                                  /\ users[u].orders[i].direction \in directions}
  IN  /\ CountTransaction
      /\ cancelled # {}
      /\ users' = [users EXCEPT ![u] = CancelAll(@, cancelled)]
      /\ UNCHANGED <<base_asset_amount_with_amm, status, slot, now, jit_misused>>

(* handle_modify_order: cancel, then place with what was left.             *)
ModifyOrder(u, i, change, crosses_amm) ==
  LET params == MergedParams(users[u].orders[i], change)
      cancelled == cancel_order(users[u], i)
  IN  /\ CountTransaction
      /\ IsOpen(users[u].orders[i])
      /\ Placeable(cancelled, params, crosses_amm)
      /\ users' = [users EXCEPT ![u] = Place(cancelled, params, crosses_amm)]
      /\ UNCHANGED <<base_asset_amount_with_amm, status, slot, now, jit_misused>>

(* Mutant: an immediate-or-cancel order is cancelled only if it was        *)
(* partly filled.                                                          *)
TakeAndForget(u, params, makers, oracle_price) ==
  LET placed == Place(users[u], params, FALSE)
      order_id == get_last_order_id(placed)
  IN  /\ CountTransaction
      /\ params.post_only = "None"
      /\ Placeable(users[u], params, FALSE)
      /\ \E i \in SlotsOf(placed, order_id) :
           /\ IsLive(placed.orders[i])
           /\ \E b \in fill_perp_order([users EXCEPT ![u] = placed], u, i, makers, NoJit,
                                       oracle_price, TRUE) :
                /\ users' = IF params.immediate_or_cancel /\ b.users[u].orders[i].base_asset_amount_filled > 0
                              THEN [b.users EXCEPT ![u] = CancelById(@, order_id)]
                              ELSE b.users
                /\ base_asset_amount_with_amm' = b.amm
      /\ UNCHANGED <<status, slot, now, jit_misused>>

(* handle_place_and_take_perp_order: place, fill the last order placed,    *)
(* and cancel what is left of it when it must be filled at once.           *)
PlaceAndTake(u, params, makers, oracle_price) ==
  LET placed == Place(users[u], params, FALSE)
      order_id == get_last_order_id(placed)
  IN  /\ CountTransaction
      /\ params.post_only = "None"
      /\ Placeable(users[u], params, FALSE)
      /\ \E i \in SlotsOf(placed, order_id) :
           /\ IsLive(placed.orders[i])
           /\ \E b \in fill_perp_order([users EXCEPT ![u] = placed], u, i, makers, NoJit,
                                       oracle_price, TRUE) :
                /\ users' = IF params.immediate_or_cancel
                              THEN [b.users EXCEPT ![u] = CancelById(@, order_id)]
                              ELSE b.users
                /\ base_asset_amount_with_amm' = b.amm
      /\ UNCHANGED <<status, slot, now, jit_misused>>

IsJitOrder(o) == o.order_type = "Limit" /\ is_jit_maker(o)

(* handle_place_and_make_perp_order: place, fill order i of t with the     *)
(* last order placed as maker, and cancel what is left of it.              *)
PlaceAndMake(u, params, t, i, makers, oracle_price) ==
  LET placed == [users EXCEPT ![u] = Place(@, params, FALSE)]
      order_id == get_last_order_id(placed[u])
  IN  /\ CountTransaction
      /\ u # t
      /\ params.immediate_or_cancel
      /\ params.post_only # "None"
      /\ params.order_type = "Limit"
      /\ Placeable(users[u], params, FALSE)
      /\ IsLive(users[t].orders[i])
      /\ \E b \in fill_perp_order(placed, t, i, makers \cup {u}, order_id, oracle_price, FALSE) :
           /\ users' = [b.users EXCEPT ![u] = CancelById(@, order_id)]
           /\ base_asset_amount_with_amm' = b.amm
           /\ jit_misused' = \/ jit_misused
                             \/ \E j \in SlotsOf(placed[u], order_id) : ~IsJitOrder(placed[u].orders[j])
                             \/ \E m \in makers \ {u, t} :
                                  b.users[m].base_asset_amount # users[m].base_asset_amount
      /\ UNCHANGED <<status, slot, now>>

(***************************************************************************)
(* Instructions of keepers.                                                *)
(***************************************************************************)

(* handle_fill_perp_order.                                                 *)
FillOrder(t, i, makers, oracle_price) ==
  /\ CountTransaction
  /\ IsLive(users[t].orders[i])
  /\ \E b \in fill_perp_order(users, t, i, makers, NoJit, oracle_price, FALSE) :
       /\ users' = b.users
       /\ base_asset_amount_with_amm' = b.amm
  /\ UNCHANGED <<status, slot, now, jit_misused>>

(* handle_trigger_order: an order that increases risk is cancelled when    *)
(* the user does not have the initial margin.                              *)
TriggerOrder(u, i, oracle_price, meets_initial_margin) ==
  LET o == users[u].orders[i]
      after == TriggerSlot(users[u], i, slot)
      is_risk_increasing ==
        AbsOf(worst_case_base_asset_amount(after)) > AbsOf(worst_case_base_asset_amount(users[u]))
  IN  /\ CountTransaction
      /\ IsOpen(o)
      /\ must_be_triggered(o)
      /\ ~triggered(o)
      /\ order_satisfies_trigger_condition(o, oracle_price)
      /\ users' = [users EXCEPT ![u] =
           CancelIf(after, i, is_risk_increasing /\ ~o.reduce_only /\ ~meets_initial_margin)]
      /\ UNCHANGED <<base_asset_amount_with_amm, status, slot, now, jit_misused>>

(* handle_force_cancel_orders of a user below the initial margin: all      *)
(* orders but those that reduce its position.                              *)
ForceCancelOrders(u) ==
  LET position == users[u].base_asset_amount
      kept(o) == is_order_position_reducing(o.direction, get_base_asset_amount_unfilled(o, position), position)
      cancelled == {i \in Slots : IsOpen(users[u].orders[i]) /\ ~kept(users[u].orders[i])}
  IN  /\ CountTransaction
      /\ cancelled # {}
      /\ users' = [users EXCEPT ![u] = CancelAll(@, cancelled)]
      /\ UNCHANGED <<base_asset_amount_with_amm, status, slot, now, jit_misused>>

(* handle_update_user_open_orders_count.                                   *)
UpdateUserOpenOrdersCount(u) ==
  /\ CountTransaction
  /\ users' = [users EXCEPT
       ![u].open_orders = Cardinality({i \in Slots : IsOpen(users[u].orders[i])}),
       ![u].open_auctions = Cardinality({i \in Slots : has_auction(users[u].orders[i])})]
  /\ UNCHANGED <<base_asset_amount_with_amm, status, slot, now, jit_misused>>

(* handle_update_perp_market_status.                                       *)
UpdateStatus(new_status) ==
  /\ CountTransaction
  /\ status # new_status
  /\ status' = new_status
  /\ UNCHANGED <<users, base_asset_amount_with_amm, slot, now, jit_misused>>

Next ==
  \/ \E seconds \in {0, 1} : Tick(seconds)
  \/ \E u \in Users, params \in Params, crosses_amm \in BOOLEAN : PlaceOrder(u, params, crosses_amm)
  \/ \E u \in Users, i \in Slots : CancelOrder(u, i)
  \/ \E u \in Users, directions \in {{"Long"}, {"Short"}, PositionDirection} : CancelOrders(u, directions)
  \/ \E u \in Users, i \in Slots, change \in Changes, crosses_amm \in BOOLEAN :
       ModifyOrder(u, i, change, crosses_amm)
  \/ \E u \in Users, params \in Params, makers \in SUBSET Users, oracle_price \in Prices :
       PlaceAndTake(u, params, makers, oracle_price)
  \/ \E u, t \in Users, params \in Params, i \in Slots, makers \in SUBSET Users, oracle_price \in Prices :
       PlaceAndMake(u, params, t, i, makers, oracle_price)
  \/ \E t \in Users, i \in Slots, makers \in SUBSET Users, oracle_price \in Prices :
       FillOrder(t, i, makers, oracle_price)
  \/ \E u \in Users, i \in Slots, oracle_price \in Prices, meets_initial_margin \in BOOLEAN :
       TriggerOrder(u, i, oracle_price, meets_initial_margin)
  \/ \E u \in Users : ForceCancelOrders(u)
  \/ \E u \in Users : UpdateUserOpenOrdersCount(u)
  \/ \E new_status \in Statuses : UpdateStatus(new_status)

Spec == Init /\ [][Next]_vars

(***************************************************************************)
(* Properties.                                                             *)
(***************************************************************************)

(* Every variable keeps its type: no order is filled beyond its size, and  *)
(* the counters and open bids are never negative.                          *)
TypeOK ==
  /\ users \in [Users -> UserRecords]
  /\ \A u \in Users, i \in Slots : Unfilled(users[u].orders[i]) >= 0
  /\ base_asset_amount_with_amm \in Int
  /\ status \in {"Active", "ReduceOnly"}
  /\ slot \in Nat /\ now \in Nat
  /\ jit_misused \in BOOLEAN
  /\ transactions \in Nat

OpenSlots(u) == {i \in Slots : IsOpen(users[u].orders[i])}

(* However an order leaves its slot (fill, cancel, expiry, modification,   *)
(* trigger without margin, reduce-only sweep) the three counters are       *)
(* reduced exactly once: they count the open orders and the auctions.      *)
CountersMatchSlots ==
  \A u \in Users :
    /\ users[u].open_orders = Cardinality(OpenSlots(u))
    /\ users[u].position_orders = Cardinality(OpenSlots(u))
    /\ users[u].open_auctions = Cardinality({i \in OpenSlots(u) : has_auction(users[u].orders[i])})

LiveUnfilled(o, direction) == IF IsLive(o) /\ o.direction = direction THEN Unfilled(o) ELSE 0
LiveAmount(u, direction) == SumOf([i \in Slots |-> LiveUnfilled(users[u].orders[i], direction)])

(* open_bids and open_asks, from which margin takes the worst case of a    *)
(* position, are exactly what the live orders may still fill.              *)
OpenBidsAndAsksMatch ==
  \A u \in Users :
    /\ users[u].open_bids = LiveAmount(u, "Long")
    /\ users[u].open_asks = -LiveAmount(u, "Short")

(* A fill moves a position from one side to the other: what users hold is  *)
(* what they hold against the AMM, through matches shared with it.         *)
PositionsBalance == base_asset_amount_with_amm = PositionsOf(users)

(* An order that must be filled at once never stays in the book, whether   *)
(* it was filled, refused or given up ("Whether the order must be canceled *)
(* the same slot it is placed").                                           *)
NoImmediateOrderStays ==
  \A u \in Users, i \in Slots : ~users[u].orders[i].immediate_or_cancel

(* The orders of u that the step may have filled.                          *)
SideOf(u) == IF users'[u].base_asset_amount > users[u].base_asset_amount THEN "Long" ELSE "Short"
MayHaveFilled(u) ==
  {i \in Slots : IsLive(users[u].orders[i]) /\ users[u].orders[i].direction = SideOf(u)}

Reduces(before, after) ==
  \/ before > 0 /\ after \in 0 .. before
  \/ before < 0 /\ -after \in 0 .. -before

(* A user all of whose orders on a side are reduce-only (and not           *)
(* post-only) never gets a larger or an opposite position from them,       *)
(* however many of them one fill goes through.                             *)
ReduceOnlyReduces ==
  [][\A u \in Users :
       /\ users'[u].base_asset_amount # users[u].base_asset_amount
       /\ users'[u].next_order_id = users[u].next_order_id
       /\ \A i \in MayHaveFilled(u) : users[u].orders[i].reduce_only /\ ~users[u].orders[i].post_only
       => Reduces(users[u].base_asset_amount, users'[u].base_asset_amount)]_vars

(* An order that has expired is not filled, as taker or as maker, also in  *)
(* the seconds in which keepers may not yet remove it.                     *)
NoFillAfterExpiry ==
  [][\A u \in Users :
       /\ users'[u].base_asset_amount # users[u].base_asset_amount
       /\ users'[u].next_order_id = users[u].next_order_id
       => \E i \in MayHaveFilled(u) : ~should_expire_order(users[u].orders[i], now)]_vars

(* Users u and w took part on the same side in a fill of somebody else's   *)
(* order, other than one that misused place_and_make.                      *)
AreMakers(u, w) ==
  /\ \A v \in {u, w} : /\ users'[v].next_order_id = users[v].next_order_id
                       /\ users'[v].base_asset_amount # users[v].base_asset_amount
  /\ SideOf(u) = SideOf(w)
  /\ \E v \in Users \ {u, w} : users'[v].base_asset_amount # users[v].base_asset_amount
  /\ ~jit_misused'

(* Makers are filled in the order of their prices: when a fill touches a   *)
(* resting post-only order of one maker, no post-only order with a better  *)
(* price is left over, of the same maker or of another one that took part. *)
BestPriceFirst ==
  [][\A u, w \in Users : AreMakers(u, w) =>
       \A i, j \in Slots :
         LET better == users[u].orders[i]
             worse == users[w].orders[j]
         IN  /\ IsLive(better) /\ better.post_only /\ better.slot < slot
             /\ IsLive(worse) /\ worse.post_only /\ ~should_expire_order(worse, now)
             /\ better.direction = worse.direction
             /\ Signed(better.direction, better.price) > Signed(worse.direction, worse.price)
             /\ users'[w].orders[j] # worse
             => users'[u].orders[i].order_id # better.order_id]_vars

(* "place_and_make must use IOC post only limit order", and "if jit maker  *)
(* order id exists, must only use that order": the maker side of its fill  *)
(* is only the order it has just placed.                                   *)
PlaceAndMakeUsesJitOrder == ~jit_misused
===============================================================================
