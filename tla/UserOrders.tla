------------------------------ MODULE UserOrders ------------------------------
(***************************************************************************)
(* The orders of one user in one perp market, with the counters that the   *)
(* account and its position keep about them (state/user.rs,                *)
(* controller/position.rs, controller/orders.rs).  A user is a record; an  *)
(* operation is an operator from a user to a user.                         *)
(*                                                                         *)
(* Prices are ranks in a small set and 0 is no price.  Quote amounts,      *)
(* fees, rewards and event records are left out.  The auction of an order  *)
(* is its slot and duration; the price within it is any price up to the    *)
(* limit (AuctionPrices).                                                  *)
(***************************************************************************)
EXTENDS Integers, FiniteSets, FiniteSetsExt

CONSTANTS
  Prices,                  \* the prices of orders, of the oracle and of the AMM
  MaxOrders,               \* the order slots of a user (32)
  min_order_size,          \* market.amm.min_order_size, in steps
  min_auction_duration,    \* state.min_perp_auction_duration, in slots
  TriggerAuction,          \* the auction of a triggered order, in slots
  MarketOrderLifetime,     \* default max_ts of a market order, in seconds
  ExpiryBuffer             \* seconds before a keeper may expire a limit order

ASSUME OrderAssumption ==
  /\ Prices \subseteq Nat \ {0}
  /\ MaxOrders \in Nat \ {0}
  /\ min_order_size \in Nat \ {0}
  /\ min_auction_duration \in Nat
  /\ TriggerAuction \in Nat \ {0}
  /\ MarketOrderLifetime \in Nat
  /\ ExpiryBuffer \in Nat

Slots == 1 .. MaxOrders
PositionDirection == {"Long", "Short"}
OrderType == {"Market", "Oracle", "Limit", "TriggerMarket", "TriggerLimit"}
OrderTriggerCondition == {"Above", "Below", "TriggeredAbove", "TriggeredBelow"}

OppositeSide(direction) == IF direction = "Long" THEN "Short" ELSE "Long"
Signed(direction, amount) == IF direction = "Long" THEN amount ELSE -amount
AbsOf(n) == IF n < 0 THEN -n ELSE n
LesserOf(a, b) == IF a <= b THEN a ELSE b
GreaterOf(a, b) == IF a >= b THEN a ELSE b

(* Order::default: an empty slot.                                          *)
NoOrder ==
  [ status |-> "Init", order_id |-> 0, user_order_id |-> 0, order_type |-> "Limit",
    direction |-> "Long", price |-> 0, base_asset_amount |-> 0,
    base_asset_amount_filled |-> 0, reduce_only |-> FALSE, post_only |-> FALSE,
    immediate_or_cancel |-> FALSE, trigger_condition |-> "Above", trigger_price |-> 0,
    slot |-> 0, auction_duration |-> 0, max_ts |-> 0 ]

Orders ==
  [ status : {"Init", "Open"}, order_id : Nat, user_order_id : Nat, order_type : OrderType,
    direction : PositionDirection, price : Prices \cup {0}, base_asset_amount : Nat,
    base_asset_amount_filled : Nat, reduce_only : BOOLEAN, post_only : BOOLEAN,
    immediate_or_cancel : BOOLEAN, trigger_condition : OrderTriggerCondition,
    trigger_price : Prices \cup {0}, slot : Nat, auction_duration : Nat, max_ts : Nat ]

(* open_orders and open_auctions count in the account, position_orders is  *)
(* open_orders of the position; open_asks is negative, as in the code.     *)
UserRecords ==
  [ orders : [Slots -> Orders], next_order_id : Nat \ {0}, open_orders : Nat,
    open_auctions : Nat, position_orders : Nat, base_asset_amount : Int,
    open_bids : Nat, open_asks : Int ]

NewUser(position) ==
  [ orders |-> [i \in Slots |-> NoOrder], next_order_id |-> 1, open_orders |-> 0,
    open_auctions |-> 0, position_orders |-> 0, base_asset_amount |-> position,
    open_bids |-> 0, open_asks |-> 0 ]

(***************************************************************************)
(* Order.                                                                  *)
(***************************************************************************)

IsOpen(o) == o.status = "Open"
has_auction(o) == o.auction_duration # 0
must_be_triggered(o) == o.order_type \in {"TriggerMarket", "TriggerLimit"}
triggered(o) == o.trigger_condition \in {"TriggeredAbove", "TriggeredBelow"}
is_limit_order(o) == o.order_type \in {"Limit", "TriggerLimit"}
is_jit_maker(o) == o.post_only /\ o.immediate_or_cancel

(* A trigger order counts and can be filled only once it is triggered.     *)
IsLive(o) == IsOpen(o) /\ (must_be_triggered(o) => triggered(o))

Unfilled(o) == o.base_asset_amount - o.base_asset_amount_filled

(* Mutant: a reduce-only order is not capped by the position.              *)
unfilled_without_cap(o, position) ==
  IF /\ o.reduce_only /\ ~o.post_only
     /\ Signed(o.direction, position) >= 0
    THEN 0 ELSE Unfilled(o)

(* get_base_asset_amount_unfilled(Some(position)): a reduce-only order may *)
(* take no more than the opposite position, unless it is post-only.        *)
get_base_asset_amount_unfilled(o, position) ==
  IF ~o.reduce_only \/ o.post_only THEN Unfilled(o)
  ELSE IF Signed(o.direction, position) >= 0 THEN 0
  ELSE LesserOf(Unfilled(o), AbsOf(position))

is_auction_complete(order_slot, duration, slot) == duration = 0 \/ slot - order_slot > duration

is_resting_limit_order(o, slot) ==
  /\ is_limit_order(o)
  /\ o.order_type = "TriggerLimit"
       => Signed(o.direction, o.trigger_price) >= Signed(o.direction, o.price)
  /\ \/ o.order_type = "Limit" /\ o.post_only
     \/ is_auction_complete(o.slot, o.auction_duration, slot)

(* The limit prices an order may have in a slot (0: none).  In its auction *)
(* the price runs from a start to an end that is no worse than the limit.  *)
AuctionPrices(o) == {p \in Prices : o.price # 0 => Signed(o.direction, p) <= Signed(o.direction, o.price)}

LimitPrices(o, slot) ==
  IF is_auction_complete(o.slot, o.auction_duration, slot) THEN {o.price} ELSE AuctionPrices(o)

should_expire_order(o, now) ==
  IsOpen(o) /\ o.max_ts # 0 /\ ~must_be_triggered(o) /\ now > o.max_ts

(* Less than one step may be filled.                                       *)
should_cancel_reduce_only_order(o, position) ==
  IsOpen(o) /\ o.reduce_only /\ get_base_asset_amount_unfilled(o, position) < 1

is_order_position_reducing(direction, amount, position) ==
  Signed(direction, position) < 0 /\ amount <= AbsOf(position)

(***************************************************************************)
(* Counters.                                                               *)
(***************************************************************************)

OneIf(condition) == IF condition THEN 1 ELSE 0

increment_open_orders(u, is_auction) ==
  [u EXCEPT !.open_orders = @ + 1, !.open_auctions = @ + OneIf(is_auction)]

decrement_open_orders(u, is_auction) ==
  [u EXCEPT !.open_orders = GreaterOf(@ - 1, 0),
            !.open_auctions = GreaterOf(@ - OneIf(is_auction), 0)]

increase_open_bids_and_asks(u, direction, amount) ==
  IF direction = "Long" THEN [u EXCEPT !.open_bids = @ + amount]
                        ELSE [u EXCEPT !.open_asks = @ - amount]

decrease_open_bids_and_asks(u, direction, amount) ==
  increase_open_bids_and_asks(u, direction, -amount)

(* What every way out of a slot does last.                                 *)
CloseSlot(u, i) ==
  [decrement_open_orders(u, has_auction(u.orders[i])) EXCEPT
     !.orders[i] = NoOrder, !.position_orders = @ - 1]

(***************************************************************************)
(* Cancel.                                                                 *)
(***************************************************************************)

(* Mutant: no trigger order gives its open amount back, not even one that  *)
(* was triggered.                                                          *)
cancel_keeping_triggered(u, i) ==
  LET o == u.orders[i]
      freed == IF must_be_triggered(o) THEN 0 ELSE Unfilled(o)
  IN  CloseSlot(decrease_open_bids_and_asks(u, o.direction, freed), i)

(* Only an order that counts in open bids and asks gives its amount back.  *)
cancel_order(u, i) ==
  LET o == u.orders[i]
      freed == IF IsLive(o) THEN Unfilled(o) ELSE 0
  IN  CloseSlot(decrease_open_bids_and_asks(u, o.direction, freed), i)

(* cancel_orders: slot by slot, the open orders in S.                      *)
CancelIn(u, S, i) == IF i \in S /\ IsOpen(u.orders[i]) THEN cancel_order(u, i) ELSE u

CancelAll(u, S) ==
  LET after[n \in 0 .. MaxOrders] == IF n = 0 THEN u ELSE CancelIn(after[n - 1], S, n)
  IN  after[MaxOrders]

expire_orders(u, now) == CancelAll(u, {i \in Slots : should_expire_order(u.orders[i], now)})

(***************************************************************************)
(* Place.  The parameters are a record like an order, with post_only in    *)
(* PostOnlyParam and max_ts = NotGiven for None; auction_duration is what  *)
(* update_perp_auction_params leaves.                                      *)
(***************************************************************************)

PostOnlyParam == {"None", "MustPostOnly", "TryPostOnly", "Slide"}
NotGiven == -1

OrderParams ==
  [ order_type : OrderType, direction : PositionDirection, user_order_id : Nat,
    base_asset_amount : Nat, price : Prices \cup {0}, reduce_only : BOOLEAN,
    post_only : PostOnlyParam, immediate_or_cancel : BOOLEAN, max_ts : Nat \cup {NotGiven},
    trigger_price : Prices \cup {0}, trigger_condition : OrderTriggerCondition,
    auction_duration : Nat ]

(* ModifyOrderParams: a modification gives some of these.  The order type  *)
(* and the user's own id stay, and the immediate_or_cancel that a caller   *)
(* may give is ignored: the new order never has it.                        *)
ModifyOrderParams ==
  [ direction |-> PositionDirection, base_asset_amount |-> Nat, price |-> Prices \cup {0},
    reduce_only |-> BOOLEAN, post_only |-> PostOnlyParam, max_ts |-> Nat \cup {NotGiven},
    trigger_price |-> Prices \cup {0}, trigger_condition |-> OrderTriggerCondition,
    auction_duration |-> Nat ]

get_auction_duration(params) ==
  CASE params.order_type \in {"TriggerMarket", "TriggerLimit"} -> 0
    [] params.order_type = "Limit" ->
         IF params.auction_duration = 0 THEN 0
         ELSE GreaterOf(params.auction_duration, min_auction_duration)
    [] OTHER -> GreaterOf(params.auction_duration, min_auction_duration)

MaxTs(params, now) ==
  IF params.max_ts # NotGiven THEN params.max_ts
  ELSE IF params.order_type \in {"Market", "Oracle"} THEN now + MarketOrderLifetime
  ELSE 0

NewOrder(u, params, force_reduce_only, slot, now) ==
  [ status |-> "Open", order_id |-> u.next_order_id, user_order_id |-> params.user_order_id,
    order_type |-> params.order_type, direction |-> params.direction, price |-> params.price,
    base_asset_amount |-> params.base_asset_amount, base_asset_amount_filled |-> 0,
    reduce_only |-> params.reduce_only \/ force_reduce_only,
    post_only |-> params.post_only # "None",
    immediate_or_cancel |-> params.immediate_or_cancel,
    trigger_condition |-> params.trigger_condition, trigger_price |-> params.trigger_price,
    slot |-> slot, auction_duration |-> get_auction_duration(params),
    max_ts |-> MaxTs(params, now) ]

(* validate_order, except that a post-only order must not cross the AMM.   *)
validate_order(o) ==
  /\ o.base_asset_amount > 0
  /\ o.reduce_only \/ o.base_asset_amount >= min_order_size
  /\ \/ /\ o.order_type \in {"Market", "Oracle"}
        /\ ~o.post_only /\ ~o.immediate_or_cancel /\ o.trigger_price = 0
        /\ o.order_type = "Oracle" => o.price = 0
     \/ /\ o.order_type = "Limit"
        /\ o.price # 0 /\ o.trigger_price = 0
        /\ o.post_only => ~has_auction(o)
     \/ /\ must_be_triggered(o)
        /\ ~triggered(o) /\ ~o.post_only /\ o.trigger_price # 0
        /\ (o.order_type = "TriggerLimit") <=> (o.price # 0)

(* validate_order_for_force_reduce_only.                                   *)
ReducesOnly(o, position) == o.reduce_only /\ Signed(o.direction, position) < 0

FreeSlots(u) == {i \in Slots : ~IsOpen(u.orders[i])}

IsSkipped(params, now) == MaxTs(params, now) # 0 /\ MaxTs(params, now) < now

(* A post-only order that the AMM would fill at once is refused, or        *)
(* dropped without an error for TryPostOnly.                               *)
FailsPostOnly(o, crosses_amm) == o.post_only /\ ~is_jit_maker(o) /\ crosses_amm

(* place_perp_order of a user whose expired orders are already gone: its   *)
(* checks, and what it leaves.  `crosses_amm' says whether the AMM would   *)
(* fill the order at its price; a sliding order moves away from it.        *)
CanPlace(u, params, force_reduce_only, crosses_amm, slot, now) ==
  LET o == NewOrder(u, params, force_reduce_only, slot, now)
  IN  /\ FreeSlots(u) # {}
      /\ params.user_order_id > 0
           => \A i \in Slots : u.orders[i].user_order_id # params.user_order_id
      /\ \/ IsSkipped(params, now)
         \/ /\ validate_order(o)
            /\ FailsPostOnly(o, crosses_amm) => params.post_only = "TryPostOnly"
            /\ force_reduce_only /\ ~FailsPostOnly(o, crosses_amm)
                 => ReducesOnly(o, u.base_asset_amount)

place_perp_order(u, params, force_reduce_only, crosses_amm, slot, now) ==
  LET o == NewOrder(u, params, force_reduce_only, slot, now)
      i == Min(FreeSlots(u))
      numbered == [u EXCEPT !.next_order_id = @ + 1]
      counted == increment_open_orders(numbered, has_auction(o))
      placed == [counted EXCEPT !.orders[i] = o, !.position_orders = @ + 1]
  IN  IF IsSkipped(params, now) THEN u
      ELSE IF FailsPostOnly(o, crosses_amm) THEN numbered
      ELSE IF must_be_triggered(o) THEN placed
      ELSE increase_open_bids_and_asks(placed, o.direction, o.base_asset_amount)

get_last_order_id(u) == u.next_order_id - 1

(***************************************************************************)
(* Modify, trigger and fill.                                               *)
(***************************************************************************)

(* merge_modify_order_params_with_existing_order: what `change' does not   *)
(* give is taken from the order.                                           *)
MergedParams(o, change) ==
  LET kept ==
        [ order_type |-> o.order_type, direction |-> o.direction,
          user_order_id |-> o.user_order_id, base_asset_amount |-> Unfilled(o),
          price |-> o.price, reduce_only |-> o.reduce_only,
          post_only |-> IF o.post_only THEN "MustPostOnly" ELSE "None",
          immediate_or_cancel |-> FALSE, max_ts |-> o.max_ts,
          trigger_price |-> o.trigger_price,
          trigger_condition |->
            IF o.trigger_condition \in {"Above", "TriggeredAbove"} THEN "Above" ELSE "Below",
          auction_duration |-> 0 ]
  IN  [f \in DOMAIN kept |-> IF f \in DOMAIN change THEN change[f] ELSE kept[f]]

order_satisfies_trigger_condition(o, oracle_price) ==
  \/ o.trigger_condition = "Above" /\ oracle_price > o.trigger_price
  \/ o.trigger_condition = "Below" /\ oracle_price < o.trigger_price

(* Mutant: the auction that a trigger starts is not counted.               *)
TriggerUncounted(u, i, slot) ==
  LET o == u.orders[i]
      condition == IF o.trigger_condition = "Above" THEN "TriggeredAbove" ELSE "TriggeredBelow"
      marked == [u EXCEPT !.orders[i].trigger_condition = condition,
                          !.orders[i].slot = slot,
                          !.orders[i].auction_duration = TriggerAuction]
  IN  increase_open_bids_and_asks(marked, o.direction, o.base_asset_amount)

(* update_trigger_order_params and the counters.                           *)
TriggerSlot(u, i, slot) ==
  LET o == u.orders[i]
      condition == IF o.trigger_condition = "Above" THEN "TriggeredAbove" ELSE "TriggeredBelow"
      marked == [u EXCEPT !.orders[i].trigger_condition = condition,
                          !.orders[i].slot = slot,
                          !.orders[i].auction_duration = TriggerAuction,
                          !.open_auctions = @ + 1]
  IN  increase_open_bids_and_asks(marked, o.direction, o.base_asset_amount)

worst_case_base_asset_amount(u) ==
  LET all_bids == u.base_asset_amount + u.open_bids
      all_asks == u.base_asset_amount + u.open_asks
  IN  IF AbsOf(all_bids) > AbsOf(all_asks) THEN all_bids ELSE all_asks

(* A fill of `amount' from either side: the position, the order, the open  *)
(* amount, and the slot when nothing is left (update_position_and_market,  *)
(* update_order_after_fill, decrease_open_bids_and_asks).                  *)
FillSlot(u, i, amount) ==
  LET o == u.orders[i]
      moved == [u EXCEPT !.base_asset_amount = @ + Signed(o.direction, amount),
                         !.orders[i].base_asset_amount_filled = @ + amount]
      freed == decrease_open_bids_and_asks(moved, o.direction, amount)
  IN  IF Unfilled(freed.orders[i]) = 0 THEN CloseSlot(freed, i) ELSE freed
===============================================================================
