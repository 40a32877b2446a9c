--------------------------- MODULE PerpOrdersProofs ---------------------------
(***************************************************************************)
(* The invariants of PerpOrders, for any users, prices, order parameters   *)
(* and number of slots.  They follow together from one inductive invariant *)
(* (Inv): every account is sound, and the positions balance.  An account   *)
(* is sound when a slot holds an open order with something left to fill or *)
(* is empty, an order that waits for its trigger has been neither filled   *)
(* nor put in auction, a post-only order is a limit order, open orders     *)
(* have ids of their own, and every counter is the sum over the slots of   *)
(* what the orders in them contribute.  With the invariant, every step is  *)
(* shown to move each position only as StepMoves says (by orders that are  *)
(* not expired, and towards zero where they are all reduce-only) and to    *)
(* take makers as StepInOrder says (best price first).  The three action   *)
(* properties are consequences of that.                                    *)
(***************************************************************************)
EXTENDS PerpOrders, SumsProofs

(***************************************************************************)
(* The inductive invariant.                                                *)
(***************************************************************************)

(* What an order that may be in a slot looks like.  `id' is the one order  *)
(* that may have to be filled at once: the one an instruction has just     *)
(* placed, or 0 for none.                                                  *)
WaitsForTrigger(o) == IsOpen(o) /\ must_be_triggered(o) /\ ~triggered(o)

SoundOrder(o, id) ==
  /\ o \in Orders
  /\ ~IsOpen(o) => o = NoOrder
  /\ IsOpen(o) => o.base_asset_amount_filled < o.base_asset_amount
  /\ IsOpen(o) => o.order_id > 0
  /\ WaitsForTrigger(o) => o.base_asset_amount_filled = 0 /\ o.auction_duration = 0
  /\ o.immediate_or_cancel => o.order_id = id
  /\ o.post_only => o.order_type = "Limit"

(* The open orders have ids of their own, all given out already.           *)
OwnIds(orders, next) ==
  \A i \in Slots : IsOpen(orders[i]) =>
    /\ orders[i].order_id < next
    /\ \A j \in Slots \ {i} : IsOpen(orders[j]) => orders[j].order_id # orders[i].order_id

(* What the slots contribute to the counters.                              *)
OpenIn(orders) == [i \in Slots |-> OneIf(IsOpen(orders[i]))]
AuctionsIn(orders) == [i \in Slots |-> OneIf(has_auction(orders[i]))]
LiveIn(orders, direction) == [i \in Slots |-> LiveUnfilled(orders[i], direction)]

SoundUser(u, id) ==
  /\ u \in UserRecords
  /\ \A i \in Slots : SoundOrder(u.orders[i], id)
  /\ OwnIds(u.orders, u.next_order_id)
  /\ u.open_orders = SumOf(OpenIn(u.orders))
  /\ u.position_orders = SumOf(OpenIn(u.orders))
  /\ u.open_auctions = SumOf(AuctionsIn(u.orders))
  /\ u.open_bids = SumOf(LiveIn(u.orders, "Long"))
  /\ u.open_asks = -SumOf(LiveIn(u.orders, "Short"))

Inv ==
  /\ users \in [Users -> UserRecords]
  /\ \A u \in Users : SoundUser(users[u], 0)
  /\ base_asset_amount_with_amm = PositionsOf(users)
  /\ status \in {"Active", "ReduceOnly"}
  /\ slot \in Nat /\ now \in Nat
  /\ jit_misused \in BOOLEAN
  /\ transactions \in Nat

(***************************************************************************)
(* One slot of an account changes.                                         *)
(***************************************************************************)

(* An account has finitely many slots.                                     *)
LEMMA SlotsFinite == IsFiniteSet(Slots) /\ Slots \subseteq Nat
BY OrderAssumption, FS_Interval DEF Slots

(* An empty slot is sound and contributes nothing.                         *)
LEMMA EmptySlot ==
  ASSUME NEW id
  PROVE  /\ SoundOrder(NoOrder, id)
         /\ ~IsOpen(NoOrder) /\ ~has_auction(NoOrder) /\ Unfilled(NoOrder) = 0
         /\ LiveUnfilled(NoOrder, "Long") = 0 /\ LiveUnfilled(NoOrder, "Short") = 0
<1>1. /\ NoOrder.status = "Init" /\ NoOrder.auction_duration = 0
      /\ NoOrder.base_asset_amount = 0 /\ NoOrder.base_asset_amount_filled = 0
      /\ NoOrder.immediate_or_cancel = FALSE /\ NoOrder.post_only = FALSE
  BY DEF NoOrder
<1>2. NoOrder \in Orders
  BY DEF NoOrder, Orders, OrderType, PositionDirection, OrderTriggerCondition
<1>3. ~IsOpen(NoOrder) /\ ~has_auction(NoOrder) /\ Unfilled(NoOrder) = 0
  BY <1>1 DEF IsOpen, has_auction, Unfilled
<1> QED
  BY <1>1, <1>2, <1>3 DEF SoundOrder, LiveUnfilled, IsLive, WaitsForTrigger

(* What a sound order contributes are natural numbers.                     *)
LEMMA Contributions ==
  ASSUME NEW o, NEW id, SoundOrder(o, id)
  PROVE  /\ OneIf(IsOpen(o)) \in Nat /\ OneIf(has_auction(o)) \in Nat
         /\ LiveUnfilled(o, "Long") \in Nat /\ LiveUnfilled(o, "Short") \in Nat
         /\ Unfilled(o) \in Nat
         /\ IsOpen(o) => Unfilled(o) > 0
<1>1. o.base_asset_amount \in Nat /\ o.base_asset_amount_filled \in Nat
  BY DEF SoundOrder, Orders
<1>2. CASE IsOpen(o)
  BY <1>1, <1>2 DEF SoundOrder, LiveUnfilled, Unfilled, OneIf
<1>3. CASE ~IsOpen(o)
  <2>1. o = NoOrder
    BY <1>3 DEF SoundOrder
  <2>2. Unfilled(o) = 0
    BY <2>1, EmptySlot
  <2> QED
    BY <1>3, <2>2 DEF LiveUnfilled, OneIf
<1> QED
  BY <1>2, <1>3

SoundOrders(orders, id) == \A i \in Slots : SoundOrder(orders[i], id)

(* What the slots contribute to each counter is a natural number.          *)
LEMMA SlotFunctions ==
  ASSUME NEW orders, NEW id, SoundOrders(orders, id)
  PROVE  /\ OpenIn(orders) \in [Slots -> Nat]
         /\ AuctionsIn(orders) \in [Slots -> Nat]
         /\ LiveIn(orders, "Long") \in [Slots -> Nat]
         /\ LiveIn(orders, "Short") \in [Slots -> Nat]
<1>1. ASSUME NEW i \in Slots
      PROVE  /\ OneIf(IsOpen(orders[i])) \in Nat /\ OneIf(has_auction(orders[i])) \in Nat
             /\ LiveUnfilled(orders[i], "Long") \in Nat /\ LiveUnfilled(orders[i], "Short") \in Nat
  BY Contributions DEF SoundOrders
<1> QED
  BY <1>1 DEF OpenIn, AuctionsIn, LiveIn

(* The account u with order o in slot i and the counters that follow.      *)
Account(orders, next, open, auctions, in_position, base, bids, asks) ==
  [ orders |-> orders, next_order_id |-> next, open_orders |-> open,
    open_auctions |-> auctions, position_orders |-> in_position,
    base_asset_amount |-> base, open_bids |-> bids, open_asks |-> asks ]

Changed(u, i, o, next, base) ==
  LET old == u.orders[i]
  IN  Account([u.orders EXCEPT ![i] = o], next,
              (u.open_orders - OneIf(IsOpen(old))) + OneIf(IsOpen(o)),
              (u.open_auctions - OneIf(has_auction(old))) + OneIf(has_auction(o)),
              (u.position_orders - OneIf(IsOpen(old))) + OneIf(IsOpen(o)),
              base,
              (u.open_bids - LiveUnfilled(old, "Long")) + LiveUnfilled(o, "Long"),
              (u.open_asks + LiveUnfilled(old, "Short")) - LiveUnfilled(o, "Short"))

(* The types of the parts of a sound account.                              *)
LEMMA SoundUserParts ==
  ASSUME NEW u, NEW id, SoundUser(u, id)
  PROVE  /\ u \in UserRecords /\ SoundOrders(u.orders, id)
         /\ u.orders \in [Slots -> Orders] /\ u.next_order_id \in Nat \ {0}
         /\ u.open_orders \in Nat /\ u.open_auctions \in Nat /\ u.position_orders \in Nat
         /\ u.base_asset_amount \in Int /\ u.open_bids \in Nat /\ u.open_asks \in Int
BY DEF SoundUser, SoundOrders, UserRecords

(* A record of the eight fields is an account.                             *)
LEMMA AccountFields ==
  ASSUME NEW u \in UserRecords
  PROVE  u = Account(u.orders, u.next_order_id, u.open_orders, u.open_auctions,
                     u.position_orders, u.base_asset_amount, u.open_bids, u.open_asks)
BY DEF UserRecords, Account

(* Sums of the slots when one of them changes.                             *)
LEMMA SlotSums ==
  ASSUME NEW orders \in [Slots -> Orders], NEW id, SoundOrders(orders, id),
         NEW i \in Slots, NEW o, SoundOrder(o, id), NEW after, after = [orders EXCEPT ![i] = o]
  PROVE  /\ SumOf(OpenIn(after)) = (SumOf(OpenIn(orders)) - OneIf(IsOpen(orders[i]))) + OneIf(IsOpen(o))
         /\ SumOf(AuctionsIn(after)) =
              (SumOf(AuctionsIn(orders)) - OneIf(has_auction(orders[i]))) + OneIf(has_auction(o))
         /\ SumOf(LiveIn(after, "Long")) =
              (SumOf(LiveIn(orders, "Long")) - LiveUnfilled(orders[i], "Long")) + LiveUnfilled(o, "Long")
         /\ SumOf(LiveIn(after, "Short")) =
              (SumOf(LiveIn(orders, "Short")) - LiveUnfilled(orders[i], "Short")) + LiveUnfilled(o, "Short")
<1>0. \A j \in Slots : after[j] = IF j = i THEN o ELSE orders[j]
  OBVIOUS
<1>1. ASSUME NEW f \in [Slots -> Nat], NEW g, NEW v \in Nat, NEW old, g = [f EXCEPT ![i] = v], old = f[i]
      PROVE  SumOf(g) = (SumOf(f) - old) + v
  BY <1>1, SlotsFinite, SumUpdate
<1>2. SumOf(OpenIn(after)) = (SumOf(OpenIn(orders)) - OneIf(IsOpen(orders[i]))) + OneIf(IsOpen(o))
  <2>1. OpenIn(after) = [OpenIn(orders) EXCEPT ![i] = OneIf(IsOpen(o))]
    BY <1>0 DEF OpenIn
  <2>2. OneIf(IsOpen(orders[i])) = OpenIn(orders)[i]
    BY DEF OpenIn
  <2> QED
    BY <1>1, <2>1, <2>2, Contributions, SlotFunctions
<1>3. SumOf(AuctionsIn(after)) =
        (SumOf(AuctionsIn(orders)) - OneIf(has_auction(orders[i]))) + OneIf(has_auction(o))
  <2>1. AuctionsIn(after) = [AuctionsIn(orders) EXCEPT ![i] = OneIf(has_auction(o))]
    BY <1>0 DEF AuctionsIn
  <2>2. OneIf(has_auction(orders[i])) = AuctionsIn(orders)[i]
    BY DEF AuctionsIn
  <2> QED
    BY <1>1, <2>1, <2>2, Contributions, SlotFunctions
<1>4. ASSUME NEW direction \in {"Long", "Short"}
      PROVE  SumOf(LiveIn(after, direction)) =
               (SumOf(LiveIn(orders, direction)) - LiveUnfilled(orders[i], direction)) + LiveUnfilled(o, direction)
  <2>1. LiveIn(after, direction) = [LiveIn(orders, direction) EXCEPT ![i] = LiveUnfilled(o, direction)]
    BY <1>0 DEF LiveIn
  <2>2. LiveUnfilled(orders[i], direction) = LiveIn(orders, direction)[i]
    BY DEF LiveIn
  <2>3. LiveIn(orders, direction) \in [Slots -> Nat] /\ LiveUnfilled(o, direction) \in Nat
    BY Contributions, SlotFunctions
  <2> DEFINE f == LiveIn(orders, direction)
             g == LiveIn(after, direction)
             v == LiveUnfilled(o, direction)
             old == LiveUnfilled(orders[i], direction)
  <2>4. f \in [Slots -> Nat] /\ v \in Nat /\ g = [f EXCEPT ![i] = v] /\ old = f[i]
    BY <2>1, <2>2, <2>3
  <2> HIDE DEF f, g, v, old
  <2>5. SumOf(g) = (SumOf(f) - old) + v
    BY <1>1, <2>4
  <2> QED
    BY <2>5 DEF f, g, v, old
<1> QED
  BY <1>2, <1>3, <1>4

(* A slot contributes no more than all of them.                            *)
LEMMA SlotInSums ==
  ASSUME NEW orders, NEW id, SoundOrders(orders, id), NEW i \in Slots
  PROVE  /\ OneIf(IsOpen(orders[i])) <= SumOf(OpenIn(orders))
         /\ OneIf(has_auction(orders[i])) <= SumOf(AuctionsIn(orders))
<1>1. OpenIn(orders)[i] <= SumOf(OpenIn(orders)) /\ AuctionsIn(orders)[i] <= SumOf(AuctionsIn(orders))
  BY SlotFunctions, SlotsFinite, SumSplit
<1> QED
  BY <1>1 DEF OpenIn, AuctionsIn

(* Order o has the id of the order whose slot i it takes, or the next one. *)
TakesId(u, i, o, next) ==
  \/ /\ next = u.next_order_id
     /\ IsOpen(o) => IsOpen(u.orders[i]) /\ o.order_id = u.orders[i].order_id
  \/ /\ next = u.next_order_id + 1
     /\ IsOpen(o) => o.order_id = u.next_order_id

(* The ids stay distinct.                                                  *)
LEMMA OwnIdsKept ==
  ASSUME NEW u, u.orders \in [Slots -> Orders], u.next_order_id \in Nat,
         OwnIds(u.orders, u.next_order_id), NEW i \in Slots, NEW o \in Orders, NEW next,
         TakesId(u, i, o, next)
  PROVE  OwnIds([u.orders EXCEPT ![i] = o], next)
<1> DEFINE orders == [u.orders EXCEPT ![i] = o]
           old == u.next_order_id
<1>1. \A j \in Slots : orders[j] = IF j = i THEN o ELSE u.orders[j]
  OBVIOUS
<1>2. \A j \in Slots : u.orders[j].order_id \in Nat
  BY DEF Orders
<1>3. o.order_id \in Nat /\ old \in Nat
  BY DEF Orders
<1>4. \A j \in Slots : IsOpen(u.orders[j]) =>
        /\ u.orders[j].order_id < old
        /\ \A k \in Slots \ {j} : IsOpen(u.orders[k]) => u.orders[k].order_id # u.orders[j].order_id
  BY DEF OwnIds
<1>5. ASSUME NEW j \in Slots, IsOpen(orders[j]) PROVE orders[j].order_id < next
  BY <1>1, <1>2, <1>3, <1>4, <1>5 DEF TakesId
<1>6. ASSUME NEW j \in Slots, NEW k \in Slots \ {j}, IsOpen(orders[j]), IsOpen(orders[k])
      PROVE  orders[k].order_id # orders[j].order_id
  BY <1>1, <1>2, <1>3, <1>4, <1>6 DEF TakesId
<1> HIDE DEF orders
<1> QED
  BY <1>5, <1>6 DEF OwnIds, orders

(* A sound order in a slot of a sound account leaves it sound.             *)
LEMMA ChangedIsSound ==
  ASSUME NEW u, NEW id, SoundUser(u, id), NEW i \in Slots, NEW o, SoundOrder(o, id),
         NEW next \in Nat \ {0}, NEW base \in Int, TakesId(u, i, o, next)
  PROVE  SoundUser(Changed(u, i, o, next, base), id)
<1> DEFINE orders == [u.orders EXCEPT ![i] = o]
           v == Changed(u, i, o, next, base)
<1>1. /\ u.orders \in [Slots -> Orders] /\ SoundOrders(u.orders, id)
      /\ u.open_orders \in Nat /\ u.open_auctions \in Nat /\ u.position_orders \in Nat
      /\ u.open_bids \in Nat /\ u.open_asks \in Int
  BY SoundUserParts
<1>2. orders \in [Slots -> Orders] /\ SoundOrders(orders, id)
  BY <1>1 DEF SoundOrders, SoundOrder
<1>3. /\ SumOf(OpenIn(orders)) \in Nat /\ SumOf(AuctionsIn(orders)) \in Nat
      /\ SumOf(LiveIn(orders, "Long")) \in Nat /\ SumOf(LiveIn(orders, "Short")) \in Nat
  BY <1>2, SlotFunctions, SlotsFinite, SumType
<1>4. /\ v.orders = orders /\ v.next_order_id = next /\ v.base_asset_amount = base
      /\ v.open_orders = SumOf(OpenIn(orders)) /\ v.position_orders = SumOf(OpenIn(orders))
      /\ v.open_auctions = SumOf(AuctionsIn(orders))
      /\ v.open_bids = SumOf(LiveIn(orders, "Long")) /\ v.open_asks = -SumOf(LiveIn(orders, "Short"))
  <2>1. /\ v.orders = orders /\ v.next_order_id = next /\ v.base_asset_amount = base
        /\ v.open_orders = (u.open_orders - OneIf(IsOpen(u.orders[i]))) + OneIf(IsOpen(o))
        /\ v.position_orders = (u.position_orders - OneIf(IsOpen(u.orders[i]))) + OneIf(IsOpen(o))
        /\ v.open_auctions = (u.open_auctions - OneIf(has_auction(u.orders[i]))) + OneIf(has_auction(o))
        /\ v.open_bids = (u.open_bids - LiveUnfilled(u.orders[i], "Long")) + LiveUnfilled(o, "Long")
        /\ v.open_asks = (u.open_asks + LiveUnfilled(u.orders[i], "Short")) - LiveUnfilled(o, "Short")
    BY DEF Changed, Account
  <2>2. /\ u.open_orders = SumOf(OpenIn(u.orders)) /\ u.position_orders = SumOf(OpenIn(u.orders))
        /\ u.open_auctions = SumOf(AuctionsIn(u.orders))
        /\ u.open_bids = SumOf(LiveIn(u.orders, "Long")) /\ u.open_asks = -SumOf(LiveIn(u.orders, "Short"))
    BY DEF SoundUser
  <2>3. /\ SumOf(OpenIn(orders)) = (SumOf(OpenIn(u.orders)) - OneIf(IsOpen(u.orders[i]))) + OneIf(IsOpen(o))
        /\ SumOf(AuctionsIn(orders)) =
             (SumOf(AuctionsIn(u.orders)) - OneIf(has_auction(u.orders[i]))) + OneIf(has_auction(o))
        /\ SumOf(LiveIn(orders, "Long")) =
             (SumOf(LiveIn(u.orders, "Long")) - LiveUnfilled(u.orders[i], "Long")) + LiveUnfilled(o, "Long")
        /\ SumOf(LiveIn(orders, "Short")) =
             (SumOf(LiveIn(u.orders, "Short")) - LiveUnfilled(u.orders[i], "Short")) + LiveUnfilled(o, "Short")
    BY <1>1, SlotSums
  <2>4. /\ LiveUnfilled(o, "Short") \in Nat /\ LiveUnfilled(u.orders[i], "Short") \in Nat
        /\ SumOf(LiveIn(u.orders, "Short")) \in Nat
    <3>1. SoundOrder(u.orders[i], id)
      BY <1>1 DEF SoundOrders
    <3> QED
      BY <1>1, <3>1, Contributions, SlotFunctions, SlotsFinite, SumType
  <2> HIDE DEF v, orders
  <2> QED
    BY <2>1, <2>2, <2>3, <2>4
<1>5. v \in UserRecords
  <2>1. v = Account(v.orders, v.next_order_id, v.open_orders, v.open_auctions,
                    v.position_orders, v.base_asset_amount, v.open_bids, v.open_asks)
    BY DEF Changed, Account
  <2> HIDE DEF v, orders
  <2>2. Account(v.orders, v.next_order_id, v.open_orders, v.open_auctions,
                v.position_orders, v.base_asset_amount, v.open_bids, v.open_asks) \in UserRecords
    BY <1>2, <1>3, <1>4 DEF Account, UserRecords
  <2> QED
    BY <2>1, <2>2
<1>7. OwnIds(orders, next)
  <2>1. o \in Orders /\ OwnIds(u.orders, u.next_order_id) /\ u.next_order_id \in Nat
    BY SoundUserParts DEF SoundUser, SoundOrder
  <2> QED
    BY <1>1, <2>1, OwnIdsKept
<1> HIDE DEF v, orders
<1>6. SoundUser(v, id)
  BY <1>2, <1>4, <1>5, <1>7 DEF SoundUser, SoundOrders
<1> QED
  BY <1>6 DEF v

(***************************************************************************)
(* What the operations make of an account.                                 *)
(***************************************************************************)

(* The record operations, field by field.                                  *)
LEMMA BidsAndAsks ==
  ASSUME NEW orders, NEW next, NEW open, NEW auctions, NEW in_position, NEW base,
         NEW bids \in Int, NEW asks \in Int, NEW direction \in PositionDirection, NEW amount \in Int
  PROVE  /\ increase_open_bids_and_asks(
              Account(orders, next, open, auctions, in_position, base, bids, asks), direction, amount) =
            Account(orders, next, open, auctions, in_position, base,
                    IF direction = "Long" THEN bids + amount ELSE bids,
                    IF direction = "Long" THEN asks ELSE asks - amount)
         /\ decrease_open_bids_and_asks(
              Account(orders, next, open, auctions, in_position, base, bids, asks), direction, amount) =
            Account(orders, next, open, auctions, in_position, base,
                    IF direction = "Long" THEN bids - amount ELSE bids,
                    IF direction = "Long" THEN asks ELSE asks + amount)
<1>1. bids + (-amount) = bids - amount /\ asks - (-amount) = asks + amount
  OBVIOUS
<1>2. ASSUME NEW n \in Int
      PROVE  increase_open_bids_and_asks(
               Account(orders, next, open, auctions, in_position, base, bids, asks), direction, n) =
             Account(orders, next, open, auctions, in_position, base,
                     IF direction = "Long" THEN bids + n ELSE bids,
                     IF direction = "Long" THEN asks ELSE asks - n)
  BY DEF increase_open_bids_and_asks, Account
<1>3. -amount \in Int
  OBVIOUS
<1> QED
  BY <1>1, <1>2, <1>3 DEF decrease_open_bids_and_asks

Emptied(orders, i) == [orders EXCEPT ![i] = NoOrder]

(* CloseSlot of an account that counts the order.                          *)
LEMMA ClosedSlot ==
  ASSUME NEW orders \in [Slots -> Orders], NEW next, NEW open \in Nat \ {0}, NEW auctions \in Nat,
         NEW in_position, NEW base, NEW bids, NEW asks, NEW i \in Slots,
         OneIf(has_auction(orders[i])) <= auctions
  PROVE  CloseSlot(Account(orders, next, open, auctions, in_position, base, bids, asks), i) =
         Account(Emptied(orders, i), next, open - 1,
                 auctions - OneIf(has_auction(orders[i])), in_position - 1, base, bids, asks)
<1> DEFINE u == Account(orders, next, open, auctions, in_position, base, bids, asks)
           ended == OneIf(has_auction(orders[i]))
<1>1. u.orders = orders
  BY DEF Account
<1>2. ended \in Nat
  BY DEF OneIf
<1>3. GreaterOf(open - 1, 0) = open - 1 /\ GreaterOf(auctions - ended, 0) = auctions - ended
  <2> HIDE DEF ended
  <2> QED
    BY <1>2 DEF GreaterOf, ended
<1>4. decrement_open_orders(u, has_auction(orders[i])) =
        Account(orders, next, open - 1, auctions - ended, in_position, base, bids, asks)
  <2>1. decrement_open_orders(u, has_auction(orders[i])) =
          Account(orders, next, GreaterOf(open - 1, 0), GreaterOf(auctions - ended, 0),
                  in_position, base, bids, asks)
    <3> DEFINE fewer == GreaterOf(open - 1, 0)
               fewer_auctions == GreaterOf(auctions - ended, 0)
    <3>1. u.open_orders = open /\ u.open_auctions = auctions
      BY DEF Account
    <3>2. decrement_open_orders(u, has_auction(orders[i])) =
            [u EXCEPT !.open_orders = GreaterOf(u.open_orders - 1, 0),
                      !.open_auctions = GreaterOf(u.open_auctions - ended, 0)]
      BY DEF decrement_open_orders, Account
    <3>3. decrement_open_orders(u, has_auction(orders[i])) =
            [u EXCEPT !.open_orders = fewer, !.open_auctions = fewer_auctions]
      BY <3>1, <3>2, Zenon
    <3> HIDE DEF fewer, fewer_auctions
    <3>4. [u EXCEPT !.open_orders = fewer, !.open_auctions = fewer_auctions] =
            Account(orders, next, fewer, fewer_auctions, in_position, base, bids, asks)
      <4>1. [u EXCEPT !.open_orders = fewer] =
              Account(orders, next, fewer, auctions, in_position, base, bids, asks)
        BY DEF Account
      <4>2. [Account(orders, next, fewer, auctions, in_position, base, bids, asks) EXCEPT
               !.open_auctions = fewer_auctions] =
              Account(orders, next, fewer, fewer_auctions, in_position, base, bids, asks)
        BY DEF Account
      <4> HIDE DEF u
      <4> QED
        BY <4>1, <4>2, Zenon
    <3> QED
      BY <3>3, <3>4 DEF fewer, fewer_auctions
  <2> QED
    BY <1>3, <2>1, Zenon
<1>5. CloseSlot(u, i) =
        [Account(orders, next, open - 1, auctions - ended, in_position, base, bids, asks) EXCEPT
           !.orders[i] = NoOrder, !.position_orders = @ - 1]
  BY <1>1, <1>4, Zenon DEF CloseSlot
<1> HIDE DEF ended, u
<1>6. CloseSlot(u, i) =
        Account([orders EXCEPT ![i] = NoOrder], next, open - 1, auctions - ended, in_position - 1,
                base, bids, asks)
  BY <1>5 DEF Account
<1> QED
  BY <1>6 DEF u, ended, Emptied

(* A cancelled order leaves an empty slot, and the counters follow.        *)
LEMMA CancelIs ==
  ASSUME NEW u, NEW id, SoundUser(u, id), NEW i \in Slots, IsOpen(u.orders[i])
  PROVE  cancel_order(u, i) = Changed(u, i, NoOrder, u.next_order_id, u.base_asset_amount)
<1> DEFINE o == u.orders[i]
           freed == IF IsLive(o) THEN Unfilled(o) ELSE 0
           bids == IF o.direction = "Long" THEN u.open_bids - freed ELSE u.open_bids
           asks == IF o.direction = "Long" THEN u.open_asks ELSE u.open_asks + freed
           orders == [u.orders EXCEPT ![i] = NoOrder]
           auctions == u.open_auctions - OneIf(has_auction(o))
<1>1. /\ u \in UserRecords /\ u.orders \in [Slots -> Orders] /\ SoundOrders(u.orders, id)
      /\ u.open_orders \in Nat /\ u.open_auctions \in Nat /\ u.position_orders \in Nat
      /\ u.open_bids \in Nat /\ u.open_asks \in Int
  BY SoundUserParts
<1>2. SoundOrder(o, id) /\ o.direction \in PositionDirection
  BY <1>1 DEF SoundOrders, Orders
<1>3. Unfilled(o) \in Nat
  BY <1>2, Contributions
<1>4. u.open_orders # 0 /\ OneIf(has_auction(o)) <= u.open_auctions
  BY <1>1, SlotInSums DEF SoundUser, OneIf
<1>5. decrease_open_bids_and_asks(u, o.direction, freed) =
        Account(u.orders, u.next_order_id, u.open_orders, u.open_auctions,
                u.position_orders, u.base_asset_amount, bids, asks)
  <2>1. u = Account(u.orders, u.next_order_id, u.open_orders, u.open_auctions,
                    u.position_orders, u.base_asset_amount, u.open_bids, u.open_asks)
    BY <1>1, AccountFields
  <2>2. freed \in Int /\ u.open_bids \in Int
    BY <1>1, <1>3
  <2>3. decrease_open_bids_and_asks(
          Account(u.orders, u.next_order_id, u.open_orders, u.open_auctions,
                  u.position_orders, u.base_asset_amount, u.open_bids, u.open_asks), o.direction, freed) =
        Account(u.orders, u.next_order_id, u.open_orders, u.open_auctions,
                u.position_orders, u.base_asset_amount, bids, asks)
    <3> HIDE DEF freed, o
    <3> QED
      BY <1>1, <1>2, <2>2, BidsAndAsks
  <2> HIDE DEF freed, o, bids, asks
  <2> QED
    BY <2>1, <2>3
<1>6. cancel_order(u, i) =
        Account(orders, u.next_order_id, u.open_orders - 1, auctions, u.position_orders - 1,
                u.base_asset_amount, bids, asks)
  <2>1. cancel_order(u, i) =
          CloseSlot(Account(u.orders, u.next_order_id, u.open_orders, u.open_auctions,
                            u.position_orders, u.base_asset_amount, bids, asks), i)
    BY <1>5, Zenon DEF cancel_order
  <2> DEFINE before == u.orders
  <2>2. orders = Emptied(before, i) /\ before \in [Slots -> Orders]
    BY <1>1 DEF Emptied
  <2> HIDE DEF bids, asks, orders
  <2>3. CloseSlot(Account(before, u.next_order_id, u.open_orders, u.open_auctions,
                          u.position_orders, u.base_asset_amount, bids, asks), i) =
          Account(orders, u.next_order_id, u.open_orders - 1,
                  u.open_auctions - OneIf(has_auction(before[i])), u.position_orders - 1,
                  u.base_asset_amount, bids, asks)
    BY <1>1, <1>4, <2>2, ClosedSlot
  <2> QED
    BY <2>1, <2>3
<1>7. /\ (u.open_orders - OneIf(IsOpen(o))) + OneIf(IsOpen(NoOrder)) = u.open_orders - 1
      /\ (u.open_auctions - OneIf(has_auction(o))) + OneIf(has_auction(NoOrder)) = auctions
      /\ (u.position_orders - OneIf(IsOpen(o))) + OneIf(IsOpen(NoOrder)) = u.position_orders - 1
  BY <1>1, EmptySlot DEF OneIf
<1>8. /\ (u.open_bids - LiveUnfilled(o, "Long")) + LiveUnfilled(NoOrder, "Long") = bids
      /\ (u.open_asks + LiveUnfilled(o, "Short")) - LiveUnfilled(NoOrder, "Short") = asks
  <2>1. LiveUnfilled(NoOrder, "Long") = 0 /\ LiveUnfilled(NoOrder, "Short") = 0
    BY EmptySlot
  <2>2. o.direction = "Long" \/ o.direction = "Short"
    BY <1>2 DEF PositionDirection
  <2>3. CASE o.direction = "Long"
    <3>1. LiveUnfilled(o, "Long") = freed /\ LiveUnfilled(o, "Short") = 0
      BY <2>3 DEF LiveUnfilled
    <3> QED
      BY <1>1, <1>3, <2>1, <2>3, <3>1
  <2>4. CASE o.direction = "Short"
    <3>1. LiveUnfilled(o, "Short") = freed /\ LiveUnfilled(o, "Long") = 0
      BY <2>4 DEF LiveUnfilled
    <3> QED
      BY <1>1, <1>3, <2>1, <2>4, <3>1
  <2> QED
    BY <2>2, <2>3, <2>4
<1> HIDE DEF bids, asks, auctions
<1> QED
  BY <1>6, <1>7, <1>8, Zenon DEF Changed

(* An open order o is what is left of order k.                             *)
LeftOf(o, k) ==
  IsOpen(o) =>
    /\ IsOpen(k) /\ o.order_id = k.order_id /\ o.order_type = k.order_type
    /\ o.direction = k.direction /\ o.price = k.price /\ o.max_ts = k.max_ts
    /\ o.reduce_only = k.reduce_only /\ o.post_only = k.post_only
    /\ o.trigger_condition = k.trigger_condition

(* No order of v is new since u.                                           *)
OrdersLeft(v, u) ==
  /\ v.next_order_id = u.next_order_id
  /\ \A i \in Slots : LeftOf(v.orders[i], u.orders[i])

(* What is left of an open order has the side and the flags of the order.  *)
LEMMA LeftOfFacts ==
  ASSUME NEW o, NEW k, LeftOf(o, k), IsOpen(o)
  PROVE  /\ IsOpen(k) /\ (IsLive(k) <=> IsLive(o)) /\ o.direction = k.direction
         /\ o.reduce_only = k.reduce_only /\ o.post_only = k.post_only
BY DEF LeftOf, IsLive, must_be_triggered, triggered

(* What is left of what is left.                                           *)
LEMMA OrdersLeftTwice ==
  ASSUME NEW u, NEW v, NEW w, OrdersLeft(v, u), OrdersLeft(w, v)
  PROVE  OrdersLeft(w, u)
BY DEF OrdersLeft, LeftOf

(* All of an account is left of it.                                        *)
LEMMA OrdersLeftSelf ==
  ASSUME NEW u
  PROVE  OrdersLeft(u, u)
BY DEF OrdersLeft, LeftOf

(* What a change of one slot leaves alone.                                 *)
LEMMA ChangedFields ==
  ASSUME NEW u, NEW id, SoundUser(u, id), NEW i \in Slots, NEW o, NEW next, NEW base,
         NEW v, v = Changed(u, i, o, next, base)
  PROVE  /\ v.next_order_id = next /\ v.base_asset_amount = base
         /\ v.orders[i] = o
         /\ \A j \in Slots \ {i} : v.orders[j] = u.orders[j]
         /\ (LeftOf(o, u.orders[i]) /\ next = u.next_order_id) => OrdersLeft(v, u)
<1>1. /\ v.orders = [u.orders EXCEPT ![i] = o]
      /\ v.next_order_id = next /\ v.base_asset_amount = base
  BY DEF Changed, Account
<1>2. u.orders \in [Slots -> Orders]
  BY SoundUserParts
<1>3. /\ v.orders[i] = o
      /\ \A j \in Slots \ {i} : v.orders[j] = u.orders[j]
  BY <1>1, <1>2
<1>4. ASSUME LeftOf(o, u.orders[i]), next = u.next_order_id
      PROVE  OrdersLeft(v, u)
  <2>1. ASSUME NEW j \in Slots PROVE LeftOf(v.orders[j], u.orders[j])
    <3>1. CASE j = i
      BY <1>3, <1>4, <3>1
    <3>2. CASE j # i
      <4>1. v.orders[j] = u.orders[j]
        BY <1>3, <3>2
      <4> QED
        BY <4>1 DEF LeftOf
    <3> QED
      BY <3>1, <3>2
  <2> QED
    BY <1>1, <1>4, <2>1 DEF OrdersLeft
<1> QED
  BY <1>1, <1>3, <1>4

(* One cancellation.                                                       *)
LEMMA CancelSound ==
  ASSUME NEW u, NEW id, SoundUser(u, id), NEW i \in Slots, IsOpen(u.orders[i])
  PROVE  /\ SoundUser(cancel_order(u, i), id)
         /\ OrdersLeft(cancel_order(u, i), u)
         /\ cancel_order(u, i).base_asset_amount = u.base_asset_amount
         /\ ~IsOpen(cancel_order(u, i).orders[i])
         /\ \A j \in Slots \ {i} : cancel_order(u, i).orders[j] = u.orders[j]
<1> DEFINE v == cancel_order(u, i)
           next == u.next_order_id
           base == u.base_asset_amount
<1>1. v = Changed(u, i, NoOrder, next, base)
  BY CancelIs
<1>2. next \in Nat \ {0} /\ base \in Int /\ SoundOrder(NoOrder, id) /\ ~IsOpen(NoOrder)
  BY SoundUserParts, EmptySlot
<1>3. SoundUser(v, id)
  <2>1. TakesId(u, i, NoOrder, next)
    BY <1>2 DEF TakesId
  <2> HIDE DEF v, next, base
  <2> QED
    BY <1>1, <1>2, <2>1, ChangedIsSound
<1>4. LeftOf(NoOrder, u.orders[i])
  BY <1>2 DEF LeftOf
<1>5. /\ v.next_order_id = next /\ v.base_asset_amount = base
      /\ v.orders[i] = NoOrder
      /\ \A j \in Slots \ {i} : v.orders[j] = u.orders[j]
      /\ (LeftOf(NoOrder, u.orders[i]) /\ next = u.next_order_id) => OrdersLeft(v, u)
  <2> DEFINE empty == NoOrder
  <2>1. v = Changed(u, i, empty, next, base)
    BY <1>1
  <2> HIDE DEF v, next, base, empty
  <2>2. /\ v.next_order_id = next /\ v.base_asset_amount = base
        /\ v.orders[i] = empty
        /\ \A j \in Slots \ {i} : v.orders[j] = u.orders[j]
        /\ (LeftOf(empty, u.orders[i]) /\ next = u.next_order_id) => OrdersLeft(v, u)
    BY <2>1, ChangedFields
  <2> QED
    BY <2>2 DEF empty
<1> QED
  BY <1>2, <1>3, <1>4, <1>5

(* One round of cancel_orders: the slot is emptied if it is to be, and no  *)
(* other is touched.                                                       *)
LEMMA CancelInSound ==
  ASSUME NEW u, NEW id, SoundUser(u, id), NEW i \in Slots, NEW S
  PROVE  /\ SoundUser(CancelIn(u, S, i), id)
         /\ OrdersLeft(CancelIn(u, S, i), u)
         /\ CancelIn(u, S, i).base_asset_amount = u.base_asset_amount
         /\ i \in S => ~IsOpen(CancelIn(u, S, i).orders[i])
         /\ \A j \in Slots \ {i} : CancelIn(u, S, i).orders[j] = u.orders[j]
         /\ i \notin S => CancelIn(u, S, i) = u
<1>1. CASE i \in S /\ IsOpen(u.orders[i])
  BY <1>1, CancelSound DEF CancelIn
<1>2. CASE ~(i \in S /\ IsOpen(u.orders[i]))
  BY <1>2, OrdersLeftSelf DEF CancelIn
<1> QED
  BY <1>1, <1>2

(* The loop of CancelAll, as a function.                                   *)
IsCancelLoop(g, u, S) ==
  g = [n \in 0 .. MaxOrders |-> IF n = 0 THEN u ELSE CancelIn(g[n - 1], S, n)]

(* What every account of the loop is.                                      *)
SoundLeft(u, id) ==
  {v \in UserRecords : /\ SoundUser(v, id) /\ OrdersLeft(v, u)
                       /\ v.base_asset_amount = u.base_asset_amount}

(* cancel_orders goes through sound accounts, one for each slot it has     *)
(* passed.                                                                 *)
LEMMA CancelLoop ==
  ASSUME NEW u, NEW id, SoundUser(u, id), NEW S
  PROVE  \E h \in [0 .. MaxOrders -> SoundLeft(u, id)] :
           /\ CancelAll(u, S) = h[MaxOrders]
           /\ h[0] = u
           /\ \A n \in Slots : h[n] = CancelIn(h[n - 1], S, n)
<1> DEFINE B == SoundLeft(u, id)
           step == [p \in B \X (1 .. MaxOrders) |-> CancelIn(p[1], S, p[2])]
           loop == CHOOSE g : IsCancelLoop(g, u, S)
<1>0. MaxOrders \in Nat
  BY OrderAssumption
<1>1. u \in B
  BY OrdersLeftSelf, SoundUserParts DEF SoundLeft
<1>2. ASSUME NEW v \in B, NEW n \in 1 .. MaxOrders
      PROVE  CancelIn(v, S, n) \in B
  <2>1. SoundUser(v, id) /\ OrdersLeft(v, u) /\ v.base_asset_amount = u.base_asset_amount /\ n \in Slots
    BY DEF SoundLeft, Slots
  <2>2. /\ SoundUser(CancelIn(v, S, n), id) /\ OrdersLeft(CancelIn(v, S, n), v)
        /\ CancelIn(v, S, n).base_asset_amount = v.base_asset_amount
    BY <2>1, CancelInSound
  <2>3. CancelIn(v, S, n) \in UserRecords /\ OrdersLeft(CancelIn(v, S, n), u)
    BY <2>1, <2>2, SoundUserParts, OrdersLeftTwice
  <2> QED
    BY <2>1, <2>2, <2>3 DEF SoundLeft
<1> HIDE DEF B
<1>3. step \in StepsUpTo(B, MaxOrders)
  BY <1>2 DEF StepsUpTo
<1>4. PICK f \in [0 .. MaxOrders -> B] : IsRun(f, u, step, MaxOrders)
  <2> HIDE DEF step
  <2> QED
    BY <1>0, <1>1, <1>3, RecursionExists
<1>5. ASSUME NEW n \in 1 .. MaxOrders PROVE f[n] = CancelIn(f[n - 1], S, n)
  <2>1. n - 1 \in 0 .. MaxOrders
    BY <1>0
  <2>2. <<f[n - 1], n>> \in B \X (1 .. MaxOrders)
    BY <1>4, <2>1
  <2> QED
    BY <1>4, <2>2 DEF IsRun
<1>6. IsCancelLoop(f, u, S)
  <2>1. ASSUME NEW n \in 0 .. MaxOrders
        PROVE  f[n] = IF n = 0 THEN u ELSE CancelIn(f[n - 1], S, n)
    <3>1. CASE n = 0
      BY <1>4, <3>1 DEF IsRun
    <3>2. CASE n # 0
      BY <1>0, <1>5, <3>2
    <3> QED
      BY <3>1, <3>2
  <2> QED
    BY <1>4, <2>1 DEF IsCancelLoop
<1>7. IsCancelLoop(loop, u, S)
  BY <1>6
<1>8. CancelAll(u, S) = loop[MaxOrders]
  BY Zenon DEF CancelAll, IsCancelLoop
<1> HIDE DEF loop, step
<1>9. loop[0] = u /\ \A n \in 1 .. MaxOrders : loop[n] = CancelIn(loop[n - 1], S, n)
  <2>1. ASSUME NEW n \in 0 .. MaxOrders
        PROVE  loop[n] = IF n = 0 THEN u ELSE CancelIn(loop[n - 1], S, n)
    BY <1>7 DEF IsCancelLoop
  <2>2. 0 \in 0 .. MaxOrders /\ \A n \in 1 .. MaxOrders : n \in 0 .. MaxOrders /\ n # 0
    BY <1>0
  <2> QED
    BY <2>1, <2>2
<1>10. loop \in [0 .. MaxOrders -> B]
  <2> DEFINE K == {n \in 0 .. MaxOrders : loop[n] \in B}
  <2>1. K \in SUBSET (0 .. MaxOrders) /\ 0 \in K
    BY <1>0, <1>1, <1>9
  <2>2. ASSUME NEW n \in K, n < MaxOrders PROVE n + 1 \in K
    <3>1. n + 1 \in 1 .. MaxOrders /\ (n + 1) - 1 = n /\ n + 1 \in 0 .. MaxOrders
      BY <1>0, <2>2
    <3>2. loop[n + 1] = CancelIn(loop[n], S, n + 1)
      BY <1>9, <3>1
    <3> QED
      BY <1>2, <3>1, <3>2
  <2> HIDE DEF K
  <2>3. K = 0 .. MaxOrders
    BY <1>0, <2>1, <2>2, IntervalInduction
  <2>4. \A n \in 0 .. MaxOrders : loop[n] \in B
    BY <2>3 DEF K
  <2>5. loop = [n \in 0 .. MaxOrders |-> loop[n]]
    BY <1>7 DEF IsCancelLoop
  <2> QED
    BY <2>4, <2>5
<1> QED
  BY <1>8, <1>9, <1>10 DEF B, Slots

(* All orders in S are cancelled, and nothing else changes.                *)
LEMMA CancelAllSound ==
  ASSUME NEW u, NEW id, SoundUser(u, id), NEW S
  PROVE  /\ SoundUser(CancelAll(u, S), id)
         /\ OrdersLeft(CancelAll(u, S), u)
         /\ CancelAll(u, S).base_asset_amount = u.base_asset_amount
         /\ \A i \in Slots \cap S : ~IsOpen(CancelAll(u, S).orders[i])
<1>0. MaxOrders \in Nat
  BY OrderAssumption
<1>1. PICK h \in [0 .. MaxOrders -> SoundLeft(u, id)] :
        /\ CancelAll(u, S) = h[MaxOrders]
        /\ h[0] = u
        /\ \A n \in Slots : h[n] = CancelIn(h[n - 1], S, n)
  BY CancelLoop
<1> DEFINE K == {n \in 0 .. MaxOrders : \A i \in Slots \cap S : i <= n => ~IsOpen(h[n].orders[i])}
<1>2. K \in SUBSET (0 .. MaxOrders) /\ 0 \in K
  BY <1>0 DEF Slots
<1>3. ASSUME NEW n \in K, n < MaxOrders PROVE n + 1 \in K
  <2>1. /\ n + 1 \in Slots /\ (n + 1) - 1 = n /\ n + 1 \in 0 .. MaxOrders /\ n \in 0 .. MaxOrders
        /\ n \in Nat
    BY <1>0, <1>3 DEF Slots
  <2>2. h[n + 1] = CancelIn(h[n], S, n + 1)
    BY <1>1, <2>1
  <2>3. SoundUser(h[n], id)
    BY <1>1, <2>1 DEF SoundLeft
  <2>4. /\ n + 1 \in S => ~IsOpen(h[n + 1].orders[n + 1])
        /\ \A j \in Slots \ {n + 1} : h[n + 1].orders[j] = h[n].orders[j]
    BY <2>1, <2>2, <2>3, CancelInSound
  <2>5. ASSUME NEW i \in Slots \cap S, i <= n + 1 PROVE ~IsOpen(h[n + 1].orders[i])
    <3>1. CASE i = n + 1
      BY <2>4, <3>1
    <3>2. CASE i # n + 1
      <4>1. i <= n
        BY <2>1, <2>5, <3>2 DEF Slots
      <4> QED
        BY <1>3, <2>4, <3>2, <4>1
    <3> QED
      BY <3>1, <3>2
  <2> QED
    BY <2>1, <2>5
<1>4. MaxOrders \in K
  <2> HIDE DEF K
  <2>1. K = 0 .. MaxOrders
    BY <1>0, <1>2, <1>3, IntervalInduction
  <2> QED
    BY <1>0, <2>1
<1>5. \A i \in Slots \cap S : ~IsOpen(h[MaxOrders].orders[i])
  BY <1>0, <1>4 DEF Slots
<1>6. h[MaxOrders] \in SoundLeft(u, id)
  BY <1>0, <1>1
<1> QED
  BY <1>1, <1>5, <1>6 DEF SoundLeft

(* The orders that are not in S stay as they are.                          *)
LEMMA CancelAllKeeps ==
  ASSUME NEW u, NEW id, SoundUser(u, id), NEW S
  PROVE  \A i \in Slots \ S : CancelAll(u, S).orders[i] = u.orders[i]
<1>0. MaxOrders \in Nat
  BY OrderAssumption
<1>1. PICK h \in [0 .. MaxOrders -> SoundLeft(u, id)] :
        /\ CancelAll(u, S) = h[MaxOrders]
        /\ h[0] = u
        /\ \A n \in Slots : h[n] = CancelIn(h[n - 1], S, n)
  BY CancelLoop
<1> DEFINE K == {n \in 0 .. MaxOrders : \A i \in Slots \ S : h[n].orders[i] = u.orders[i]}
<1>2. K \in SUBSET (0 .. MaxOrders) /\ 0 \in K
  BY <1>0, <1>1
<1>3. ASSUME NEW n \in K, n < MaxOrders PROVE n + 1 \in K
  <2>1. n + 1 \in Slots /\ (n + 1) - 1 = n /\ n + 1 \in 0 .. MaxOrders /\ n \in 0 .. MaxOrders
    BY <1>0, <1>3 DEF Slots
  <2>2. h[n + 1] = CancelIn(h[n], S, n + 1)
    BY <1>1, <2>1
  <2>3. SoundUser(h[n], id)
    BY <1>1, <2>1 DEF SoundLeft
  <2>4. /\ n + 1 \notin S => h[n + 1] = h[n]
        /\ \A j \in Slots \ {n + 1} : h[n + 1].orders[j] = h[n].orders[j]
    BY <2>1, <2>2, <2>3, CancelInSound
  <2>5. ASSUME NEW i \in Slots \ S PROVE h[n + 1].orders[i] = u.orders[i]
    BY <1>3, <2>4
  <2> QED
    BY <2>1, <2>5
<1>4. MaxOrders \in K
  <2> HIDE DEF K
  <2>1. K = 0 .. MaxOrders
    BY <1>0, <1>2, <1>3, IntervalInduction
  <2> QED
    BY <1>0, <2>1
<1> QED
  BY <1>1, <1>4

(* No order of a sound account at rest must be filled at once, and such an *)
(* account is sound whichever order may.                                   *)
LEMMA AtRest ==
  ASSUME NEW u, SoundUser(u, 0), NEW id
  PROVE  /\ \A i \in Slots : ~u.orders[i].immediate_or_cancel
         /\ SoundUser(u, id)
<1>1. ASSUME NEW i \in Slots PROVE ~u.orders[i].immediate_or_cancel /\ SoundOrder(u.orders[i], id)
  <2> DEFINE o == u.orders[i]
  <2>1. SoundOrder(o, 0)
    BY DEF SoundUser
  <2>2. o.immediate_or_cancel \in BOOLEAN /\ o.order_id \in Nat
    BY <2>1 DEF SoundOrder, Orders
  <2>3. NoOrder.immediate_or_cancel = FALSE
    BY DEF NoOrder
  <2> HIDE DEF o
  <2>4. ~o.immediate_or_cancel
    BY <2>1, <2>2, <2>3 DEF SoundOrder
  <2>5. SoundOrder(o, id)
    BY <2>1, <2>4 DEF SoundOrder
  <2> QED
    BY <2>4, <2>5 DEF o
<1> QED
  BY <1>1 DEF SoundUser

(* Once the order just placed is cancelled the account is at rest.         *)
LEMMA CancelByIdSound ==
  ASSUME NEW u, NEW id, SoundUser(u, id)
  PROVE  /\ SoundUser(CancelById(u, id), 0)
         /\ CancelById(u, id).base_asset_amount = u.base_asset_amount
         /\ CancelById(u, id).next_order_id = u.next_order_id
<1> DEFINE v == CancelById(u, id)
<1>1. /\ SoundUser(v, id) /\ OrdersLeft(v, u) /\ v.base_asset_amount = u.base_asset_amount
      /\ \A i \in Slots \cap SlotsOf(u, id) : ~IsOpen(v.orders[i])
  BY CancelAllSound DEF CancelById
<1>2. ASSUME NEW i \in Slots PROVE SoundOrder(v.orders[i], 0)
  <2> DEFINE o == v.orders[i]
  <2>1. SoundOrder(o, id) /\ LeftOf(o, u.orders[i]) /\ (i \in SlotsOf(u, id) => ~IsOpen(o))
    BY <1>1 DEF SoundUser, OrdersLeft
  <2>2. ~IsOpen(o) => o.immediate_or_cancel = FALSE
    BY <2>1 DEF SoundOrder, NoOrder
  <2>3. IsOpen(o) => o.order_id # id
    BY <2>1 DEF LeftOf, SlotsOf
  <2> HIDE DEF o
  <2>4. SoundOrder(o, 0)
    BY <2>1, <2>2, <2>3 DEF SoundOrder
  <2> QED
    BY <2>4 DEF o
<1> QED
  BY <1>1, <1>2 DEF SoundUser, OrdersLeft, OwnIds

(* A fill.                                                                 *)
FilledOrder(o, amount) == [o EXCEPT !.base_asset_amount_filled = o.base_asset_amount_filled + amount]

RestOf(o, amount) == IF amount = Unfilled(o) THEN NoOrder ELSE FilledOrder(o, amount)

(* A fill takes its amount off what is left of the order; the order stays  *)
(* sound unless nothing is left.                                           *)
LEMMA FilledOrderFacts ==
  ASSUME NEW o, NEW id, SoundOrder(o, id), IsLive(o), NEW amount \in Nat, amount <= Unfilled(o)
  PROVE  LET f == FilledOrder(o, amount)
         IN  /\ f \in Orders
             /\ Unfilled(f) = Unfilled(o) - amount
             /\ IsLive(f) /\ IsOpen(f) /\ (has_auction(f) <=> has_auction(o))
             /\ f.direction = o.direction
             /\ LeftOf(f, o)
             /\ amount < Unfilled(o) => SoundOrder(f, id)
<1> DEFINE f == FilledOrder(o, amount)
<1>1. o \in Orders
  BY DEF SoundOrder
<1>2. o.base_asset_amount \in Nat /\ o.base_asset_amount_filled \in Nat
  BY <1>1 DEF Orders
<1>3. /\ f \in Orders
      /\ f.base_asset_amount_filled = o.base_asset_amount_filled + amount
      /\ f.base_asset_amount = o.base_asset_amount
      /\ f.status = o.status /\ f.order_id = o.order_id /\ f.order_type = o.order_type
      /\ f.direction = o.direction /\ f.price = o.price /\ f.max_ts = o.max_ts
      /\ f.reduce_only = o.reduce_only /\ f.post_only = o.post_only
      /\ f.immediate_or_cancel = o.immediate_or_cancel
      /\ f.trigger_condition = o.trigger_condition
      /\ f.auction_duration = o.auction_duration
  BY <1>1, <1>2 DEF FilledOrder, Orders
<1> HIDE DEF f
<1>4. Unfilled(f) = Unfilled(o) - amount
  BY <1>2, <1>3 DEF Unfilled
<1>5. IsLive(f) /\ IsOpen(f) /\ (has_auction(f) <=> has_auction(o)) /\ LeftOf(f, o)
  BY <1>3 DEF IsLive, IsOpen, has_auction, must_be_triggered, triggered, LeftOf
<1>6. ASSUME amount < Unfilled(o) PROVE SoundOrder(f, id)
  <2>1. ~WaitsForTrigger(f)
    BY <1>5 DEF IsLive, WaitsForTrigger
  <2>2. f.base_asset_amount_filled < f.base_asset_amount
    BY <1>2, <1>3, <1>6 DEF Unfilled
  <2>3. /\ o.order_id > 0 /\ (o.immediate_or_cancel => o.order_id = id)
        /\ o.post_only => o.order_type = "Limit"
    BY DEF SoundOrder, IsLive
  <2> QED
    BY <1>3, <1>5, <2>1, <2>2, <2>3 DEF SoundOrder
<1> QED
  BY <1>3, <1>4, <1>5, <1>6 DEF f

(* What a fill leaves in the slot, an empty slot when the order is filled, *)
(* is sound.                                                               *)
LEMMA RestOfFacts ==
  ASSUME NEW o, NEW id, SoundOrder(o, id), IsLive(o), NEW amount \in Nat, amount <= Unfilled(o)
  PROVE  /\ SoundOrder(RestOf(o, amount), id)
         /\ LeftOf(RestOf(o, amount), o)
         /\ Unfilled(RestOf(o, amount)) = Unfilled(o) - amount
<1>0. Unfilled(o) \in Nat
  BY Contributions
<1>1. CASE amount = Unfilled(o)
  BY <1>0, <1>1, EmptySlot DEF RestOf, LeftOf
<1>2. CASE amount # Unfilled(o)
  <2>1. amount < Unfilled(o)
    BY <1>0, <1>2
  <2> QED
    BY <1>2, <2>1, FilledOrderFacts DEF RestOf
<1> QED
  BY <1>1, <1>2

(* The two updates of a fill at once.                                      *)
LEMMA MovedIs ==
  ASSUME NEW u \in UserRecords, NEW i \in Slots, NEW amount, NEW base,
         base = u.base_asset_amount + Signed(u.orders[i].direction, amount)
  PROVE  [u EXCEPT !.base_asset_amount = @ + Signed(u.orders[i].direction, amount),
                   !.orders[i].base_asset_amount_filled = @ + amount] =
         Account([u.orders EXCEPT ![i] = FilledOrder(u.orders[i], amount)], u.next_order_id,
                 u.open_orders, u.open_auctions, u.position_orders, base, u.open_bids, u.open_asks)
<1> DEFINE orders == u.orders
           o == orders[i]
           filled == o.base_asset_amount_filled + amount
           f == [o EXCEPT !.base_asset_amount_filled = filled]
           v == Account(orders, u.next_order_id, u.open_orders, u.open_auctions,
                        u.position_orders, base, u.open_bids, u.open_asks)
<1>1. u = Account(orders, u.next_order_id, u.open_orders, u.open_auctions,
                  u.position_orders, u.base_asset_amount, u.open_bids, u.open_asks)
  BY AccountFields
<1>2. [u EXCEPT !.base_asset_amount = base] = v
  <2> DEFINE w == Account(orders, u.next_order_id, u.open_orders, u.open_auctions,
                          u.position_orders, u.base_asset_amount, u.open_bids, u.open_asks)
  <2>1. [w EXCEPT !.base_asset_amount = base] = v
    BY DEF Account
  <2> HIDE DEF w
  <2> QED
    BY <1>1, <2>1, Zenon DEF w
<1>3. v.orders = orders /\ v.orders[i] = o
  BY DEF Account
<1>4. [u EXCEPT !.base_asset_amount = @ + Signed(u.orders[i].direction, amount),
                !.orders[i].base_asset_amount_filled = @ + amount] =
      [v EXCEPT !.orders[i].base_asset_amount_filled = @ + amount]
  <2> HIDE DEF v
  <2> QED
    BY <1>2
<1>5. [v EXCEPT !.orders[i].base_asset_amount_filled = @ + amount] = [v EXCEPT !.orders = [orders EXCEPT ![i] = f]]
  <2> HIDE DEF v, orders
  <2> QED
    BY <1>3
<1>6. [v EXCEPT !.orders = [orders EXCEPT ![i] = f]] =
        Account([orders EXCEPT ![i] = f], u.next_order_id, u.open_orders, u.open_auctions,
                u.position_orders, base, u.open_bids, u.open_asks)
  <2> DEFINE after == [orders EXCEPT ![i] = f]
  <2> HIDE DEF after
  <2>1. [v EXCEPT !.orders = after] =
          Account(after, u.next_order_id, u.open_orders, u.open_auctions,
                  u.position_orders, base, u.open_bids, u.open_asks)
    BY DEF Account
  <2> QED
    BY <2>1 DEF after
<1> QED
  BY <1>4, <1>5, <1>6, Zenon DEF FilledOrder

(* update_order_after_fill puts what is left into the slot, moves the      *)
(* position and corrects the counters by the difference of the two orders. *)
LEMMA FillIs ==
  ASSUME NEW u, NEW id, SoundUser(u, id), NEW i \in Slots, IsLive(u.orders[i]),
         NEW amount \in Nat, amount <= Unfilled(u.orders[i])
  PROVE  FillSlot(u, i, amount) =
           Changed(u, i, RestOf(u.orders[i], amount), u.next_order_id,
                   u.base_asset_amount + Signed(u.orders[i].direction, amount))
<1> DEFINE o == u.orders[i]
           f == FilledOrder(o, amount)
           orders == [u.orders EXCEPT ![i] = f]
           base == u.base_asset_amount + Signed(o.direction, amount)
           bids == IF o.direction = "Long" THEN u.open_bids - amount ELSE u.open_bids
           asks == IF o.direction = "Long" THEN u.open_asks ELSE u.open_asks + amount
           freed == Account(orders, u.next_order_id, u.open_orders, u.open_auctions,
                            u.position_orders, base, bids, asks)
           rest == RestOf(o, amount)
<1>1. /\ u \in UserRecords /\ u.orders \in [Slots -> Orders] /\ SoundOrders(u.orders, id)
      /\ u.open_orders \in Nat /\ u.open_auctions \in Nat /\ u.position_orders \in Nat
      /\ u.open_bids \in Nat /\ u.open_asks \in Int /\ u.base_asset_amount \in Int
  BY SoundUserParts
<1>2. /\ SoundOrder(o, id) /\ o.direction \in PositionDirection /\ Unfilled(o) \in Nat
      /\ IsOpen(o) /\ IsLive(o) /\ amount <= Unfilled(o)
  <2>1. SoundOrder(o, id) /\ o.direction \in PositionDirection
    BY <1>1 DEF SoundOrders, Orders
  <2> QED
    BY <2>1, Contributions DEF IsLive
<1>3. /\ f \in Orders /\ Unfilled(f) = Unfilled(o) - amount
      /\ IsLive(f) /\ IsOpen(f) /\ (has_auction(f) <=> has_auction(o)) /\ f.direction = o.direction
  <2> HIDE DEF o
  <2> QED
    BY <1>2, FilledOrderFacts
<1>4. u.open_orders # 0 /\ OneIf(has_auction(o)) <= u.open_auctions
  BY <1>1, <1>2, SlotInSums DEF SoundUser, OneIf
<1>5. decrease_open_bids_and_asks(
        [u EXCEPT !.base_asset_amount = @ + Signed(o.direction, amount),
                  !.orders[i].base_asset_amount_filled = @ + amount], o.direction, amount) = freed
  <2> DEFINE moved == Account(orders, u.next_order_id, u.open_orders, u.open_auctions,
                              u.position_orders, base, u.open_bids, u.open_asks)
  <2>1. [u EXCEPT !.base_asset_amount = @ + Signed(o.direction, amount),
                  !.orders[i].base_asset_amount_filled = @ + amount] = moved
    BY <1>1, MovedIs
  <2>2. decrease_open_bids_and_asks(moved, o.direction, amount) = freed
    <3> HIDE DEF o, orders, base
    <3>1. u.open_bids \in Int /\ amount \in Int
      BY <1>1
    <3> QED
      BY <1>1, <1>2, <3>1, BidsAndAsks
  <2> HIDE DEF moved, freed
  <2> QED
    BY <2>1, <2>2, Zenon
<1>6. FillSlot(u, i, amount) = IF Unfilled(freed.orders[i]) = 0 THEN CloseSlot(freed, i) ELSE freed
  <2> DEFINE dec == decrease_open_bids_and_asks(
                      [u EXCEPT !.base_asset_amount = @ + Signed(o.direction, amount),
                                !.orders[i].base_asset_amount_filled = @ + amount], o.direction, amount)
  <2>1. FillSlot(u, i, amount) = IF Unfilled(dec.orders[i]) = 0 THEN CloseSlot(dec, i) ELSE dec
    BY DEF FillSlot
  <2>2. dec = freed
    BY <1>5
  <2> HIDE DEF dec, freed
  <2> QED
    BY <2>1, <2>2, Zenon
<1>7. freed.orders = orders /\ orders[i] = f /\ orders \in [Slots -> Orders]
  <2>1. freed.orders = orders
    BY DEF Account
  <2> HIDE DEF f
  <2> QED
    BY <1>1, <1>3, <2>1
<1>8. CASE amount = Unfilled(o)
  <2>1. FillSlot(u, i, amount) = CloseSlot(freed, i)
    <3>1. Unfilled(freed.orders[i]) = 0
      BY <1>2, <1>3, <1>7, <1>8
    <3> QED
      BY <1>6, <3>1
  <2>2. [orders EXCEPT ![i] = NoOrder] = [u.orders EXCEPT ![i] = NoOrder]
    BY <1>1
  <2>3. OneIf(has_auction(f)) = OneIf(has_auction(o))
    BY <1>3 DEF OneIf
  <2>4. CloseSlot(freed, i) =
          Account([orders EXCEPT ![i] = NoOrder], u.next_order_id, u.open_orders - 1,
                  u.open_auctions - OneIf(has_auction(orders[i])), u.position_orders - 1, base, bids, asks)
    <3>1. OneIf(has_auction(orders[i])) <= u.open_auctions
      BY <1>4, <1>7, <2>3
    <3>2. u.open_orders \in Nat \ {0} /\ u.open_auctions \in Nat /\ orders \in [Slots -> Orders]
      BY <1>1, <1>4, <1>7
    <3> HIDE DEF orders, base, bids, asks
    <3>3. CloseSlot(freed, i) =
            Account(Emptied(orders, i), u.next_order_id, u.open_orders - 1,
                    u.open_auctions - OneIf(has_auction(orders[i])), u.position_orders - 1, base, bids, asks)
      BY <1>1, <3>1, <3>2, ClosedSlot
    <3> QED
      BY <3>3 DEF Emptied
  <2>5. FillSlot(u, i, amount) =
          Account([u.orders EXCEPT ![i] = NoOrder], u.next_order_id, u.open_orders - 1,
                  u.open_auctions - OneIf(has_auction(o)), u.position_orders - 1, base, bids, asks)
    <3>1. OneIf(has_auction(orders[i])) = OneIf(has_auction(o))
      BY <1>7, <2>3
    <3> HIDE DEF orders, base, bids, asks, freed, o
    <3> QED
      BY <2>1, <2>2, <2>4, <3>1, Zenon
  <2>6. /\ (u.open_orders - OneIf(IsOpen(o))) + OneIf(IsOpen(NoOrder)) = u.open_orders - 1
        /\ (u.open_auctions - OneIf(has_auction(o))) + OneIf(has_auction(NoOrder))
             = u.open_auctions - OneIf(has_auction(o))
        /\ (u.position_orders - OneIf(IsOpen(o))) + OneIf(IsOpen(NoOrder)) = u.position_orders - 1
    BY <1>1, <1>2, EmptySlot DEF OneIf
  <2>7. /\ (u.open_bids - LiveUnfilled(o, "Long")) + LiveUnfilled(NoOrder, "Long") = bids
        /\ (u.open_asks + LiveUnfilled(o, "Short")) - LiveUnfilled(NoOrder, "Short") = asks
    <3>1. LiveUnfilled(NoOrder, "Long") = 0 /\ LiveUnfilled(NoOrder, "Short") = 0
      BY EmptySlot
    <3>2. CASE o.direction = "Long"
      <4>1. LiveUnfilled(o, "Long") = amount /\ LiveUnfilled(o, "Short") = 0
        BY <1>2, <1>8, <3>2 DEF LiveUnfilled
      <4> QED
        BY <1>1, <3>1, <3>2, <4>1
    <3>3. CASE o.direction = "Short"
      <4>1. LiveUnfilled(o, "Short") = amount /\ LiveUnfilled(o, "Long") = 0
        BY <1>2, <1>8, <3>3 DEF LiveUnfilled
      <4> QED
        BY <1>1, <3>1, <3>3, <4>1
    <3> QED
      BY <1>2, <3>2, <3>3 DEF PositionDirection
  <2>8. rest = NoOrder
    BY <1>8 DEF RestOf
  <2> HIDE DEF bids, asks, rest
  <2>9. FillSlot(u, i, amount) = Changed(u, i, NoOrder, u.next_order_id, base)
    BY <2>5, <2>6, <2>7, Zenon DEF Changed
  <2> QED
    BY <2>8, <2>9, Zenon DEF rest
<1>9. CASE amount # Unfilled(o)
  <2>1. FillSlot(u, i, amount) = freed
    <3>1. Unfilled(freed.orders[i]) # 0
      BY <1>2, <1>3, <1>7, <1>9
    <3> QED
      BY <1>6, <3>1
  <2>2. rest = f
    BY <1>9 DEF RestOf
  <2>3. /\ (u.open_orders - OneIf(IsOpen(o))) + OneIf(IsOpen(f)) = u.open_orders
        /\ (u.open_auctions - OneIf(has_auction(o))) + OneIf(has_auction(f)) = u.open_auctions
        /\ (u.position_orders - OneIf(IsOpen(o))) + OneIf(IsOpen(f)) = u.position_orders
    <3> HIDE DEF f, o
    <3> QED
      BY <1>1, <1>2, <1>3 DEF OneIf
  <2>4. /\ (u.open_bids - LiveUnfilled(o, "Long")) + LiveUnfilled(f, "Long") = bids
        /\ (u.open_asks + LiveUnfilled(o, "Short")) - LiveUnfilled(f, "Short") = asks
    <3>1. CASE o.direction = "Long"
      <4>1. /\ LiveUnfilled(o, "Long") = Unfilled(o) /\ LiveUnfilled(o, "Short") = 0
            /\ LiveUnfilled(f, "Long") = Unfilled(o) - amount /\ LiveUnfilled(f, "Short") = 0
        <5> HIDE DEF o, f
        <5> QED
          BY <1>2, <1>3, <3>1 DEF LiveUnfilled
      <4> HIDE DEF o, f
      <4> QED
        BY <1>1, <1>2, <3>1, <4>1
    <3>2. CASE o.direction = "Short"
      <4>1. /\ LiveUnfilled(o, "Short") = Unfilled(o) /\ LiveUnfilled(o, "Long") = 0
            /\ LiveUnfilled(f, "Short") = Unfilled(o) - amount /\ LiveUnfilled(f, "Long") = 0
        <5> HIDE DEF o, f
        <5> QED
          BY <1>2, <1>3, <3>2 DEF LiveUnfilled
      <4> HIDE DEF o, f
      <4> QED
        BY <1>1, <1>2, <3>2, <4>1
    <3> QED
      BY <1>2, <3>1, <3>2 DEF PositionDirection
  <2> HIDE DEF bids, asks, rest, f
  <2>5. FillSlot(u, i, amount) = Changed(u, i, f, u.next_order_id, base)
    BY <2>1, <2>3, <2>4, Zenon DEF Changed
  <2> QED
    BY <2>2, <2>5, Zenon DEF rest
<1> QED
  BY <1>8, <1>9

(* One fill of a live order, of no more than is left of it.                *)
LEMMA FillSound ==
  ASSUME NEW u, NEW id, SoundUser(u, id), NEW i \in Slots, IsLive(u.orders[i]),
         NEW amount \in Nat, amount <= Unfilled(u.orders[i])
  PROVE  /\ SoundUser(FillSlot(u, i, amount), id)
         /\ OrdersLeft(FillSlot(u, i, amount), u)
         /\ FillSlot(u, i, amount).base_asset_amount =
              u.base_asset_amount + Signed(u.orders[i].direction, amount)
         /\ FillSlot(u, i, amount).orders[i] = RestOf(u.orders[i], amount)
         /\ \A j \in Slots \ {i} : FillSlot(u, i, amount).orders[j] = u.orders[j]
<1> DEFINE v == FillSlot(u, i, amount)
           o == u.orders[i]
           rest == RestOf(o, amount)
           next == u.next_order_id
           base == u.base_asset_amount + Signed(o.direction, amount)
<1>1. v = Changed(u, i, rest, next, base)
  BY FillIs
<1>2. SoundOrder(o, id) /\ IsLive(o) /\ amount <= Unfilled(o)
  BY DEF SoundUser
<1>3. SoundOrder(rest, id) /\ LeftOf(rest, o)
  <2> HIDE DEF o
  <2> QED
    BY <1>2, RestOfFacts
<1>4. next \in Nat \ {0} /\ base \in Int
  BY SoundUserParts DEF Signed
<1>5. SoundUser(v, id)
  <2>1. TakesId(u, i, rest, next)
    BY <1>3 DEF TakesId, LeftOf
  <2> HIDE DEF v, next, base, rest
  <2> QED
    BY <1>1, <1>3, <1>4, <2>1, ChangedIsSound
<1>6. /\ v.next_order_id = next /\ v.base_asset_amount = base
      /\ v.orders[i] = rest
      /\ \A j \in Slots \ {i} : v.orders[j] = u.orders[j]
      /\ (LeftOf(rest, u.orders[i]) /\ next = u.next_order_id) => OrdersLeft(v, u)
  <2> HIDE DEF v, next, base, rest
  <2> QED
    BY <1>1, ChangedFields
<1> QED
  BY <1>3, <1>5, <1>6

(***************************************************************************)
(* Trigger and place.                                                      *)
(***************************************************************************)

TriggeredOrder(o, at) ==
  [o EXCEPT !.trigger_condition = IF o.trigger_condition = "Above" THEN "TriggeredAbove" ELSE "TriggeredBelow",
            !.slot = at,
            !.auction_duration = TriggerAuction]

(* A triggered order is live, in auction, and as large as it was.          *)
LEMMA TriggeredOrderFacts ==
  ASSUME NEW o, NEW id, SoundOrder(o, id), WaitsForTrigger(o), NEW at \in Nat
  PROVE  /\ SoundOrder(TriggeredOrder(o, at), id)
         /\ IsLive(TriggeredOrder(o, at)) /\ has_auction(TriggeredOrder(o, at))
         /\ Unfilled(TriggeredOrder(o, at)) = Unfilled(o)
         /\ TriggeredOrder(o, at).direction = o.direction
         /\ TriggeredOrder(o, at).order_id = o.order_id
<1> DEFINE f == TriggeredOrder(o, at)
           condition == IF o.trigger_condition = "Above" THEN "TriggeredAbove" ELSE "TriggeredBelow"
<1>1. o \in Orders /\ IsOpen(o)
  BY DEF SoundOrder, WaitsForTrigger
<1>2. condition \in OrderTriggerCondition
  BY DEF OrderTriggerCondition
<1>3. condition \in {"TriggeredAbove", "TriggeredBelow"}
  OBVIOUS
<1> HIDE DEF condition
<1>4. f = [[[o EXCEPT !.trigger_condition = condition] EXCEPT !.slot = at] EXCEPT !.auction_duration = TriggerAuction]
  BY DEF TriggeredOrder, condition
<1>5. /\ f \in Orders
      /\ f.base_asset_amount_filled = o.base_asset_amount_filled
      /\ f.base_asset_amount = o.base_asset_amount
      /\ f.status = o.status /\ f.order_id = o.order_id
      /\ f.direction = o.direction
      /\ f.immediate_or_cancel = o.immediate_or_cancel
      /\ f.post_only = o.post_only /\ f.order_type = o.order_type
      /\ f.trigger_condition = condition
      /\ f.auction_duration = TriggerAuction
  <2> DEFINE a == [o EXCEPT !.trigger_condition = condition]
             b == [a EXCEPT !.slot = at]
  <2>1. /\ a \in Orders
        /\ a.base_asset_amount_filled = o.base_asset_amount_filled
        /\ a.base_asset_amount = o.base_asset_amount
        /\ a.status = o.status /\ a.order_id = o.order_id
        /\ a.direction = o.direction
        /\ a.immediate_or_cancel = o.immediate_or_cancel
        /\ a.post_only = o.post_only /\ a.order_type = o.order_type
        /\ a.trigger_condition = condition
    BY <1>1, <1>2 DEF Orders
  <2> HIDE DEF a
  <2>2. /\ b \in Orders
        /\ b.base_asset_amount_filled = o.base_asset_amount_filled
        /\ b.base_asset_amount = o.base_asset_amount
        /\ b.status = o.status /\ b.order_id = o.order_id
        /\ b.direction = o.direction
        /\ b.immediate_or_cancel = o.immediate_or_cancel
        /\ b.post_only = o.post_only /\ b.order_type = o.order_type
        /\ b.trigger_condition = condition
    BY <2>1 DEF Orders
  <2> HIDE DEF b
  <2>3. f = [b EXCEPT !.auction_duration = TriggerAuction]
    BY <1>4 DEF a, b
  <2>4. TriggerAuction \in Nat
    BY OrderAssumption
  <2> HIDE DEF f
  <2> QED
    BY <2>2, <2>3, <2>4 DEF Orders
<1>6. TriggerAuction # 0
  BY OrderAssumption
<1> HIDE DEF f
<1>7. IsOpen(f) /\ IsLive(f) /\ has_auction(f) /\ ~WaitsForTrigger(f) /\ Unfilled(f) = Unfilled(o)
  BY <1>1, <1>3, <1>5, <1>6 DEF IsOpen, IsLive, has_auction, WaitsForTrigger, triggered, Unfilled
<1>8. SoundOrder(f, id)
  BY <1>1, <1>5, <1>7 DEF SoundOrder
<1> QED
  BY <1>5, <1>7, <1>8 DEF f

Triggered(orders, i, at) == [orders EXCEPT ![i] = TriggeredOrder(orders[i], at)]

(* The four updates of a trigger at once.                                  *)
LEMMA TriggerSlotIs ==
  ASSUME NEW u \in UserRecords, NEW i \in Slots, NEW at
  PROVE  TriggerSlot(u, i, at) =
         increase_open_bids_and_asks(
           Account(Triggered(u.orders, i, at), u.next_order_id,
                   u.open_orders, u.open_auctions + 1, u.position_orders, u.base_asset_amount,
                   u.open_bids, u.open_asks),
           u.orders[i].direction, u.orders[i].base_asset_amount)
<1> DEFINE orders == u.orders
           o == orders[i]
           condition == IF o.trigger_condition = "Above" THEN "TriggeredAbove" ELSE "TriggeredBelow"
           a == [o EXCEPT !.trigger_condition = condition]
           b == [a EXCEPT !.slot = at]
           t == [b EXCEPT !.auction_duration = TriggerAuction]
           after == [orders EXCEPT ![i] = t]
           one == [u EXCEPT !.orders[i].trigger_condition = condition]
           two == [one EXCEPT !.orders[i].slot = at]
           three == [two EXCEPT !.orders[i].auction_duration = TriggerAuction]
           v == Account(after, u.next_order_id, u.open_orders, u.open_auctions,
                        u.position_orders, u.base_asset_amount, u.open_bids, u.open_asks)
<1>0. u.orders \in [Slots -> Orders]
  BY DEF UserRecords
<1>1. one = [u EXCEPT !.orders = [orders EXCEPT ![i] = a]]
  OBVIOUS
<1>2. two = [u EXCEPT !.orders = [orders EXCEPT ![i] = b]]
  <2> DEFINE x == [orders EXCEPT ![i] = a]
             y == [x EXCEPT ![i] = [x[i] EXCEPT !.slot = at]]
  <2>1. x[i] = a
    BY <1>0
  <2>2. [[u EXCEPT !.orders = x] EXCEPT !.orders[i].slot = at] =
          [[u EXCEPT !.orders = x] EXCEPT !.orders = [[u EXCEPT !.orders = x].orders EXCEPT
             ![i] = [[u EXCEPT !.orders = x].orders[i] EXCEPT !.slot = at]]]
    <3> HIDE DEF x
    <3> QED
      OBVIOUS
  <2>3. [u EXCEPT !.orders = x].orders = x
    <3> HIDE DEF x
    <3> QED
      BY DEF UserRecords
  <2>4. [[u EXCEPT !.orders = x] EXCEPT !.orders[i].slot = at] = [[u EXCEPT !.orders = x] EXCEPT !.orders = y]
    <3> HIDE DEF x
    <3> QED
      BY <2>2, <2>3, Zenon
  <2>5. y = [orders EXCEPT ![i] = b]
    <3>1. y = [x EXCEPT ![i] = b]
      BY <2>1
    <3>2. [x EXCEPT ![i] = b] = [orders EXCEPT ![i] = b]
      <4> HIDE DEF a, b
      <4> QED
        BY <1>0
    <3> QED
      BY <3>1, <3>2
  <2>6. [[u EXCEPT !.orders = x] EXCEPT !.orders = y] = [u EXCEPT !.orders = y]
    <3> HIDE DEF x, y
    <3> QED
      BY DEF UserRecords
  <2> HIDE DEF x, y, one
  <2> QED
    BY <1>1, <2>4, <2>5, <2>6, Zenon DEF x
<1>3. three = [u EXCEPT !.orders = [orders EXCEPT ![i] = t]]
  <2> DEFINE x == [orders EXCEPT ![i] = b]
             y == [x EXCEPT ![i] = [x[i] EXCEPT !.auction_duration = TriggerAuction]]
  <2>1. x[i] = b
    BY <1>0
  <2>2. [[u EXCEPT !.orders = x] EXCEPT !.orders[i].auction_duration = TriggerAuction] =
          [[u EXCEPT !.orders = x] EXCEPT !.orders = [[u EXCEPT !.orders = x].orders EXCEPT
             ![i] = [[u EXCEPT !.orders = x].orders[i] EXCEPT !.auction_duration = TriggerAuction]]]
    <3> HIDE DEF x
    <3> QED
      OBVIOUS
  <2>3. [u EXCEPT !.orders = x].orders = x
    <3> HIDE DEF x
    <3> QED
      BY DEF UserRecords
  <2>4. [[u EXCEPT !.orders = x] EXCEPT !.orders[i].auction_duration = TriggerAuction] = [[u EXCEPT !.orders = x] EXCEPT !.orders = y]
    <3> HIDE DEF x
    <3> QED
      BY <2>2, <2>3, Zenon
  <2>5. y = [orders EXCEPT ![i] = t]
    <3>1. y = [x EXCEPT ![i] = t]
      BY <2>1
    <3>2. [x EXCEPT ![i] = t] = [orders EXCEPT ![i] = t]
      <4> HIDE DEF b, t
      <4> QED
        BY <1>0
    <3> QED
      BY <3>1, <3>2
  <2>6. [[u EXCEPT !.orders = x] EXCEPT !.orders = y] = [u EXCEPT !.orders = y]
    <3> HIDE DEF x, y
    <3> QED
      BY DEF UserRecords
  <2> HIDE DEF x, y, two
  <2> QED
    BY <1>2, <2>4, <2>5, <2>6, Zenon DEF x
<1>4. three = v
  <2>1. u = Account(orders, u.next_order_id, u.open_orders, u.open_auctions,
                    u.position_orders, u.base_asset_amount, u.open_bids, u.open_asks)
    BY AccountFields
  <2> HIDE DEF after, orders
  <2>2. [Account(orders, u.next_order_id, u.open_orders, u.open_auctions,
                 u.position_orders, u.base_asset_amount, u.open_bids, u.open_asks) EXCEPT !.orders = after] = v
    BY DEF Account
  <2>3. three = [u EXCEPT !.orders = after]
    BY <1>3 DEF after
  <2> HIDE DEF v, three
  <2> QED
    BY <2>1, <2>2, <2>3, Zenon
<1>5. [v EXCEPT !.open_auctions = @ + 1] =
        Account(after, u.next_order_id, u.open_orders, u.open_auctions + 1,
                u.position_orders, u.base_asset_amount, u.open_bids, u.open_asks)
  <2> HIDE DEF after
  <2>1. v.open_auctions = u.open_auctions
    BY DEF Account
  <2> DEFINE more == u.open_auctions + 1
  <2>2. [v EXCEPT !.open_auctions = @ + 1] = [v EXCEPT !.open_auctions = more]
    BY <2>1
  <2> HIDE DEF more
  <2>3. [v EXCEPT !.open_auctions = more] =
          Account(after, u.next_order_id, u.open_orders, more,
                  u.position_orders, u.base_asset_amount, u.open_bids, u.open_asks)
    BY DEF Account
  <2> QED
    BY <2>2, <2>3 DEF more
<1>6. t = TriggeredOrder(o, at)
  BY DEF TriggeredOrder
<1>7. [u EXCEPT !.orders[i].trigger_condition = condition,
                !.orders[i].slot = at,
                !.orders[i].auction_duration = TriggerAuction,
                !.open_auctions = @ + 1] = [three EXCEPT !.open_auctions = @ + 1]
  OBVIOUS
<1> HIDE DEF three, v, t
<1> QED
  <2>1. TriggerSlot(u, i, at) =
          increase_open_bids_and_asks(
            [u EXCEPT !.orders[i].trigger_condition = condition,
                      !.orders[i].slot = at,
                      !.orders[i].auction_duration = TriggerAuction,
                      !.open_auctions = @ + 1], o.direction, o.base_asset_amount)
    BY DEF TriggerSlot
  <2>2. after = Triggered(orders, i, at)
    BY <1>6 DEF Triggered, after
  <2> HIDE DEF after, condition
  <2> QED
    BY <1>4, <1>5, <1>7, <2>1, <2>2, Zenon

(* A trigger makes an order live and starts its auction.                   *)
LEMMA TriggerSound ==
  ASSUME NEW u, NEW id, SoundUser(u, id), NEW i \in Slots, WaitsForTrigger(u.orders[i]), NEW at \in Nat
  PROVE  /\ SoundUser(TriggerSlot(u, i, at), id)
         /\ IsOpen(TriggerSlot(u, i, at).orders[i])
         /\ TriggerSlot(u, i, at).base_asset_amount = u.base_asset_amount
<1> DEFINE o == u.orders[i]
           t == TriggeredOrder(o, at)
           orders == [u.orders EXCEPT ![i] = t]
           auctions == u.open_auctions + 1
           size == o.base_asset_amount
           bids == IF o.direction = "Long" THEN u.open_bids + size ELSE u.open_bids
           asks == IF o.direction = "Long" THEN u.open_asks ELSE u.open_asks - size
           v == TriggerSlot(u, i, at)
           next == u.next_order_id
           base == u.base_asset_amount
<1>1. /\ u \in UserRecords /\ u.orders \in [Slots -> Orders] /\ SoundOrders(u.orders, id)
      /\ u.open_orders \in Nat /\ u.open_auctions \in Nat /\ u.position_orders \in Nat
      /\ u.open_bids \in Nat /\ u.open_asks \in Int /\ base \in Int /\ next \in Nat \ {0}
  BY SoundUserParts
<1>2. /\ SoundOrder(o, id) /\ o.direction \in PositionDirection /\ size \in Nat /\ WaitsForTrigger(o)
      /\ o.auction_duration = 0 /\ o.base_asset_amount_filled = 0
  BY <1>1 DEF SoundOrders, SoundOrder, Orders
<1>3. /\ SoundOrder(t, id) /\ IsLive(t) /\ IsOpen(t) /\ has_auction(t)
      /\ t.direction = o.direction /\ Unfilled(t) = size /\ t.order_id = o.order_id
  <2>1. Unfilled(o) = size
    BY <1>2 DEF Unfilled
  <2>2. /\ SoundOrder(t, id) /\ IsLive(t) /\ has_auction(t)
        /\ t.direction = o.direction /\ Unfilled(t) = Unfilled(o) /\ t.order_id = o.order_id
    <3> HIDE DEF o
    <3> QED
      BY <1>2, TriggeredOrderFacts
  <2> QED
    BY <2>1, <2>2 DEF IsLive
<1>4. v = Account(orders, next, u.open_orders, auctions, u.position_orders, base, bids, asks)
  <2> DEFINE marked == Account(orders, next, u.open_orders, auctions, u.position_orders, base,
                               u.open_bids, u.open_asks)
  <2>1. orders = Triggered(u.orders, i, at)
    BY DEF Triggered
  <2>2. v = increase_open_bids_and_asks(marked, o.direction, size)
    BY <1>1, <2>1, TriggerSlotIs
  <2>3. increase_open_bids_and_asks(marked, o.direction, size) =
          Account(orders, next, u.open_orders, auctions, u.position_orders, base, bids, asks)
    <3> HIDE DEF o, orders, auctions, size, base, next
    <3>1. u.open_bids \in Int /\ size \in Int
      BY <1>1, <1>2
    <3> QED
      BY <1>1, <1>2, <3>1, BidsAndAsks
  <2> HIDE DEF marked, v, orders, auctions, bids, asks
  <2> QED
    BY <2>2, <2>3
<1>5. /\ (u.open_orders - OneIf(IsOpen(o))) + OneIf(IsOpen(t)) = u.open_orders
      /\ (u.open_auctions - OneIf(has_auction(o))) + OneIf(has_auction(t)) = auctions
      /\ (u.position_orders - OneIf(IsOpen(o))) + OneIf(IsOpen(t)) = u.position_orders
  <2> HIDE DEF o, t
  <2> QED
    BY <1>1, <1>2, <1>3 DEF OneIf, has_auction, WaitsForTrigger
<1>6. /\ (u.open_bids - LiveUnfilled(o, "Long")) + LiveUnfilled(t, "Long") = bids
      /\ (u.open_asks + LiveUnfilled(o, "Short")) - LiveUnfilled(t, "Short") = asks
  <2>1. LiveUnfilled(o, "Long") = 0 /\ LiveUnfilled(o, "Short") = 0
    BY <1>2 DEF LiveUnfilled, IsLive, WaitsForTrigger
  <2>2. CASE o.direction = "Long"
    <3>1. LiveUnfilled(t, "Long") = size /\ LiveUnfilled(t, "Short") = 0
      <4> HIDE DEF t
      <4> QED
        BY <1>3, <2>2 DEF LiveUnfilled
    <3> HIDE DEF t, size
    <3> QED
      BY <1>1, <1>2, <2>1, <2>2, <3>1
  <2>3. CASE o.direction = "Short"
    <3>1. LiveUnfilled(t, "Short") = size /\ LiveUnfilled(t, "Long") = 0
      <4> HIDE DEF t
      <4> QED
        BY <1>3, <2>3 DEF LiveUnfilled
    <3> HIDE DEF t, size
    <3> QED
      BY <1>1, <1>2, <2>1, <2>3, <3>1
  <2> QED
    BY <1>2, <2>2, <2>3 DEF PositionDirection
<1>10. TakesId(u, i, t, next)
  BY <1>2, <1>3 DEF TakesId, WaitsForTrigger
<1> HIDE DEF bids, asks, auctions, v, t, next, base
<1>7. v = Changed(u, i, t, next, base)
  BY <1>4, <1>5, <1>6, Zenon DEF Changed
<1>8. SoundUser(v, id)
  BY <1>1, <1>3, <1>7, <1>10, ChangedIsSound
<1>9. v.base_asset_amount = base /\ v.orders[i] = t
  BY <1>7, ChangedFields
<1> QED
  BY <1>3, <1>8, <1>9 DEF v, base

(* The fields of order parameters have their types.                        *)
AreParams(params) ==
  /\ params.order_type \in OrderType /\ params.direction \in PositionDirection
  /\ params.user_order_id \in Nat /\ params.base_asset_amount \in Nat
  /\ params.price \in Prices \cup {0} /\ params.reduce_only \in BOOLEAN
  /\ params.post_only \in PostOnlyParam /\ params.immediate_or_cancel \in BOOLEAN
  /\ params.max_ts \in Nat \cup {NotGiven} /\ params.trigger_price \in Prices \cup {0}
  /\ params.trigger_condition \in OrderTriggerCondition /\ params.auction_duration \in Nat

(* The parameters that users give have the types the program decodes them  *)
(* to.                                                                     *)
LEMMA GivenParams ==
  ASSUME NEW params \in Params
  PROVE  AreParams(params)
BY BookAssumption DEF AreParams, OrderParams

IsNewOrder(o, id) ==
  /\ SoundOrder(o, id) /\ IsOpen(o) /\ (IsLive(o) <=> ~must_be_triggered(o))
  /\ Unfilled(o) = o.base_asset_amount /\ o.base_asset_amount \in Nat
  /\ o.direction \in PositionDirection

(* A new order that passes the validation is sound.                        *)
LEMMA NewOrderSound ==
  ASSUME NEW u, u.next_order_id \in Nat \ {0}, NEW params, AreParams(params),
         NEW force \in BOOLEAN, NEW at \in Nat, NEW time \in Nat,
         validate_order(NewOrder(u, params, force, at, time)),
         NEW id, params.immediate_or_cancel => id = u.next_order_id
  PROVE  /\ IsNewOrder(NewOrder(u, params, force, at, time), id)
         /\ NewOrder(u, params, force, at, time).order_id = u.next_order_id
<1> DEFINE next == u.next_order_id
           o == NewOrder(u, params, force, at, time)
           duration == get_auction_duration(params)
           until == MaxTs(params, time)
           reduce == params.reduce_only \/ force
           post == params.post_only # "None"
<1>1. duration \in Nat
  BY OrderAssumption DEF AreParams, get_auction_duration, GreaterOf
<1>2. until \in Nat
  BY OrderAssumption DEF AreParams, MaxTs, NotGiven
<1>3. reduce \in BOOLEAN /\ post \in BOOLEAN
  BY DEF AreParams
<1>4. o = [ status |-> "Open", order_id |-> next, user_order_id |-> params.user_order_id,
            order_type |-> params.order_type, direction |-> params.direction, price |-> params.price,
            base_asset_amount |-> params.base_asset_amount, base_asset_amount_filled |-> 0,
            reduce_only |-> reduce, post_only |-> post,
            immediate_or_cancel |-> params.immediate_or_cancel,
            trigger_condition |-> params.trigger_condition, trigger_price |-> params.trigger_price,
            slot |-> at, auction_duration |-> duration, max_ts |-> until ]
  BY DEF NewOrder
<1>5. must_be_triggered(params) => duration = 0
  BY DEF get_auction_duration, must_be_triggered
<1>0. validate_order(o) /\ next \in Nat \ {0} /\ (params.immediate_or_cancel => id = next)
  OBVIOUS
<1> HIDE DEF duration, until, reduce, post, o, next
<1>6. o \in Orders
  BY <1>0, <1>1, <1>2, <1>3, <1>4 DEF Orders, AreParams
<1>7. /\ o.status = "Open" /\ o.order_id = next /\ o.base_asset_amount_filled = 0
      /\ o.auction_duration = duration /\ o.order_type = params.order_type
      /\ o.immediate_or_cancel = params.immediate_or_cancel
      /\ o.base_asset_amount \in Nat /\ o.direction \in PositionDirection
  BY <1>4 DEF AreParams
<1>8. /\ o.base_asset_amount > 0 /\ (must_be_triggered(o) => ~triggered(o))
      /\ o.post_only => o.order_type = "Limit"
  BY <1>0 DEF validate_order, must_be_triggered
<1>9. must_be_triggered(o) => duration = 0
  BY <1>5, <1>7 DEF must_be_triggered
<1>10. IsOpen(o) /\ (IsLive(o) <=> ~must_be_triggered(o)) /\ Unfilled(o) = o.base_asset_amount
  BY <1>7, <1>8 DEF IsOpen, IsLive, Unfilled
<1>11. SoundOrder(o, id)
  BY <1>0, <1>6, <1>7, <1>8, <1>9, <1>10 DEF SoundOrder, WaitsForTrigger
<1> QED
  BY <1>7, <1>10, <1>11 DEF IsNewOrder, o, next

(* An account whose next order id moves on.                                *)
Numbered(u) == [u EXCEPT !.next_order_id = @ + 1]

(* Taking an order id changes nothing else.                                *)
LEMMA NumberedSound ==
  ASSUME NEW u, NEW id, SoundUser(u, id), NEW v, v = Numbered(u)
  PROVE  /\ SoundUser(v, id) /\ v.base_asset_amount = u.base_asset_amount
         /\ v = Account(u.orders, u.next_order_id + 1, u.open_orders, u.open_auctions,
                        u.position_orders, u.base_asset_amount, u.open_bids, u.open_asks)
<1> DEFINE next == u.next_order_id + 1
<1>1. u \in UserRecords /\ next \in Nat \ {0}
  BY SoundUserParts
<1>2. v = [u EXCEPT !.next_order_id = next]
  BY DEF Numbered
<1> HIDE DEF next
<1>3. /\ v \in UserRecords /\ v.orders = u.orders /\ v.open_orders = u.open_orders
      /\ v.position_orders = u.position_orders /\ v.open_auctions = u.open_auctions
      /\ v.open_bids = u.open_bids /\ v.open_asks = u.open_asks
      /\ v.base_asset_amount = u.base_asset_amount /\ v.next_order_id = next
  BY <1>1, <1>2 DEF UserRecords
<1>6. OwnIds(u.orders, u.next_order_id + 1)
  <2>1. \A i \in Slots : u.orders[i].order_id \in Nat
    BY <1>1 DEF UserRecords, Orders
  <2> QED
    BY <2>1, SoundUserParts DEF SoundUser, OwnIds
<1>4. SoundUser(v, id)
  BY <1>3, <1>6 DEF SoundUser, next
<1>5. v = Account(v.orders, v.next_order_id, v.open_orders, v.open_auctions,
                  v.position_orders, v.base_asset_amount, v.open_bids, v.open_asks)
  BY <1>3, AccountFields
<1> QED
  BY <1>3, <1>4, <1>5 DEF next

WithOrder(orders, i, o) == [orders EXCEPT ![i] = o]

PutOrder(u, i, o) ==
  [increment_open_orders(u, has_auction(o)) EXCEPT !.orders[i] = o, !.position_orders = @ + 1]

(* The updates of a placement at once.                                     *)
LEMMA PlacedIs ==
  ASSUME NEW orders, NEW next, NEW open, NEW auctions, NEW in_position, NEW base,
         NEW bids, NEW asks, NEW i \in Slots, NEW o
  PROVE  PutOrder(Account(orders, next, open, auctions, in_position, base, bids, asks), i, o) =
         Account(WithOrder(orders, i, o), next, open + 1, auctions + OneIf(has_auction(o)),
                 in_position + 1, base, bids, asks)
<1> DEFINE u == Account(orders, next, open, auctions, in_position, base, bids, asks)
           more == open + 1
           more_auctions == auctions + OneIf(has_auction(o))
           more_in == in_position + 1
           counted == Account(orders, next, more, more_auctions, in_position, base, bids, asks)
           after == [orders EXCEPT ![i] = o]
<1>1. increment_open_orders(u, has_auction(o)) = counted
  <2>1. u.open_orders = open /\ u.open_auctions = auctions
    BY DEF Account
  <2>2. increment_open_orders(u, has_auction(o)) =
          [[u EXCEPT !.open_orders = u.open_orders + 1] EXCEPT
              !.open_auctions = u.open_auctions + OneIf(has_auction(o))]
    BY DEF increment_open_orders, Account
  <2>3. increment_open_orders(u, has_auction(o)) =
          [[u EXCEPT !.open_orders = more] EXCEPT !.open_auctions = more_auctions]
    BY <2>1, <2>2, Zenon
  <2> HIDE DEF more, more_auctions
  <2>4. [u EXCEPT !.open_orders = more] = Account(orders, next, more, auctions, in_position, base, bids, asks)
    BY DEF Account
  <2>5. [Account(orders, next, more, auctions, in_position, base, bids, asks) EXCEPT
           !.open_auctions = more_auctions] = counted
    BY DEF Account
  <2> HIDE DEF counted, u
  <2> QED
    BY <2>3, <2>4, <2>5, Zenon
<1> HIDE DEF more, more_auctions
<1>2. [counted EXCEPT !.orders[i] = o, !.position_orders = @ + 1] =
        [[counted EXCEPT !.orders = after] EXCEPT !.position_orders = more_in]
  BY DEF Account
<1> HIDE DEF after, more_in
<1>3. [counted EXCEPT !.orders = after] =
        Account(after, next, more, more_auctions, in_position, base, bids, asks)
  BY DEF Account
<1>4. [Account(after, next, more, more_auctions, in_position, base, bids, asks) EXCEPT
         !.position_orders = more_in] =
        Account(after, next, more, more_auctions, more_in, base, bids, asks)
  BY DEF Account
<1>5. [[counted EXCEPT !.orders = after] EXCEPT !.position_orders = more_in] =
        Account(after, next, more, more_auctions, more_in, base, bids, asks)
  <2> HIDE DEF counted
  <2> QED
    BY <1>3, <1>4, Zenon
<1>6. after = WithOrder(orders, i, o)
  BY DEF after, WithOrder
<1> HIDE DEF u, counted
<1>7. PutOrder(u, i, o) = Account(after, next, more, more_auctions, more_in, base, bids, asks)
  BY <1>1, <1>2, <1>5, Zenon DEF PutOrder
<1> QED
  BY <1>6, <1>7, Zenon DEF u, more, more_auctions, more_in

(* place_perp_order takes a slot that is empty.                            *)
LEMMA FirstFreeSlot ==
  ASSUME NEW u, FreeSlots(u) # {}
  PROVE  Min(FreeSlots(u)) \in Slots /\ ~IsOpen(u.orders[Min(FreeSlots(u))])
<1> DEFINE F == FreeSlots(u)
<1>1. F \in SUBSET Nat
  BY SlotsFinite DEF FreeSlots
<1>2. \E n \in F : \A m \in F : n <= m
  <2> HIDE DEF F
  <2>1. F # {}
    BY DEF F
  <2> QED
    BY <1>1, <2>1, LeastElement
<1>3. Min(F) \in F
  <2> HIDE DEF F
  <2> QED
    BY <1>2 DEF Min
<1> QED
  BY <1>3 DEF FreeSlots

(* A valid order in a free slot.                                           *)
LEMMA PlacedSound ==
  ASSUME NEW u, NEW id, SoundUser(u, id), NEW i \in Slots, ~IsOpen(u.orders[i]),
         NEW o, IsNewOrder(o, id), o.order_id = u.next_order_id, NEW placed,
         placed = PutOrder(Numbered(u), i, o),
         NEW v,
         v = IF must_be_triggered(o) THEN placed
             ELSE increase_open_bids_and_asks(placed, o.direction, o.base_asset_amount)
  PROVE  /\ SoundUser(v, id)
         /\ v.base_asset_amount = u.base_asset_amount
         /\ v.next_order_id = u.next_order_id + 1
<1> USE DEF IsNewOrder
<1> DEFINE old == u.orders[i]
           next == u.next_order_id + 1
           base == u.base_asset_amount
           size == o.base_asset_amount
           auctions == u.open_auctions + OneIf(has_auction(o))
           bids == IF IsLive(o) /\ o.direction = "Long" THEN u.open_bids + size ELSE u.open_bids
           asks == IF IsLive(o) /\ o.direction # "Long" THEN u.open_asks - size ELSE u.open_asks
           orders == WithOrder(u.orders, i, o)
<1>1. /\ u \in UserRecords /\ u.orders \in [Slots -> Orders] /\ SoundOrders(u.orders, id)
      /\ u.open_orders \in Nat /\ u.open_auctions \in Nat /\ u.position_orders \in Nat
      /\ u.open_bids \in Nat /\ u.open_asks \in Int /\ base \in Int /\ next \in Nat \ {0}
  BY SoundUserParts
<1>2. old = NoOrder
  BY DEF SoundUser, SoundOrder
<1>3. placed = Account(orders, next, u.open_orders + 1, auctions, u.position_orders + 1, base,
                       u.open_bids, u.open_asks)
  <2>1. Numbered(u) = Account(u.orders, next, u.open_orders, u.open_auctions, u.position_orders, base,
                              u.open_bids, u.open_asks)
    BY NumberedSound
  <2>2. PutOrder(Account(u.orders, next, u.open_orders, u.open_auctions, u.position_orders, base,
                         u.open_bids, u.open_asks), i, o) =
         Account(orders, next, u.open_orders + 1, auctions, u.position_orders + 1, base,
                 u.open_bids, u.open_asks)
    <3> HIDE DEF next, base
    <3> QED
      BY PlacedIs
  <2> HIDE DEF next, base, orders, auctions
  <2> QED
    BY <2>1, <2>2, Zenon
<1>4. v = Account(orders, next, u.open_orders + 1, auctions, u.position_orders + 1, base, bids, asks)
  <2>1. CASE must_be_triggered(o)
    <3>1. bids = u.open_bids /\ asks = u.open_asks /\ v = placed
      BY <2>1
    <3> HIDE DEF bids, asks, orders, next, auctions, base
    <3> QED
      BY <1>3, <3>1
  <2>2. CASE ~must_be_triggered(o)
    <3>1. v = increase_open_bids_and_asks(placed, o.direction, size)
      BY <2>2
    <3>2. /\ bids = IF o.direction = "Long" THEN u.open_bids + size ELSE u.open_bids
          /\ asks = IF o.direction = "Long" THEN u.open_asks ELSE u.open_asks - size
      BY <2>2
    <3>3. u.open_bids \in Int /\ u.open_asks \in Int /\ size \in Int /\ o.direction \in PositionDirection
      BY <1>1
    <3> HIDE DEF bids, asks, orders, next, auctions, base, size
    <3>4. increase_open_bids_and_asks(placed, o.direction, size) =
            Account(orders, next, u.open_orders + 1, auctions, u.position_orders + 1, base,
                    IF o.direction = "Long" THEN u.open_bids + size ELSE u.open_bids,
                    IF o.direction = "Long" THEN u.open_asks ELSE u.open_asks - size)
      BY <1>1, <1>3, <3>3, BidsAndAsks
    <3> QED
      BY <3>1, <3>2, <3>4, Zenon
  <2> QED
    BY <2>1, <2>2
<1>5. /\ OneIf(IsOpen(old)) = 0 /\ OneIf(has_auction(old)) = 0 /\ OneIf(IsOpen(o)) = 1
      /\ OneIf(has_auction(o)) \in Nat
      /\ LiveUnfilled(old, "Long") = 0 /\ LiveUnfilled(old, "Short") = 0
  BY <1>2, EmptySlot DEF OneIf
<1>6. /\ (u.open_orders - OneIf(IsOpen(old))) + OneIf(IsOpen(o)) = u.open_orders + 1
      /\ (u.open_auctions - OneIf(has_auction(old))) + OneIf(has_auction(o)) = auctions
      /\ (u.position_orders - OneIf(IsOpen(old))) + OneIf(IsOpen(o)) = u.position_orders + 1
  <2> DEFINE was == OneIf(IsOpen(old))
             is == OneIf(IsOpen(o))
             was_auction == OneIf(has_auction(old))
             is_auction == OneIf(has_auction(o))
  <2>1. was = 0 /\ is = 1 /\ was_auction = 0 /\ is_auction \in Nat
    BY <1>5
  <2> HIDE DEF was, is, was_auction, is_auction
  <2>2. /\ (u.open_orders - was) + is = u.open_orders + 1
        /\ (u.open_auctions - was_auction) + is_auction = u.open_auctions + is_auction
        /\ (u.position_orders - was) + is = u.position_orders + 1
    BY <1>1, <2>1
  <2> QED
    BY <2>2 DEF was, is, was_auction, is_auction
<1>7. /\ (u.open_bids - LiveUnfilled(old, "Long")) + LiveUnfilled(o, "Long") = bids
      /\ (u.open_asks + LiveUnfilled(old, "Short")) - LiveUnfilled(o, "Short") = asks
  <2>1. /\ LiveUnfilled(o, "Long") = IF IsLive(o) /\ o.direction = "Long" THEN size ELSE 0
        /\ LiveUnfilled(o, "Short") = IF IsLive(o) /\ o.direction # "Long" THEN size ELSE 0
    BY DEF LiveUnfilled, PositionDirection
  <2> HIDE DEF old
  <2> QED
    BY <1>1, <1>5, <2>1
<1>8. orders = [u.orders EXCEPT ![i] = o]
  BY DEF WithOrder
<1>12. TakesId(u, i, o, next)
  BY DEF TakesId
<1> HIDE DEF bids, asks, auctions, next, base, orders
<1>9. v = Changed(u, i, o, next, base)
  <2>1. Changed(u, i, o, next, base) =
          Account(orders, next, (u.open_orders - OneIf(IsOpen(old))) + OneIf(IsOpen(o)),
                  (u.open_auctions - OneIf(has_auction(old))) + OneIf(has_auction(o)),
                  (u.position_orders - OneIf(IsOpen(old))) + OneIf(IsOpen(o)), base,
                  (u.open_bids - LiveUnfilled(old, "Long")) + LiveUnfilled(o, "Long"),
                  (u.open_asks + LiveUnfilled(old, "Short")) - LiveUnfilled(o, "Short"))
    BY <1>8, Zenon DEF Changed
  <2> HIDE DEF old
  <2> QED
    BY <1>4, <1>6, <1>7, <2>1, Zenon
<1>10. SoundUser(v, id)
  BY <1>1, <1>9, <1>12, ChangedIsSound
<1>11. v.base_asset_amount = base /\ v.next_order_id = next /\ v.orders[i] = o
  BY <1>9, ChangedFields
<1> QED
  BY <1>10, <1>11 DEF next, base

(* A placement: the account is sound, but for the order just placed when   *)
(* that must be filled at once.                                            *)
LEMMA PlaceSound ==
  ASSUME NEW u, SoundUser(u, 0), NEW params, AreParams(params), NEW force \in BOOLEAN, NEW crosses,
         NEW at \in Nat, NEW time \in Nat, CanPlace(u, params, force, crosses, at, time),
         NEW v, v = place_perp_order(u, params, force, crosses, at, time)
  PROVE  /\ SoundUser(v, get_last_order_id(v))
         /\ ~params.immediate_or_cancel => SoundUser(v, 0)
         /\ v.base_asset_amount = u.base_asset_amount
         /\ v = u \/ v.next_order_id = u.next_order_id + 1
<1> DEFINE o == NewOrder(u, params, force, at, time)
           i == Min(FreeSlots(u))
           placed == PutOrder(Numbered(u), i, o)
           next == u.next_order_id
<1>0. next \in Nat \ {0}
  BY SoundUserParts
<1>1. CASE IsSkipped(params, time)
  <2>1. v = u
    BY <1>1 DEF place_perp_order
  <2> QED
    BY <2>1, AtRest
<1>2. CASE ~IsSkipped(params, time) /\ FailsPostOnly(o, crosses)
  <2>1. v = Numbered(u)
    BY <1>2 DEF place_perp_order, Numbered
  <2> DEFINE id == 0
  <2>2. SoundUser(v, id) /\ v.base_asset_amount = u.base_asset_amount
        /\ v = Account(u.orders, u.next_order_id + 1, u.open_orders, u.open_auctions,
                       u.position_orders, u.base_asset_amount, u.open_bids, u.open_asks)
    <3>1. SoundUser(u, id)
      OBVIOUS
    <3> HIDE DEF id
    <3> QED
      BY <2>1, <3>1, NumberedSound
  <2>3. v.next_order_id = u.next_order_id + 1
    BY <2>2 DEF Account
  <2> QED
    BY <2>2, <2>3, AtRest
<1>3. CASE ~IsSkipped(params, time) /\ ~FailsPostOnly(o, crosses)
  <2>1. v = IF must_be_triggered(o) THEN placed
            ELSE increase_open_bids_and_asks(placed, o.direction, o.base_asset_amount)
    BY <1>3 DEF place_perp_order, PutOrder, Numbered
  <2>2. validate_order(o) /\ i \in Slots /\ ~IsOpen(u.orders[i])
    BY <1>3, FirstFreeSlot DEF CanPlace
  <2>3. ASSUME NEW id, params.immediate_or_cancel => id = next
        PROVE  SoundUser(v, id) /\ v.base_asset_amount = u.base_asset_amount /\ v.next_order_id = next + 1
    <3>1. IsNewOrder(o, id) /\ o.order_id = u.next_order_id
      BY <1>0, <2>2, <2>3, NewOrderSound
    <3>2. SoundUser(u, id)
      BY AtRest
    <3>3. placed = PutOrder(Numbered(u), i, o)
      OBVIOUS
    <3> HIDE DEF o, i, placed
    <3> QED
      BY <2>1, <2>2, <3>1, <3>2, <3>3, PlacedSound
  <2>4. SoundUser(v, next) /\ v.base_asset_amount = u.base_asset_amount /\ v.next_order_id = next + 1
    BY <2>3
  <2>5. get_last_order_id(v) = next
    BY <1>0, <2>4 DEF get_last_order_id
  <2> QED
    BY <2>3, <2>4, <2>5
<1> QED
  BY <1>1, <1>2, <1>3

(***************************************************************************)
(* Fills.  A book that comes from the accounts `us': every account is      *)
(* sound, no order is new, and the positions balance.  ids[u] is the order *)
(* of u that may have to be filled at once, or 0.                          *)
(***************************************************************************)

BookRecords == [users : [Users -> UserRecords], amm : Int]

SoundBook(b, us, ids) ==
  /\ \A u \in Users : SoundUser(b.users[u], ids[u]) /\ OrdersLeft(b.users[u], us[u])
  /\ b.amm = PositionsOf(b.users)

Books(us, ids) == {b \in BookRecords : SoundBook(b, us, ids)}

(* The types of the parts of a book, and what a book promises of each      *)
(* account.                                                                *)
LEMMA BookFacts ==
  ASSUME NEW us, NEW ids, NEW b \in Books(us, ids)
  PROVE  /\ b.users \in [Users -> UserRecords] /\ b.amm \in Int
         /\ \A u \in Users : /\ SoundUser(b.users[u], ids[u]) /\ OrdersLeft(b.users[u], us[u])
                             /\ b.users[u].base_asset_amount \in Int
         /\ b.amm = PositionsOf(b.users)
         /\ b = [users |-> b.users, amm |-> b.amm]
<1>1. b \in BookRecords /\ SoundBook(b, us, ids)
  BY DEF Books
<1>2. /\ b.users \in [Users -> UserRecords] /\ b.amm \in Int
      /\ b = [users |-> b.users, amm |-> b.amm]
  BY <1>1 DEF BookRecords
<1>3. \A u \in Users : SoundUser(b.users[u], ids[u]) /\ OrdersLeft(b.users[u], us[u])
  BY <1>1 DEF SoundBook
<1> QED
  BY <1>1, <1>2, <1>3, SoundUserParts DEF SoundBook

(* One account changes and so does the sum of the positions.               *)
LEMMA PositionsUpdate ==
  ASSUME NEW us \in [Users -> UserRecords], NEW t \in Users, NEW v \in UserRecords
  PROVE  /\ PositionsOf([us EXCEPT ![t] = v]) =
              (PositionsOf(us) - us[t].base_asset_amount) + v.base_asset_amount
         /\ PositionsOf(us) \in Int
<1> DEFINE f == [u \in Users |-> us[u].base_asset_amount]
           base == v.base_asset_amount
<1>1. f \in [Users -> Int] /\ base \in Int /\ f[t] = us[t].base_asset_amount
  BY DEF UserRecords
<1>2. [u \in Users |-> [us EXCEPT ![t] = v][u].base_asset_amount] = [f EXCEPT ![t] = base]
  BY DEF UserRecords
<1>3. IsFiniteSet(Users)
  BY BookAssumption
<1>4. PositionsOf(us) = IntegerSumOf(f) /\ PositionsOf([us EXCEPT ![t] = v]) = IntegerSumOf([f EXCEPT ![t] = base])
  BY <1>2, Zenon DEF PositionsOf
<1> HIDE DEF f, base
<1>5. IntegerSumOf([f EXCEPT ![t] = base]) = (IntegerSumOf(f) - f[t]) + base
  BY <1>1, <1>3, IntegerSumUpdate
<1>6. IntegerSumOf(f) \in Int
  BY <1>1, <1>3, IntegerSumType
<1> QED
  BY <1>1, <1>4, <1>5, <1>6 DEF base

WithUser(us, t, v) == [us EXCEPT ![t] = v]

(* One account of a book changes.                                          *)
LEMMA BookStep ==
  ASSUME NEW us, NEW ids, NEW b \in Books(us, ids), NEW t \in Users, NEW v,
         SoundUser(v, ids[t]), OrdersLeft(v, b.users[t]), NEW amm,
         amm = b.amm + (v.base_asset_amount - b.users[t].base_asset_amount)
  PROVE  [users |-> WithUser(b.users, t, v), amm |-> amm] \in Books(us, ids)
<1> DEFINE before == b.users
           after == WithUser(before, t, v)
           new == [users |-> after, amm |-> amm]
<1>1. /\ before \in [Users -> UserRecords] /\ b.amm \in Int
      /\ \A u \in Users : /\ SoundUser(before[u], ids[u]) /\ OrdersLeft(before[u], us[u])
                          /\ before[u].base_asset_amount \in Int
      /\ b.amm = PositionsOf(before)
  BY BookFacts
<1>2. v \in UserRecords /\ v.base_asset_amount \in Int
  BY SoundUserParts
<1>3. after \in [Users -> UserRecords] /\ \A u \in Users : after[u] = IF u = t THEN v ELSE before[u]
  <2> HIDE DEF before
  <2> QED
    BY <1>1, <1>2 DEF WithUser
<1>4. PositionsOf(after) = (PositionsOf(before) - before[t].base_asset_amount) + v.base_asset_amount
  <2> HIDE DEF before
  <2> QED
    BY <1>1, <1>2, PositionsUpdate DEF WithUser
<1>5. amm = PositionsOf(after) /\ amm \in Int
  <2>0. amm = b.amm + (v.base_asset_amount - before[t].base_asset_amount)
    OBVIOUS
  <2> HIDE DEF before, after
  <2> QED
    BY <1>1, <1>2, <1>4, <2>0
<1>6. OrdersLeft(v, before[t])
  OBVIOUS
<1> HIDE DEF before, after
<1>7. ASSUME NEW u \in Users PROVE SoundUser(after[u], ids[u]) /\ OrdersLeft(after[u], us[u])
  <2>1. CASE u = t
    <3>1. after[u] = v
      BY <1>3, <2>1
    <3>2. OrdersLeft(v, us[t])
      BY <1>1, <1>6, OrdersLeftTwice
    <3> QED
      BY <2>1, <3>1, <3>2
  <2>2. CASE u # t
    BY <1>1, <1>3, <2>2
  <2> QED
    BY <2>1, <2>2
<1>8. new \in BookRecords /\ new.users = after /\ new.amm = amm
  BY <1>3, <1>5 DEF BookRecords
<1> HIDE DEF new
<1>9. SoundBook(new, us, ids)
  BY <1>5, <1>7, <1>8 DEF SoundBook
<1> QED
  BY <1>8, <1>9 DEF Books, new, after, before

(* What may be filled of an order is at most what is left of it.           *)
LEMMA UnfilledBounds ==
  ASSUME NEW o, NEW id, SoundOrder(o, id), NEW position \in Int
  PROVE  /\ get_base_asset_amount_unfilled(o, position) \in Nat
         /\ get_base_asset_amount_unfilled(o, position) <= Unfilled(o)
<1>1. Unfilled(o) \in Nat
  BY Contributions
<1>2. AbsOf(position) \in Nat
  BY DEF AbsOf
<1> QED
  BY <1>1, <1>2 DEF get_base_asset_amount_unfilled, LesserOf

(* Account v is u after a fill of order j, of no more than the order and,  *)
(* when it may only reduce, than the position.                             *)
Took(v, u, j) ==
  \E n \in Nat :
    /\ n <= get_base_asset_amount_unfilled(u.orders[j], u.base_asset_amount)
    /\ v.base_asset_amount = u.base_asset_amount + Signed(u.orders[j].direction, n)

(* An account that is left alone has taken nothing.                        *)
LEMMA TookNothing ==
  ASSUME NEW u, NEW id, SoundUser(u, id), NEW j \in Slots
  PROVE  Took(u, u, j)
<1> DEFINE o == u.orders[j]
           base == u.base_asset_amount
<1>1. SoundOrder(o, id) /\ base \in Int
  BY SoundUserParts DEF SoundUser
<1>2. get_base_asset_amount_unfilled(o, base) \in Nat
  <2> HIDE DEF o, base
  <2> QED
    BY <1>1, UnfilledBounds
<1>3. \E n \in Nat : n = 0 /\ Signed(o.direction, n) = 0
  <2> DEFINE n == 0
  <2>1. n \in Int /\ n <= 0 /\ n >= 0
    OBVIOUS
  <2> HIDE DEF n
  <2>2. Signed(o.direction, n) = 0
    BY <2>1 DEF Signed
  <2> QED
    BY <2>1, <2>2
<1> QED
  BY <1>1, <1>2, <1>3 DEF Took

(* What may be filled of an order; there is nothing to fill any more.      *)
Fillable(u, i) == get_base_asset_amount_unfilled(u.orders[i], u.base_asset_amount)
Exhausted(u, i) == ~IsOpen(u.orders[i]) \/ Fillable(u, i) = 0

(* The AMM fills what it has, and no more than is left.                    *)
LEMMA AmmFill ==
  ASSUME NEW us, NEW ids, NEW b \in Books(us, ids), NEW t \in Users, NEW i \in Slots,
         IsLive(b.users[t].orders[i]), NEW amount \in Nat,
         NEW c, c = fulfill_perp_order_with_amm(b, t, i, amount)
  PROVE  /\ c \in Books(us, ids)
         /\ \A m \in Users \ {t} : c.users[m] = b.users[m]
         /\ Took(c.users[t], b.users[t], i)
         /\ \A j \in Slots \ {i} : c.users[t].orders[j] = b.users[t].orders[j]
         /\ Exhausted(b.users[t], i) => c = b
         /\ amount < Unfilled(b.users[t].orders[i]) =>
              /\ IsLive(c.users[t].orders[i])
              /\ c.users[t].orders[i].direction = b.users[t].orders[i].direction
<1> DEFINE u == b.users[t]
           o == u.orders[i]
           filled == LesserOf(amount, get_base_asset_amount_unfilled(o, u.base_asset_amount))
           v == FillSlot(u, i, filled)
           amm == b.amm + Signed(o.direction, filled)
           after == WithUser(b.users, t, v)
<1>1. SoundUser(u, ids[t]) /\ u.base_asset_amount \in Int /\ b.users \in [Users -> UserRecords] /\ b.amm \in Int
  BY BookFacts
<1>2. SoundOrder(o, ids[t]) /\ o.direction \in PositionDirection
  BY <1>1 DEF SoundUser, SoundOrder, Orders
<1>3. /\ filled \in Nat /\ filled <= Unfilled(o) /\ filled <= amount /\ Unfilled(o) \in Nat
      /\ filled <= get_base_asset_amount_unfilled(o, u.base_asset_amount)
  <2> DEFINE left == get_base_asset_amount_unfilled(o, u.base_asset_amount)
  <2>1. left \in Nat /\ left <= Unfilled(o) /\ Unfilled(o) \in Nat
    <3> HIDE DEF o, u
    <3> QED
      BY <1>1, <1>2, UnfilledBounds, Contributions
  <2>2. filled = LesserOf(amount, left)
    OBVIOUS
  <2> HIDE DEF left, o, filled
  <2>3. filled \in Nat /\ filled <= Unfilled(o) /\ filled <= amount /\ filled <= left
    BY <2>1, <2>2 DEF LesserOf
  <2> QED
    BY <2>1, <2>3 DEF left
<1>4. CASE filled < AmmSizeThreshold(u)
  <2>1. c = b
    BY <1>4 DEF fulfill_perp_order_with_amm
  <2>2. Took(u, u, i)
    <3> HIDE DEF u
    <3> QED
      BY <1>1, TookNothing
  <2> QED
    BY <2>1, <2>2
<1>5. CASE ~(filled < AmmSizeThreshold(u))
  <2>9. ~Exhausted(u, i)
    <3> DEFINE fillable == Fillable(u, i)
    <3>1. AmmSizeThreshold(u) \in Nat \ {0}
      BY OrderAssumption DEF AmmSizeThreshold
    <3>2. filled = LesserOf(amount, fillable)
      BY DEF Fillable
    <3>3. filled # 0
      <4> HIDE DEF filled, u
      <4> QED
        BY <1>3, <1>5, <3>1
    <3>4. fillable # 0
      <4> HIDE DEF fillable, filled
      <4> QED
        BY <3>2, <3>3 DEF LesserOf
    <3>5. IsOpen(u.orders[i])
      BY DEF IsLive
    <3> QED
      BY <3>4, <3>5 DEF Exhausted
  <2>1. c = [users |-> after, amm |-> amm]
    BY <1>5 DEF fulfill_perp_order_with_amm, WithUser
  <2>2. /\ SoundUser(v, ids[t]) /\ OrdersLeft(v, u)
        /\ v.base_asset_amount = u.base_asset_amount + Signed(o.direction, filled)
        /\ v.orders[i] = RestOf(o, filled)
        /\ \A j \in Slots \ {i} : v.orders[j] = u.orders[j]
    <3>1. IsLive(u.orders[i]) /\ filled <= Unfilled(u.orders[i])
      BY <1>3
    <3> HIDE DEF u, filled
    <3> QED
      BY <1>1, <1>3, <3>1, FillSound
  <2>3. amm = b.amm + (v.base_asset_amount - u.base_asset_amount)
    <3>1. Signed(o.direction, filled) \in Int
      BY <1>3 DEF Signed
    <3> HIDE DEF v, u, filled
    <3> QED
      BY <1>1, <2>2, <3>1
  <2>4. c \in Books(us, ids)
    <3> HIDE DEF v, amm
    <3> QED
      BY <2>1, <2>2, <2>3, BookStep
  <2>5. c.users = after
    BY <2>1
  <2>6. \A m \in Users : after[m] = IF m = t THEN v ELSE b.users[m]
    <3> HIDE DEF v
    <3> QED
      BY <1>1 DEF WithUser
  <2>7. ASSUME amount < Unfilled(o) PROVE IsLive(v.orders[i]) /\ v.orders[i].direction = o.direction
    <3>1. filled # Unfilled(o)
      <4> HIDE DEF filled, o
      <4> QED
        BY <1>3, <2>7
    <3>2. v.orders[i] = FilledOrder(o, filled)
      BY <2>2, <3>1 DEF RestOf
    <3>3. IsLive(o)
      OBVIOUS
    <3> HIDE DEF o, filled, v
    <3> QED
      BY <1>2, <1>3, <3>2, <3>3, FilledOrderFacts
  <2>8. Took(v, u, i)
    <3> HIDE DEF v, filled, u
    <3> QED
      BY <1>3, <2>2 DEF Took
  <2> HIDE DEF after, v
  <2> QED
    BY <2>2, <2>4, <2>5, <2>6, <2>7, <2>8, <2>9
<1> QED
  BY <1>4, <1>5

(* Order i of t and order j of m meet at this price; and what a match then *)
(* makes of book b: the AMM leaves `left' of the taker, and both sides get *)
(* what is left of the smaller order.                                      *)
Meet(b, t, i, m, j, price) ==
  /\ do_orders_cross(b.users[t].orders[i].direction, b.users[m].orders[j].price, price)
  /\ LesserOf(Fillable(b.users[m], j), Fillable(b.users[t], i)) # 0

MatchedFrom(c, b, t, i, m, j, left, id) ==
  /\ SoundUser(left, id) /\ IsLive(left.orders[i])
  /\ \A n \in Slots \ {i} : left.orders[n] = b.users[t].orders[n]
  /\ LET amount == LesserOf(Fillable(b.users[m], j), Fillable(left, i))
     IN  c.users[t] = FillSlot(left, i, amount) /\ c.users[m] = FillSlot(b.users[m], j, amount)

(* The maker gets what the AMM has left, and the taker the same.           *)
LEMMA MatchFill ==
  ASSUME NEW us, NEW ids, NEW b \in Books(us, ids), NEW t \in Users, NEW i \in Slots,
         IsLive(b.users[t].orders[i]), NEW m \in Users \ {t}, NEW j \in Slots,
         IsOpen(b.users[m].orders[j]) =>
           /\ IsLive(b.users[m].orders[j])
           /\ b.users[m].orders[j].direction = OppositeSide(b.users[t].orders[i].direction),
         NEW taker_price, NEW jit \in Nat,
         NEW c, c = fulfill_perp_order_with_match(b, t, i, m, j, taker_price, jit)
  PROVE  /\ c \in Books(us, ids)
         /\ \A w \in Users \ {t, m} : c.users[w] = b.users[w]
         /\ Took(c.users[m], b.users[m], j)
         /\ \E left : /\ SoundUser(left, ids[t]) /\ OrdersLeft(left, us[t])
                       /\ Took(left, b.users[t], i) /\ Took(c.users[t], left, i)
         /\ ~Meet(b, t, i, m, j, taker_price) => c = b
         /\ Meet(b, t, i, m, j, taker_price) =>
              /\ IsLive(b.users[m].orders[j])
              /\ \E left : MatchedFrom(c, b, t, i, m, j, left, ids[t])
<1> DEFINE taker == b.users[t]
           maker == b.users[m]
           o == taker.orders[i]
           k == maker.orders[j]
           maker_amount == get_base_asset_amount_unfilled(k, maker.base_asset_amount)
           taker_amount == get_base_asset_amount_unfilled(o, taker.base_asset_amount)
           matched == LesserOf(maker_amount, taker_amount)
           share == LesserOf(jit, matched \div 2)
           after == fulfill_perp_order_with_amm(b, t, i, share)
           left == after.users[t]
           left_amount == get_base_asset_amount_unfilled(left.orders[i], left.base_asset_amount)
           amount == LesserOf(maker_amount, left_amount)
           v == FillSlot(left, i, amount)
           w == FillSlot(after.users[m], j, amount)
           result == fulfill_perp_order_with_match(b, t, i, m, j, taker_price, jit)
<1>1. /\ SoundUser(taker, ids[t]) /\ taker.base_asset_amount \in Int
      /\ SoundUser(maker, ids[m]) /\ maker.base_asset_amount \in Int
  BY BookFacts
<1>2. SoundOrder(o, ids[t]) /\ SoundOrder(k, ids[m])
  BY <1>1 DEF SoundUser
<1>3. /\ maker_amount \in Nat /\ maker_amount <= Unfilled(k) /\ Unfilled(k) \in Nat
      /\ taker_amount \in Nat /\ taker_amount <= Unfilled(o) /\ Unfilled(o) \in Nat
  <2> HIDE DEF o, k, taker, maker
  <2> QED
    BY <1>1, <1>2, UnfilledBounds, Contributions
<1>0. Meet(b, t, i, m, j, taker_price)
        <=> ~(~do_orders_cross(o.direction, k.price, taker_price) \/ matched = 0)
  BY DEF Meet, Fillable
<1>4. CASE ~do_orders_cross(o.direction, k.price, taker_price) \/ matched = 0
  <2>1. result = b
    BY <1>4 DEF fulfill_perp_order_with_match
  <2>2. Took(taker, taker, i) /\ Took(maker, maker, j)
    <3> HIDE DEF taker, maker
    <3> QED
      BY <1>1, TookNothing
  <2>3. OrdersLeft(taker, us[t])
    BY BookFacts
  <2>4. c = b
    BY <2>1
  <2> QED
    BY <1>0, <1>1, <1>4, <2>2, <2>3, <2>4
<1>5. CASE ~(~do_orders_cross(o.direction, k.price, taker_price) \/ matched = 0)
  <2>1. result = [after EXCEPT !.users[t] = FillSlot(@, i, amount), !.users[m] = FillSlot(@, j, amount)]
    BY <1>5 DEF fulfill_perp_order_with_match
  <2>2. matched \in Nat \ {0} /\ matched <= maker_amount /\ matched <= taker_amount
    <3> HIDE DEF maker_amount, taker_amount
    <3> QED
      BY <1>3, <1>5 DEF LesserOf
  <2>3. share \in Nat /\ share < Unfilled(o) /\ Unfilled(k) > 0
    <3> HIDE DEF matched, o, k
    <3>1. share \in Nat /\ share < matched
      BY <2>2 DEF LesserOf
    <3> QED
      BY <1>3, <2>2, <3>1
  <2>4. IsLive(k) /\ k.direction = OppositeSide(o.direction)
    <3>1. IsOpen(k)
      BY <1>2, <2>3, EmptySlot DEF SoundOrder
    <3> QED
      BY <3>1
  <2>5. /\ after \in Books(us, ids) /\ after.users[m] = maker
        /\ IsLive(left.orders[i]) /\ left.orders[i].direction = o.direction
        /\ \A n \in Users \ {t} : after.users[n] = b.users[n]
        /\ Took(left, taker, i)
        /\ \A n \in Slots \ {i} : left.orders[n] = taker.orders[n]
    <3>1. /\ after \in Books(us, ids)
          /\ \A n \in Users \ {t} : after.users[n] = b.users[n]
          /\ Took(after.users[t], b.users[t], i)
          /\ \A n \in Slots \ {i} : after.users[t].orders[n] = b.users[t].orders[n]
          /\ share < Unfilled(b.users[t].orders[i]) =>
               /\ IsLive(after.users[t].orders[i])
               /\ after.users[t].orders[i].direction = b.users[t].orders[i].direction
      <4>1. share \in Nat /\ after = fulfill_perp_order_with_amm(b, t, i, share)
        BY <2>3
      <4> HIDE DEF share, after
      <4> QED
        BY <4>1, AmmFill
    <3> HIDE DEF after
    <3> QED
      BY <2>3, <3>1
  <2>6. /\ SoundUser(left, ids[t]) /\ left.base_asset_amount \in Int
        /\ after.users \in [Users -> UserRecords] /\ after.amm \in Int
        /\ after = [users |-> after.users, amm |-> after.amm]
        /\ OrdersLeft(left, us[t])
    <3> HIDE DEF after
    <3> QED
      BY <2>5, BookFacts
  <2>7. /\ amount \in Nat /\ amount <= Unfilled(left.orders[i]) /\ amount <= Unfilled(k)
        /\ amount <= left_amount /\ amount <= maker_amount
    <3>1. SoundOrder(left.orders[i], ids[t])
      BY <2>6 DEF SoundUser
    <3>2. left_amount \in Nat /\ left_amount <= Unfilled(left.orders[i]) /\ Unfilled(left.orders[i]) \in Nat
      <4> HIDE DEF left
      <4> QED
        BY <2>6, <3>1, UnfilledBounds, Contributions
    <3> HIDE DEF left_amount, left, maker_amount, k
    <3> QED
      BY <1>3, <3>2 DEF LesserOf
  <2> HIDE DEF after, amount
  <2>8. /\ SoundUser(v, ids[t]) /\ OrdersLeft(v, left)
        /\ v.base_asset_amount = left.base_asset_amount + Signed(o.direction, amount)
    <3>1. /\ SoundUser(v, ids[t]) /\ OrdersLeft(v, left)
          /\ v.base_asset_amount = left.base_asset_amount + Signed(left.orders[i].direction, amount)
      <4> HIDE DEF left
      <4> QED
        BY <2>5, <2>6, <2>7, FillSound
    <3> QED
      BY <2>5, <3>1
  <2>9. /\ SoundUser(w, ids[m]) /\ OrdersLeft(w, after.users[m])
        /\ w.base_asset_amount = maker.base_asset_amount + Signed(k.direction, amount)
    <3> DEFINE x == FillSlot(maker, j, amount)
    <3>1. /\ SoundUser(x, ids[m]) /\ OrdersLeft(x, maker)
          /\ x.base_asset_amount = maker.base_asset_amount + Signed(maker.orders[j].direction, amount)
      <4>1. IsLive(maker.orders[j]) /\ amount <= Unfilled(maker.orders[j])
        BY <2>4, <2>7
      <4> HIDE DEF maker
      <4> QED
        BY <1>1, <2>7, <4>1, FillSound
    <3>2. w = x
      BY <2>5
    <3> HIDE DEF w, x, maker
    <3> QED
      BY <2>5, <3>1, <3>2 DEF maker
  <2>10. Signed(o.direction, amount) \in Int /\ Signed(k.direction, amount) = -Signed(o.direction, amount)
    <3>1. o.direction \in PositionDirection
      BY <1>2 DEF SoundOrder, Orders
    <3> HIDE DEF o, k
    <3> QED
      BY <2>4, <2>7, <3>1 DEF Signed, OppositeSide, PositionDirection
  <2> DEFINE amm == after.amm + Signed(o.direction, amount)
             first == [users |-> WithUser(after.users, t, v), amm |-> amm]
             second == [users |-> WithUser(first.users, m, w), amm |-> after.amm]
  <2>11. first \in Books(us, ids)
    <3>1. amm = after.amm + (v.base_asset_amount - after.users[t].base_asset_amount)
      <4> HIDE DEF v, o
      <4> QED
        BY <2>6, <2>8, <2>10
    <3> HIDE DEF v, amm
    <3> QED
      BY <2>5, <2>8, <3>1, BookStep
  <2>12. first.users[m] = maker /\ first.users = WithUser(after.users, t, v) /\ first.amm = amm
    <3> HIDE DEF v, amm, maker
    <3>1. first.users = WithUser(after.users, t, v) /\ first.amm = amm
      OBVIOUS
    <3>2. WithUser(after.users, t, v)[m] = after.users[m]
      BY <2>6 DEF WithUser
    <3> QED
      BY <2>5, <3>1, <3>2
  <2>13. second \in Books(us, ids)
    <3>1. after.amm = first.amm + (w.base_asset_amount - first.users[m].base_asset_amount)
      <4> HIDE DEF w, first, maker, o, k
      <4> QED
        BY <1>1, <2>6, <2>9, <2>10, <2>12
    <3>2. OrdersLeft(w, first.users[m])
      BY <2>5, <2>9, <2>12
    <3> HIDE DEF w, first
    <3> QED
      BY <2>9, <2>11, <3>1, <3>2, BookStep
  <2>14. result = second
    <3> DEFINE x == after.users
               y == after.amm
    <3>1. result = [[users |-> x, amm |-> y] EXCEPT !.users[t] = FillSlot(@, i, amount),
                                                    !.users[m] = FillSlot(@, j, amount)]
      BY <2>1, <2>6, Zenon
    <3> HIDE DEF x, y
    <3>2. [[users |-> x, amm |-> y] EXCEPT !.users[t] = FillSlot(@, i, amount), !.users[m] = FillSlot(@, j, amount)] =
          [users |-> [[x EXCEPT ![t] = FillSlot(x[t], i, amount)] EXCEPT ![m] = FillSlot(x[m], j, amount)], amm |-> y]
      <4> DEFINE p == FillSlot(x[t], i, amount)
                 q == FillSlot(x[m], j, amount)
                 r == [users |-> x, amm |-> y]
                 z == [x EXCEPT ![t] = p]
      <4>1. r.users = x /\ r.users[t] = x[t] /\ r.users[m] = x[m]
        OBVIOUS
      <4>2. [r EXCEPT !.users[t] = FillSlot(@, i, amount), !.users[m] = FillSlot(@, j, amount)] =
            [[r EXCEPT !.users[t] = FillSlot(r.users[t], i, amount)] EXCEPT
                !.users[m] = FillSlot(r.users[m], j, amount)]
        OBVIOUS
      <4>3. [r EXCEPT !.users[t] = FillSlot(@, i, amount), !.users[m] = FillSlot(@, j, amount)] =
            [[r EXCEPT !.users[t] = p] EXCEPT !.users[m] = q]
        <5> HIDE DEF r
        <5> QED
          BY <4>1, <4>2, Zenon
      <4> HIDE DEF p, q
      <4>4. [r EXCEPT !.users[t] = p] = [users |-> z, amm |-> y]
        OBVIOUS
      <4> HIDE DEF z
      <4>5. [[users |-> z, amm |-> y] EXCEPT !.users[m] = q] = [users |-> [z EXCEPT ![m] = q], amm |-> y]
        OBVIOUS
      <4> HIDE DEF r
      <4>6. [r EXCEPT !.users[t] = FillSlot(@, i, amount), !.users[m] = FillSlot(@, j, amount)] =
            [users |-> [z EXCEPT ![m] = q], amm |-> y]
        BY <4>3, <4>4, <4>5, Zenon
      <4> QED
        BY <4>6 DEF p, q, r, z
    <3> QED
      BY <3>1, <3>2 DEF x, y, WithUser
  <2>15. Took(v, left, i) /\ Took(w, maker, j)
    <3>1. v.base_asset_amount = left.base_asset_amount + Signed(left.orders[i].direction, amount)
      BY <2>5, <2>8
    <3> HIDE DEF v, w, left, maker
    <3> QED
      BY <2>7, <2>9, <3>1 DEF Took
  <2>16. /\ c.users[t] = v /\ c.users[m] = w
         /\ \A n \in Users \ {t, m} : c.users[n] = b.users[n]
    <3> HIDE DEF v, w
    <3>1. c.users = WithUser(WithUser(after.users, t, v), m, w)
      BY <2>14
    <3>2. /\ WithUser(WithUser(after.users, t, v), m, w)[t] = v
          /\ WithUser(WithUser(after.users, t, v), m, w)[m] = w
          /\ \A n \in Users \ {t, m} : WithUser(WithUser(after.users, t, v), m, w)[n] = after.users[n]
      BY <2>6 DEF WithUser
    <3> QED
      BY <2>5, <3>1, <3>2
  <2>17. c \in Books(us, ids)
    BY <2>13, <2>14
  <2>18. MatchedFrom(c, b, t, i, m, j, left, ids[t])
    <3>1. amount = LesserOf(Fillable(b.users[m], j), Fillable(left, i))
      BY DEF Fillable, amount
    <3>2. c.users[t] = FillSlot(left, i, amount) /\ c.users[m] = FillSlot(b.users[m], j, amount)
      BY <2>5, <2>16
    <3> HIDE DEF left
    <3> QED
      BY <2>5, <2>6, <3>1, <3>2 DEF MatchedFrom
  <2>19. Meet(b, t, i, m, j, taker_price) /\ IsLive(b.users[m].orders[j])
    BY <1>0, <1>5, <2>4
  <2> HIDE DEF v, w, left
  <2> QED
    BY <2>5, <2>6, <2>15, <2>16, <2>17, <2>18, <2>19
<1> QED
  BY <1>4, <1>5

(* What a fill may do to the position of an account u that trades in       *)
(* direction d: it moves it that way only, only if u had a live order on   *)
(* that side that has not expired, and never past zero when all of these   *)
(* may only reduce it.                                                     *)
OnlyReduces(u, d) ==
  \A j \in Slots : (IsLive(u.orders[j]) /\ u.orders[j].direction = d) =>
                     (u.orders[j].reduce_only /\ ~u.orders[j].post_only)

MayTrade(u, j, d) ==
  j \in Slots /\ IsLive(u.orders[j]) /\ u.orders[j].direction = d /\ ~should_expire_order(u.orders[j], now)

Moves(base, u, d) ==
  /\ Signed(d, u.base_asset_amount) <= Signed(d, base)
  /\ base # u.base_asset_amount => \E j \in Slots : MayTrade(u, j, d)
  /\ OnlyReduces(u, d) => (base = u.base_asset_amount \/ Reduces(u.base_asset_amount, base))

(* A position that does not move has moved as it may.                      *)
LEMMA MovesNot ==
  ASSUME NEW u, u.base_asset_amount \in Int, NEW d
  PROVE  Moves(u.base_asset_amount, u, d)
BY DEF Moves, Signed

(* An amount that is 0, either way.                                        *)
LEMMA SignedZero ==
  ASSUME NEW d, NEW n \in Nat, n <= 0
  PROVE  Signed(d, n) = 0
BY DEF Signed

(* A fill of one more order on the same side.                              *)
LEMMA TookMoves ==
  ASSUME NEW u, u.base_asset_amount \in Int, NEW v, NEW id, SoundUser(v, id), OrdersLeft(v, u),
         NEW d \in PositionDirection, NEW j \in Slots, MayTrade(u, j, d),
         Moves(v.base_asset_amount, u, d), NEW w, Took(w, v, j)
  PROVE  Moves(w.base_asset_amount, u, d)
<1> DEFINE o == v.orders[j]
           k == u.orders[j]
           x == u.base_asset_amount
           y == v.base_asset_amount
           z == w.base_asset_amount
<1>1. y \in Int /\ SoundOrder(o, id) /\ LeftOf(o, k)
  BY SoundUserParts DEF SoundUser, OrdersLeft
<1>2. PICK n \in Nat : n <= get_base_asset_amount_unfilled(o, y) /\ z = y + Signed(o.direction, n)
  BY DEF Took
<1>3. CASE ~IsOpen(o)
  <2>1. o = NoOrder
    BY <1>1, <1>3 DEF SoundOrder
  <2>2. ~o.reduce_only /\ Unfilled(o) = 0
    BY <2>1, EmptySlot DEF NoOrder
  <2> HIDE DEF o, y, z
  <2>3. n <= 0
    BY <1>2, <2>2 DEF get_base_asset_amount_unfilled
  <2>4. Signed(o.direction, n) = 0
    BY <2>3, SignedZero
  <2>5. z = y
    BY <1>1, <1>2, <2>4
  <2> QED
    BY <2>5 DEF y, z
<1>4. CASE IsOpen(o)
  <2>1. o.direction = d /\ o.reduce_only = k.reduce_only /\ o.post_only = k.post_only
    <3>1. k.direction = d
      BY DEF MayTrade
    <3> HIDE DEF o, k
    <3> QED
      BY <1>1, <1>4, <3>1, LeftOfFacts
  <2>2. z = y + Signed(d, n) /\ x \in Int /\ Moves(y, u, d)
    BY <1>2, <2>1
  <2>3. /\ Signed(d, x) <= Signed(d, y)
        /\ OnlyReduces(u, d) => (y = x \/ Reduces(x, y))
    BY <2>2 DEF Moves
  <2>4. Signed(d, x) <= Signed(d, z)
    <3> HIDE DEF x, y, z
    <3> QED
      BY <1>1, <2>2, <2>3 DEF Signed
  <2>5. ASSUME OnlyReduces(u, d) PROVE z = x \/ Reduces(x, z)
    <3>1. k.reduce_only /\ ~k.post_only
      BY <2>5 DEF OnlyReduces, MayTrade
    <3>2. Unfilled(o) \in Nat
      <4> HIDE DEF o
      <4> QED
        BY <1>1, Contributions
    <3>3. n = 0 \/ (Signed(d, y) < 0 /\ n <= AbsOf(y))
      <4>1. n <= IF Signed(d, y) >= 0 THEN 0 ELSE LesserOf(Unfilled(o), AbsOf(y))
        BY <1>2, <2>1, <3>1 DEF get_base_asset_amount_unfilled
      <4> HIDE DEF o, y
      <4> QED
        BY <1>1, <3>2, <4>1 DEF Signed, AbsOf, LesserOf, PositionDirection
    <3>4. y = x \/ Reduces(x, y)
      BY <2>3, <2>5
    <3> HIDE DEF x, y, z, o
    <3>5. CASE n = 0
      <4>1. Signed(d, n) = 0
        BY <3>5, SignedZero
      <4>2. z = y
        BY <1>1, <2>2, <4>1
      <4> QED
        BY <3>4, <4>2
    <3>6. CASE Signed(d, y) < 0 /\ n <= AbsOf(y)
      <4>1. CASE d = "Long"
        <5>1. y < 0 /\ n <= -y /\ z = y + n
          BY <1>1, <2>2, <3>6, <4>1 DEF Signed, AbsOf
        <5>2. x < 0 /\ x <= y
          BY <1>1, <2>2, <3>4, <5>1 DEF Reduces
        <5> QED
          BY <1>1, <2>2, <5>1, <5>2 DEF Reduces
      <4>2. CASE d = "Short"
        <5>1. y > 0 /\ n <= y /\ z = y - n
          BY <1>1, <2>2, <3>6, <4>2 DEF Signed, AbsOf
        <5>2. x > 0 /\ y <= x
          BY <1>1, <2>2, <3>4, <5>1 DEF Reduces
        <5> QED
          BY <1>1, <2>2, <5>1, <5>2 DEF Reduces
      <4> QED
        BY <4>1, <4>2 DEF PositionDirection
    <3> QED
      BY <3>3, <3>5, <3>6
  <2>6. \E i \in Slots : MayTrade(u, i, d)
    OBVIOUS
  <2> HIDE DEF x, z
  <2>7. Moves(z, u, d)
    BY <2>4, <2>5, <2>6 DEF Moves, x
  <2> QED
    BY <2>7 DEF z
<1> QED
  BY <1>3, <1>4

(* The methods a fill may go through, with these maker orders.             *)
PricesAndNone == Prices \cup {0}
Methods(infos) ==
  {AMM(p) : p \in PricesAndNone} \cup {Match(info, p) : info \in infos, p \in PricesAndNone}

MethodLists(infos) == [methods : Seq(Methods(infos)), amm_price : PricesAndNone]

(* One round of determine_perp_fulfillment_methods keeps a list of         *)
(* methods.                                                                *)
LEMMA AddMethodType ==
  ASSUME NEW infos, NEW acc \in MethodLists(infos), NEW o, NEW info \in infos,
         NEW price \in PricesAndNone, NEW limit_price, NEW can \in BOOLEAN
  PROVE  AddMethod(acc, o, info, price, limit_price, can) \in MethodLists(infos)
<1> DEFINE M == Methods(infos)
           a == AMM(price)
           match == Match(info, price)
           list == acc.methods
           one == Append(list, match)
           two == Append(Append(list, a), match)
           result == AddMethod(acc, o, info, price, limit_price, can)
<1>1. a \in M /\ match \in M
  BY DEF Methods
<1>2. list \in Seq(M) /\ acc.amm_price \in PricesAndNone
  BY DEF MethodLists
<1>3. one \in Seq(M) /\ two \in Seq(M)
  <2> HIDE DEF M, a, match, list
  <2> QED
    BY <1>1, <1>2
<1>4. \/ result = acc
      \/ result = [methods |-> two, amm_price |-> price]
      \/ result = [methods |-> one, amm_price |-> acc.amm_price]
  BY Zenon DEF AddMethod
<1> HIDE DEF result, one, two
<1> QED
  BY <1>2, <1>3, <1>4 DEF MethodLists, result

(* The AMM may be added at the end of any list, the empty one included.    *)
LEMMA AmmLast ==
  ASSUME NEW infos, NEW list \in Seq(Methods(infos))
  PROVE  Append(list, AMM(0)) \in Seq(Methods(infos)) /\ <<AMM(0)>> \in Seq(Methods(infos))
         /\ <<>> \in Seq(Methods(infos))
<1>1. AMM(0) \in Methods(infos)
  BY DEF Methods, PricesAndNone
<1> QED
  BY <1>1

IsMethodLoop(g, us, o, infoseq, limit_price, amm_price, can) ==
  g = [n \in 0 .. Len(infoseq) |->
         IF n = 0 THEN [methods |-> <<>>, amm_price |-> amm_price]
         ELSE AddMethod(g[n - 1], o, infoseq[n], us[infoseq[n][1]].orders[infoseq[n][2]].price,
                        limit_price, can)]

(* The rounds of determine_perp_fulfillment_methods, and what it makes of  *)
(* the list that the last one leaves.                                      *)
MethodRounds(f, us, o, infoseq, limit_price, amm_price, can) ==
  /\ f[0] = [methods |-> <<>>, amm_price |-> amm_price]
  /\ \A n \in 1 .. Len(infoseq) :
       f[n] = AddMethod(f[n - 1], o, infoseq[n], us[infoseq[n][1]].orders[infoseq[n][2]].price,
                        limit_price, can)

FinalMethods(list, all) ==
  list = <<AMM(0)>> \/ list = <<>> \/ list = Append(all.methods, AMM(0)) \/ list = all.methods

(* It goes through lists of methods.                                       *)
LEMMA MethodsRun ==
  ASSUME NEW us, NEW o, NEW infos, NEW infoseq \in Seq(infos), NEW limit_price,
         NEW amm_price \in PricesAndNone, NEW can \in BOOLEAN,
         \A info \in infos : us[info[1]].orders[info[2]].price \in PricesAndNone
  PROVE  \E f \in [0 .. Len(infoseq) -> MethodLists(infos)] :
           /\ MethodRounds(f, us, o, infoseq, limit_price, amm_price, can)
           /\ FinalMethods(
                determine_perp_fulfillment_methods(us, o, infoseq, limit_price, amm_price, can),
                f[Len(infoseq)])
<1> DEFINE B == MethodLists(infos)
           N == Len(infoseq)
           price(n) == us[infoseq[n][1]].orders[infoseq[n][2]].price
           start == [methods |-> <<>>, amm_price |-> amm_price]
           step == [p \in B \X (1 .. N) |-> AddMethod(p[1], o, infoseq[p[2]], price(p[2]), limit_price, can)]
           loop == CHOOSE g : IsMethodLoop(g, us, o, infoseq, limit_price, amm_price, can)
<1>0. N \in Nat
  OBVIOUS
<1>1. start \in B
  BY DEF MethodLists
<1>2. ASSUME NEW acc \in B, NEW n \in 1 .. N
      PROVE  AddMethod(acc, o, infoseq[n], price(n), limit_price, can) \in B
  <2>1. infoseq[n] \in infos
    OBVIOUS
  <2>2. price(n) \in PricesAndNone
    BY <2>1
  <2> HIDE DEF B, price
  <2> QED
    BY <2>1, <2>2, AddMethodType DEF B
<1> HIDE DEF B, start, N
<1>3. step \in StepsUpTo(B, N)
  BY <1>2 DEF StepsUpTo
<1>4. PICK f \in [0 .. N -> B] : IsRun(f, start, step, N)
  <2> HIDE DEF step
  <2> QED
    BY <1>0, <1>1, <1>3, RecursionExists
<1>5. ASSUME NEW n \in 1 .. N PROVE f[n] = AddMethod(f[n - 1], o, infoseq[n], price(n), limit_price, can)
  <2>1. n - 1 \in 0 .. N
    BY <1>0
  <2>2. <<f[n - 1], n>> \in B \X (1 .. N)
    BY <1>4, <2>1
  <2> QED
    BY <1>4, <2>2 DEF IsRun
<1> HIDE DEF step
<1>6. IsMethodLoop(f, us, o, infoseq, limit_price, amm_price, can)
  <2>1. ASSUME NEW n \in 0 .. N
        PROVE  f[n] = IF n = 0 THEN start ELSE AddMethod(f[n - 1], o, infoseq[n], price(n), limit_price, can)
    <3>1. CASE n = 0
      BY <1>4, <3>1 DEF IsRun
    <3>2. CASE n # 0
      BY <1>0, <1>5, <3>2
    <3> QED
      BY <3>1, <3>2
  <2>2. f = [n \in 0 .. N |-> f[n]]
    BY <1>4
  <2>3. f = [n \in 0 .. N |->
               IF n = 0 THEN start ELSE AddMethod(f[n - 1], o, infoseq[n], price(n), limit_price, can)]
    BY <2>1, <2>2, Zenon
  <2> QED
    BY <2>3, Zenon DEF IsMethodLoop, N, start
<1>7. IsMethodLoop(loop, us, o, infoseq, limit_price, amm_price, can)
  BY <1>6
<1> HIDE DEF loop
<1>8. loop[0] = start /\ \A n \in 1 .. N : loop[n] = AddMethod(loop[n - 1], o, infoseq[n], price(n), limit_price, can)
  <2>1. ASSUME NEW n \in 0 .. N
        PROVE  loop[n] = IF n = 0 THEN start
                         ELSE AddMethod(loop[n - 1], o, infoseq[n], price(n), limit_price, can)
    BY <1>7 DEF IsMethodLoop, N, start
  <2>2. 0 \in 0 .. N /\ \A n \in 1 .. N : n \in 0 .. N /\ n # 0
    BY <1>0
  <2> QED
    BY <2>1, <2>2
<1>9. loop \in [0 .. N -> B]
  <2> DEFINE K == {n \in 0 .. N : loop[n] \in B}
  <2>1. K \in SUBSET (0 .. N) /\ 0 \in K
    BY <1>0, <1>1, <1>8
  <2>2. ASSUME NEW n \in K, n < N PROVE n + 1 \in K
    <3>1. n + 1 \in 1 .. N /\ (n + 1) - 1 = n /\ n + 1 \in 0 .. N
      BY <1>0, <2>2
    <3>2. loop[n + 1] = AddMethod(loop[n], o, infoseq[n + 1], price(n + 1), limit_price, can)
      BY <1>8, <3>1
    <3> QED
      BY <1>2, <3>1, <3>2
  <2> HIDE DEF K
  <2>3. K = 0 .. N
    BY <1>0, <2>1, <2>2, IntervalInduction
  <2>4. \A n \in 0 .. N : loop[n] \in B
    BY <2>3 DEF K
  <2>5. loop = [n \in 0 .. N |-> loop[n]]
    BY <1>7 DEF IsMethodLoop, N
  <2> QED
    BY <2>4, <2>5
<1> DEFINE all == loop[N]
           result == determine_perp_fulfillment_methods(us, o, infoseq, limit_price, amm_price, can)
<1>10. \/ result = <<AMM(0)>> \/ result = <<>>
       \/ result = Append(all.methods, AMM(0)) \/ result = all.methods
  BY Zenon DEF determine_perp_fulfillment_methods, loop, IsMethodLoop, N
<1>11. MethodRounds(loop, us, o, infoseq, limit_price, amm_price, can)
  BY <1>8 DEF MethodRounds, N, start
<1>12. FinalMethods(result, all)
  BY <1>10, Zenon DEF FinalMethods
<1> HIDE DEF result
<1> QED
  BY <1>9, <1>11, <1>12 DEF result, N, B

(* The list of methods holds methods.                                      *)
LEMMA MethodsType ==
  ASSUME NEW us, NEW o, NEW infos, NEW infoseq \in Seq(infos), NEW limit_price,
         NEW amm_price \in PricesAndNone, NEW can \in BOOLEAN,
         \A info \in infos : us[info[1]].orders[info[2]].price \in PricesAndNone
  PROVE  determine_perp_fulfillment_methods(us, o, infoseq, limit_price, amm_price, can)
           \in Seq(Methods(infos))
<1> DEFINE result == determine_perp_fulfillment_methods(us, o, infoseq, limit_price, amm_price, can)
           N == Len(infoseq)
<1>1. PICK f \in [0 .. N -> MethodLists(infos)] :
        /\ MethodRounds(f, us, o, infoseq, limit_price, amm_price, can)
        /\ FinalMethods(result, f[N])
  <2> HIDE DEF result
  <2> QED
    BY MethodsRun DEF result
<1>2. f[N].methods \in Seq(Methods(infos))
  BY <1>1 DEF MethodLists
<1> HIDE DEF result, N
<1> QED
  BY <1>1, <1>2, AmmLast DEF FinalMethods, result

(* The orders that may be on the other side of an order that goes d.       *)
CounterOrders(us, t, d) ==
  {info \in (Users \ {t}) \X Slots : MayTrade(us[info[1]], info[2], OppositeSide(d))}

(* The books of a fill of an order of t that goes d: t moves that way and  *)
(* everybody else the other way.                                           *)
SideFor(w, t, d) == IF w = t THEN d ELSE OppositeSide(d)

MovedBooks(us, ids, t, d) ==
  {b \in Books(us, ids) : \A w \in Users : Moves(b.users[w].base_asset_amount, us[w], SideFor(w, t, d))}

(* A book with the same positions.                                         *)
LEMMA StillMoved ==
  ASSUME NEW us, NEW ids, NEW t, NEW d, NEW b \in MovedBooks(us, ids, t, d), NEW c \in Books(us, ids),
         \A w \in Users : c.users[w].base_asset_amount = b.users[w].base_asset_amount
  PROVE  c \in MovedBooks(us, ids, t, d)
BY DEF MovedBooks

(* One method.                                                             *)
LEMMA FulfillWithSound ==
  ASSUME NEW us \in [Users -> UserRecords], NEW ids, NEW t \in Users, NEW d \in PositionDirection,
         NEW b \in MovedBooks(us, ids, t, d), NEW i \in Slots, MayTrade(us[t], i, d),
         NEW infos \in SUBSET CounterOrders(us, t, d), NEW method \in Methods(infos), NEW taker_price,
         NEW depth \in [PricesAndNone -> Nat], NEW jit \in Nat
  PROVE  FulfillWith(b, t, i, method, taker_price, depth, jit) \in MovedBooks(us, ids, t, d)
<1> DEFINE o == b.users[t].orders[i]
           c == FulfillWith(b, t, i, method, taker_price, depth, jit)
           moved(a, w) == Moves(a.users[w].base_asset_amount, us[w], SideFor(w, t, d))
<1>1. /\ b \in Books(us, ids) /\ \A w \in Users : moved(b, w)
      /\ \A w \in Users : us[w].base_asset_amount \in Int
  BY DEF MovedBooks, UserRecords
<1>2. CASE ~IsOpen(o)
  BY <1>2 DEF FulfillWith
<1>3. CASE IsOpen(o)
  <2>1. \A w \in Users : SoundUser(b.users[w], ids[w]) /\ OrdersLeft(b.users[w], us[w])
    BY <1>1, BookFacts
  <2>2. LeftOf(o, us[t].orders[i]) /\ IsLive(us[t].orders[i]) /\ us[t].orders[i].direction = d
    BY <2>1 DEF OrdersLeft, MayTrade
  <2>3. IsLive(o) /\ o.direction = d
    <3> HIDE DEF o
    <3> QED
      BY <1>3, <2>2, LeftOfFacts
  <2>4. ASSUME NEW p \in PricesAndNone, method = AMM(p) PROVE c \in MovedBooks(us, ids, t, d)
    <3> DEFINE amount == depth[p]
    <3>1. amount \in Nat /\ c = fulfill_perp_order_with_amm(b, t, i, amount)
      BY <1>3, <2>4 DEF FulfillWith, AMM
    <3> HIDE DEF amount, c
    <3>2. /\ c \in Books(us, ids) /\ \A m \in Users \ {t} : c.users[m] = b.users[m]
          /\ Took(c.users[t], b.users[t], i)
      BY <1>1, <2>3, <3>1, AmmFill
    <3>3. Moves(c.users[t].base_asset_amount, us[t], d)
      <4>1. Moves(b.users[t].base_asset_amount, us[t], d)
        BY <1>1 DEF SideFor
      <4> QED
        BY <1>1, <2>1, <3>2, <4>1, TookMoves
    <3>4. \A w \in Users : moved(c, w)
      BY <1>1, <3>2, <3>3 DEF SideFor
    <3> QED
      BY <3>2, <3>4 DEF MovedBooks
  <2>5. ASSUME NEW info \in infos, NEW p \in PricesAndNone, method = Match(info, p)
        PROVE  c \in MovedBooks(us, ids, t, d)
    <3> DEFINE m == info[1]
               j == info[2]
               k == b.users[m].orders[j]
               other == OppositeSide(d)
    <3>1. m \in Users \ {t} /\ j \in Slots /\ MayTrade(us[m], j, other)
      BY DEF CounterOrders
    <3>2. c = fulfill_perp_order_with_match(b, t, i, m, j, taker_price, jit)
      BY <1>3, <2>5 DEF FulfillWith, Match
    <3>3. other \in PositionDirection /\ SideFor(m, t, d) = other /\ SideFor(t, t, d) = d
      BY <3>1 DEF OppositeSide, PositionDirection, SideFor
    <3> HIDE DEF m, j, c
    <3>4. LeftOf(k, us[m].orders[j]) /\ IsLive(us[m].orders[j]) /\ us[m].orders[j].direction = other
      BY <2>1, <3>1 DEF OrdersLeft, MayTrade
    <3>5. IsOpen(k) => IsLive(k) /\ k.direction = OppositeSide(o.direction)
      <4>1. IsOpen(k) => IsLive(k) /\ k.direction = us[m].orders[j].direction
        <5> HIDE DEF k
        <5> QED
          BY <3>4, LeftOfFacts
      <4> QED
        BY <2>3, <3>4, <4>1
    <3>6. /\ c \in Books(us, ids)
          /\ \A w \in Users \ {t, m} : c.users[w] = b.users[w]
          /\ Took(c.users[m], b.users[m], j)
          /\ \E left : /\ SoundUser(left, ids[t]) /\ OrdersLeft(left, us[t])
                       /\ Took(left, b.users[t], i) /\ Took(c.users[t], left, i)
      BY <1>1, <2>3, <3>1, <3>2, <3>5, MatchFill
    <3> HIDE DEF other
    <3>7. Moves(c.users[m].base_asset_amount, us[m], other)
      <4>1. Moves(b.users[m].base_asset_amount, us[m], other)
        BY <1>1, <3>1, <3>3
      <4> QED
        BY <1>1, <2>1, <3>1, <3>3, <3>6, <4>1, TookMoves
    <3>8. Moves(c.users[t].base_asset_amount, us[t], d)
      <4>1. PICK left : /\ SoundUser(left, ids[t]) /\ OrdersLeft(left, us[t])
                        /\ Took(left, b.users[t], i) /\ Took(c.users[t], left, i)
        BY <3>6
      <4>2. Moves(b.users[t].base_asset_amount, us[t], d)
        BY <1>1, <3>3
      <4>3. Moves(left.base_asset_amount, us[t], d)
        BY <1>1, <2>1, <4>1, <4>2, TookMoves
      <4> QED
        BY <1>1, <4>1, <4>3, TookMoves
    <3>9. ASSUME NEW w \in Users PROVE moved(c, w)
      <4>1. CASE w = t
        BY <3>3, <3>8, <4>1
      <4>2. CASE w = m
        BY <3>3, <3>7, <4>2
      <4>3. CASE w \notin {t, m}
        BY <1>1, <3>6, <4>3
      <4> QED
        BY <4>1, <4>2, <4>3
    <3> QED
      BY <3>6, <3>9 DEF MovedBooks
  <2> QED
    BY <2>4, <2>5 DEF Methods
<1> QED
  BY <1>2, <1>3

(* The loop over the methods.                                              *)
IsFulfillLoop(g, b, t, i, methods, taker_price, depth, jit) ==
  g = [n \in 0 .. Len(methods) |->
         IF n = 0 THEN b ELSE FulfillWith(g[n - 1], t, i, methods[n], taker_price, depth, jit)]

(* The books that a fill goes through, one for each method.                *)
FulfillRounds(f, b, t, i, methods, taker_price, depth, jit) ==
  /\ f[0] = b
  /\ \A n \in 1 .. Len(methods) :
       f[n] = FulfillWith(f[n - 1], t, i, methods[n], taker_price, depth, jit)

RunsThrough(B, b, t, i, methods, taker_price, depth, jit) ==
  \E f \in [0 .. Len(methods) -> B] :
    /\ FulfillRounds(f, b, t, i, methods, taker_price, depth, jit)
    /\ fulfill_perp_order(b, t, i, methods, taker_price, depth, jit) = f[Len(methods)]

(* They are all sound, and the last one is the result.                     *)
LEMMA FulfillRun ==
  ASSUME NEW us \in [Users -> UserRecords], NEW ids, NEW t \in Users, NEW d \in PositionDirection,
         NEW b \in MovedBooks(us, ids, t, d), NEW i \in Slots, MayTrade(us[t], i, d),
         NEW infos \in SUBSET CounterOrders(us, t, d), NEW methods \in Seq(Methods(infos)), NEW taker_price,
         NEW depth \in [PricesAndNone -> Nat], NEW jit \in Nat
  PROVE  RunsThrough(MovedBooks(us, ids, t, d), b, t, i, methods, taker_price, depth, jit)
<1> DEFINE B == MovedBooks(us, ids, t, d)
           N == Len(methods)
           next(c, n) == FulfillWith(c, t, i, methods[n], taker_price, depth, jit)
           step == [p \in B \X (1 .. N) |-> next(p[1], p[2])]
           loop == CHOOSE g : IsFulfillLoop(g, b, t, i, methods, taker_price, depth, jit)
<1>0. N \in Nat
  OBVIOUS
<1>1. b \in B
  OBVIOUS
<1>2. ASSUME NEW c \in B, NEW n \in 1 .. N PROVE next(c, n) \in B
  <2>1. methods[n] \in Methods(infos)
    OBVIOUS
  <2> QED
    BY <2>1, FulfillWithSound
<1> HIDE DEF B, N
<1>3. step \in StepsUpTo(B, N)
  BY <1>2 DEF StepsUpTo
<1>4. PICK f \in [0 .. N -> B] : IsRun(f, b, step, N)
  <2> HIDE DEF step
  <2> QED
    BY <1>0, <1>1, <1>3, RecursionExists
<1>5. ASSUME NEW n \in 1 .. N PROVE f[n] = next(f[n - 1], n)
  <2>1. n - 1 \in 0 .. N
    BY <1>0
  <2>2. <<f[n - 1], n>> \in B \X (1 .. N)
    BY <1>4, <2>1
  <2> QED
    BY <1>4, <2>2 DEF IsRun
<1> HIDE DEF step
<1>6. IsFulfillLoop(f, b, t, i, methods, taker_price, depth, jit)
  <2>1. ASSUME NEW n \in 0 .. N PROVE f[n] = IF n = 0 THEN b ELSE next(f[n - 1], n)
    <3>1. CASE n = 0
      BY <1>4, <3>1 DEF IsRun
    <3>2. CASE n # 0
      BY <1>0, <1>5, <3>2
    <3> QED
      BY <3>1, <3>2
  <2>2. f = [n \in 0 .. N |-> f[n]]
    BY <1>4
  <2>3. f = [n \in 0 .. N |-> IF n = 0 THEN b ELSE next(f[n - 1], n)]
    BY <2>1, <2>2, Zenon
  <2> QED
    BY <2>3, Zenon DEF IsFulfillLoop, N
<1>7. IsFulfillLoop(loop, b, t, i, methods, taker_price, depth, jit)
  BY <1>6
<1> HIDE DEF loop
<1>8. loop[0] = b /\ \A n \in 1 .. N : loop[n] = next(loop[n - 1], n)
  <2>1. ASSUME NEW n \in 0 .. N PROVE loop[n] = IF n = 0 THEN b ELSE next(loop[n - 1], n)
    BY <1>7 DEF IsFulfillLoop, N
  <2>2. 0 \in 0 .. N /\ \A n \in 1 .. N : n \in 0 .. N /\ n # 0
    BY <1>0
  <2> QED
    BY <2>1, <2>2
<1>9. loop \in [0 .. N -> B]
  <2> DEFINE K == {n \in 0 .. N : loop[n] \in B}
  <2>1. K \in SUBSET (0 .. N) /\ 0 \in K
    BY <1>0, <1>1, <1>8
  <2>2. ASSUME NEW n \in K, n < N PROVE n + 1 \in K
    <3>1. n + 1 \in 1 .. N /\ (n + 1) - 1 = n /\ n + 1 \in 0 .. N
      BY <1>0, <2>2
    <3>2. loop[n + 1] = next(loop[n], n + 1)
      BY <1>8, <3>1
    <3> QED
      BY <1>2, <3>1, <3>2
  <2> HIDE DEF K
  <2>3. K = 0 .. N
    BY <1>0, <2>1, <2>2, IntervalInduction
  <2>4. \A n \in 0 .. N : loop[n] \in B
    BY <2>3 DEF K
  <2>5. loop = [n \in 0 .. N |-> loop[n]]
    BY <1>7 DEF IsFulfillLoop, N
  <2> QED
    BY <2>4, <2>5
<1>10. fulfill_perp_order(b, t, i, methods, taker_price, depth, jit) = loop[N]
  BY Zenon DEF fulfill_perp_order, loop, IsFulfillLoop, N
<1>11. FulfillRounds(loop, b, t, i, methods, taker_price, depth, jit)
  BY <1>8 DEF FulfillRounds, N
<1> QED
  BY <1>9, <1>10, <1>11 DEF B, N, RunsThrough

(* The sweep moves no position.                                            *)
LEMMA SweepSound ==
  ASSUME NEW us \in [Users -> UserRecords], NEW ids, \A u \in Users : SoundUser(us[u], ids[u]),
         NEW t \in Users, NEW o, NEW makers, NEW jit_id, NEW oracle_price,
         NEW amm, amm = PositionsOf(us)
  PROVE  /\ [users |-> SweptUsers(us, t, o, makers, jit_id, oracle_price), amm |-> amm] \in Books(us, ids)
         /\ SweptUsers(us, t, o, makers, jit_id, oracle_price)[t] = us[t]
         /\ \A w \in Users : SweptUsers(us, t, o, makers, jit_id, oracle_price)[w].base_asset_amount
                               = us[w].base_asset_amount
<1> DEFINE swept == SweptUsers(us, t, o, makers, jit_id, oracle_price)
           b == [users |-> swept, amm |-> amm]
<1>1. ASSUME NEW u \in Users
      PROVE  /\ SoundUser(swept[u], ids[u]) /\ OrdersLeft(swept[u], us[u])
             /\ swept[u].base_asset_amount = us[u].base_asset_amount
  <2> DEFINE S == Dropped(us[u], o, jit_id, oracle_price)
  <2>1. swept[u] = CancelAll(us[u], S) \/ swept[u] = us[u]
    BY DEF SweptUsers
  <2>2. SoundUser(us[u], ids[u])
    OBVIOUS
  <2> HIDE DEF S, swept
  <2> QED
    BY <2>1, <2>2, CancelAllSound, OrdersLeftSelf
<1>2. swept[t] = us[t] /\ swept = [u \in Users |-> swept[u]]
  BY DEF SweptUsers
<1> HIDE DEF swept
<1>3. swept \in [Users -> UserRecords]
  BY <1>1, <1>2, SoundUserParts
<1>4. PositionsOf(swept) = PositionsOf(us)
  <2>1. [u \in Users |-> swept[u].base_asset_amount] = [u \in Users |-> us[u].base_asset_amount]
    BY <1>1, Zenon
  <2> QED
    BY <2>1, Zenon DEF PositionsOf
<1>5. amm \in Int
  <2> DEFINE f == [u \in Users |-> us[u].base_asset_amount]
  <2>1. f \in [Users -> Int] /\ IsFiniteSet(Users)
    BY BookAssumption DEF UserRecords
  <2>2. amm = IntegerSumOf(f)
    BY DEF PositionsOf
  <2> HIDE DEF f
  <2> QED
    BY <2>1, <2>2, IntegerSumType
<1>6. b \in BookRecords /\ b.users = swept /\ b.amm = amm
  BY <1>3, <1>5 DEF BookRecords
<1> HIDE DEF b
<1>7. SoundBook(b, us, ids)
  BY <1>1, <1>4, <1>6 DEF SoundBook
<1> QED
  BY <1>1, <1>2, <1>6, <1>7 DEF Books, b, swept

(* The orders to fill with are live, go the other way and are listed.      *)
LEMMA MakerOrdersListed ==
  ASSUME NEW us, NEW t \in Users, NEW i \in Slots, NEW makers \in SUBSET Users, NEW jit_id, NEW oracle_price,
         NEW infos, infos = MakerOrders(us, t, us[t].orders[i], makers, jit_id, oracle_price),
         NEW vs, NEW direction, NEW infoseq \in BestFirst(vs, direction, infos)
  PROVE  infos \in SUBSET CounterOrders(us, t, us[t].orders[i].direction) /\ infoseq \in Seq(infos)
<1>1. ASSUME NEW info \in infos PROVE info \in CounterOrders(us, t, us[t].orders[i].direction)
  <2> DEFINE o == us[t].orders[i]
  <2>1. PICK m \in makers \ {t} : info \in {m} \X (Candidates(us[m], o, jit_id) \ Dropped(us[m], o, jit_id, oracle_price))
    BY DEF MakerOrders
  <2>2. /\ info[1] = m /\ info[2] \in Candidates(us[m], o, jit_id) /\ info = <<m, info[2]>>
        /\ info[2] \notin Dropped(us[m], o, jit_id, oracle_price)
    BY <2>1
  <2>3. /\ info[2] \in Slots /\ IsLive(us[m].orders[info[2]])
        /\ us[m].orders[info[2]].direction = OppositeSide(o.direction)
    BY <2>2 DEF Candidates
  <2>4. ~should_expire_order(us[m].orders[info[2]], now)
    BY <2>2 DEF Dropped
  <2> QED
    BY <2>2, <2>3, <2>4 DEF CounterOrders, MayTrade
<1>2. infos \in SUBSET (Users \X Slots)
  BY <1>1 DEF CounterOrders
<1>3. IsFiniteSet(Users \X Slots)
  BY BookAssumption, SlotsFinite, FS_Product
<1>4. Cardinality(infos) \in Nat
  BY <1>2, <1>3, FS_Subset, FS_CardinalityType
<1>5. infoseq \in [1 .. Cardinality(infos) -> infos]
  BY DEF BestFirst, SetToSeqs
<1>6. infoseq \in Seq(infos)
  BY <1>4, <1>5
<1> QED
  BY <1>1, <1>6

(* An account of a book is replaced, as the code writes it.                *)
LEMMA BookUpdate ==
  ASSUME NEW us, NEW ids, NEW b \in Books(us, ids), NEW t, NEW v
  PROVE  [b EXCEPT !.users[t] = v] = [users |-> WithUser(b.users, t, v), amm |-> b.amm]
<1> DEFINE x == b.users
           y == b.amm
<1>1. b = [users |-> x, amm |-> y]
  BY BookFacts
<1> HIDE DEF x, y
<1>2. [[users |-> x, amm |-> y] EXCEPT !.users[t] = v] = [users |-> [x EXCEPT ![t] = v], amm |-> y]
  OBVIOUS
<1> QED
  BY <1>1, <1>2 DEF WithUser, x, y

(* An order of a book is cancelled.                                        *)
LEMMA BookCancel ==
  ASSUME NEW us, NEW ids, NEW b \in Books(us, ids), NEW t \in Users, NEW i \in Slots,
         IsOpen(b.users[t].orders[i])
  PROVE  /\ [b EXCEPT !.users[t] = cancel_order(b.users[t], i)] \in Books(us, ids)
         /\ \A w \in Users : [b EXCEPT !.users[t] = cancel_order(b.users[t], i)].users[w].base_asset_amount
                               = b.users[w].base_asset_amount
<1> DEFINE u == b.users[t]
           v == cancel_order(u, i)
           amm == b.amm
           new == [b EXCEPT !.users[t] = v]
<1>1. SoundUser(u, ids[t]) /\ u.base_asset_amount \in Int /\ amm \in Int /\ b.users \in [Users -> UserRecords]
  BY BookFacts
<1>2. SoundUser(v, ids[t]) /\ OrdersLeft(v, u) /\ v.base_asset_amount = u.base_asset_amount
  <2>1. IsOpen(u.orders[i])
    OBVIOUS
  <2> HIDE DEF u
  <2> QED
    BY <1>1, <2>1, CancelSound
<1>3. new = [users |-> WithUser(b.users, t, v), amm |-> amm]
  <2> HIDE DEF v
  <2> QED
    BY BookUpdate
<1>4. amm = b.amm + (v.base_asset_amount - b.users[t].base_asset_amount)
  BY <1>1, <1>2
<1> HIDE DEF v, amm
<1>5. [users |-> WithUser(b.users, t, v), amm |-> amm] \in Books(us, ids)
  BY <1>2, <1>4, BookStep
<1>6. \A w \in Users : WithUser(b.users, t, v)[w].base_asset_amount = b.users[w].base_asset_amount
  BY <1>1, <1>2 DEF WithUser
<1>7. new.users = WithUser(b.users, t, v)
  BY <1>3
<1> QED
  BY <1>3, <1>5, <1>6, <1>7 DEF v

(* What is left of a reduce-only order stays or is cancelled.              *)
LEMMA TidiedIs ==
  ASSUME NEW us, NEW ids, NEW b \in Books(us, ids), NEW t \in Users, NEW i \in Slots
  PROVE  \/ Tidied(b, t, i) = b
         \/ /\ IsOpen(b.users[t].orders[i])
            /\ Tidied(b, t, i) = [b EXCEPT !.users[t] = cancel_order(b.users[t], i)]
<1> DEFINE u == b.users[t]
           given_up == should_cancel_reduce_only_order(u.orders[i], u.base_asset_amount)
           v == CancelIf(u, i, given_up)
<1>1. Tidied(b, t, i) = [b EXCEPT !.users[t] = v]
  BY DEF Tidied
<1>2. CASE given_up
  <2>1. v = cancel_order(u, i) /\ IsOpen(b.users[t].orders[i])
    BY <1>2 DEF CancelIf, should_cancel_reduce_only_order
  <2> HIDE DEF v
  <2> QED
    BY <1>1, <2>1, Zenon
<1>3. CASE ~given_up
  <2>1. v = u
    BY <1>3 DEF CancelIf
  <2>2. b.users \in [Users -> UserRecords] /\ b = [users |-> b.users, amm |-> b.amm]
    BY BookFacts
  <2>3. WithUser(b.users, t, u) = b.users
    BY <2>2 DEF WithUser
  <2>4. [b EXCEPT !.users[t] = u] = [users |-> WithUser(b.users, t, u), amm |-> b.amm]
    <3> HIDE DEF u
    <3> QED
      BY BookUpdate
  <2>5. [b EXCEPT !.users[t] = v] = [b EXCEPT !.users[t] = u]
    <3> HIDE DEF v
    <3> QED
      BY <2>1, Zenon
  <2>6. Tidied(b, t, i) = b
    <3> HIDE DEF u, v
    <3> QED
      BY <1>1, <2>2, <2>3, <2>4, <2>5, Zenon
  <2> QED
    BY <2>6
<1> QED
  BY <1>2, <1>3


(***************************************************************************)
(* The order in which a fill goes through the makers.                      *)
(***************************************************************************)

(* Every maker order has its place in the list.                            *)
LEMMA EveryMakerListed ==
  ASSUME NEW infos, IsFiniteSet(infos), NEW infoseq \in SetToSeqs(infos)
  PROVE  /\ infoseq \in [1 .. Cardinality(infos) -> infos] /\ Cardinality(infos) \in Nat
         /\ \A info \in infos : \E a \in 1 .. Cardinality(infos) : infoseq[a] = info
<1> DEFINE N == Cardinality(infos)
           D == 1 .. N
<1>1. N \in Nat
  BY FS_CardinalityType
<1>2. infoseq \in [D -> infos] /\ \A a, b \in D : a # b => infoseq[a] # infoseq[b]
  BY DEF SetToSeqs
<1>3. infoseq \in Injection(D, infos)
  BY <1>2 DEF Injection, IsInjective
<1>4. Cardinality(D) = N
  BY <1>1, FS_Interval
<1> HIDE DEF N, D
<1>5. infoseq \in Surjection(D, infos)
  BY <1>3, <1>4, FS_Injection DEF N
<1> QED
  BY <1>1, <1>2, <1>5 DEF Surjection, N, D

(* The maker orders a list of methods goes through come in the order of    *)
(* the makers: the list has them all up to the one it ends with, or it has *)
(* stopped.                                                                *)
PriceIn(us, info) == us[info[1]].orders[info[2]].price
MatchWith(us, info) == Match(info, PriceIn(us, info))

HasMatch(list, us, info, last) == \E h \in 1 .. last : list[h] = MatchWith(us, info)

InMakerOrder(list, us, infoseq) ==
  \A k \in 1 .. Len(list) : list[k].kind = "Match" =>
    \E n \in 1 .. Len(infoseq) :
      /\ list[k] = MatchWith(us, infoseq[n])
      /\ \A a \in 1 .. (n - 1) : HasMatch(list, us, infoseq[a], k - 1)

HasAllOrStopped(list, us, o, infoseq, limit_price, n) ==
  \/ \A a \in 1 .. n : HasMatch(list, us, infoseq[a], Len(list))
  \/ Len(list) > MaxMethods
  \/ \E a \in 1 .. n : ~Crosses(o, limit_price, PriceIn(us, infoseq[a]))

(* One round: nothing, the maker, or the AMM and the maker.                *)
LEMMA AddMethodCases ==
  ASSUME NEW acc, NEW o, NEW info, NEW price, NEW limit_price, NEW can, NEW new,
         new = AddMethod(acc, o, info, price, limit_price, can)
  PROVE  \/ /\ new = acc
            /\ ~Crosses(o, limit_price, price) \/ Len(acc.methods) > MaxMethods
         \/ /\ Crosses(o, limit_price, price) /\ ~(Len(acc.methods) > MaxMethods)
            /\ \/ new.methods = Append(acc.methods, Match(info, price))
               \/ new.methods = Append(Append(acc.methods, AMM(price)), Match(info, price))
BY DEF AddMethod

(* An item more at the end of the list.                                    *)
LEMMA Appended ==
  ASSUME NEW S, NEW list \in Seq(S), NEW x \in S, NEW longer, longer = Append(list, x)
  PROVE  /\ longer \in Seq(S) /\ Len(longer) = Len(list) + 1 /\ longer[Len(list) + 1] = x
         /\ Len(list) \in Nat
         /\ \A k \in 1 .. Len(list) : longer[k] = list[k]
OBVIOUS

(* A longer list still has what it had.                                    *)
LEMMA StillHasMatch ==
  ASSUME NEW list, NEW longer, NEW us, NEW info, Len(list) \in Nat, NEW k \in 1 .. Len(list),
         \A h \in 1 .. Len(list) : longer[h] = list[h], HasMatch(list, us, info, k - 1)
  PROVE  HasMatch(longer, us, info, k - 1)
<1>1. PICK h \in 1 .. (k - 1) : list[h] = MatchWith(us, info)
  BY DEF HasMatch
<1>2. h \in 1 .. Len(list)
  OBVIOUS
<1> QED
  BY <1>1, <1>2 DEF HasMatch

(* The AMM is no maker.                                                    *)
LEMMA KindsOfMethods ==
  ASSUME NEW info, NEW p, NEW q
  PROVE  /\ AMM(p).kind # "Match" /\ Match(info, q).kind = "Match"
         /\ Match(info, q).maker = info[1] /\ Match(info, q).index = info[2]
BY DEF AMM, Match

(* An AMM method at the end of the list disturbs nothing.                  *)
LEMMA AmmAppended ==
  ASSUME NEW infos, NEW list \in Seq(Methods(infos)), NEW us, NEW infoseq \in Seq(infos),
         NEW p \in PricesAndNone, InMakerOrder(list, us, infoseq)
  PROVE  LET longer == Append(list, AMM(p))
         IN  /\ longer \in Seq(Methods(infos)) /\ InMakerOrder(longer, us, infoseq)
             /\ Len(longer) = Len(list) + 1
             /\ \A k \in 1 .. Len(list) : longer[k] = list[k]
<1> DEFINE longer == Append(list, AMM(p))
<1>1. AMM(p) \in Methods(infos)
  BY DEF Methods
<1>2. /\ longer \in Seq(Methods(infos)) /\ Len(longer) = Len(list) + 1 /\ longer[Len(list) + 1] = AMM(p)
      /\ Len(list) \in Nat
      /\ \A k \in 1 .. Len(list) : longer[k] = list[k]
  BY <1>1, Appended
<1> HIDE DEF longer
<1>3. ASSUME NEW k \in 1 .. Len(longer), longer[k].kind = "Match"
      PROVE  \E n \in 1 .. Len(infoseq) :
               /\ longer[k] = MatchWith(us, infoseq[n])
               /\ \A a \in 1 .. (n - 1) : HasMatch(longer, us, infoseq[a], k - 1)
  <2>1. k \in 1 .. Len(list)
    BY <1>2, <1>3, KindsOfMethods
  <2>2. PICK n \in 1 .. Len(infoseq) :
          /\ list[k] = MatchWith(us, infoseq[n])
          /\ \A a \in 1 .. (n - 1) : HasMatch(list, us, infoseq[a], k - 1)
    BY <1>2, <1>3, <2>1 DEF InMakerOrder
  <2>3. ASSUME NEW a \in 1 .. (n - 1) PROVE HasMatch(longer, us, infoseq[a], k - 1)
    BY <1>2, <2>1, <2>2, StillHasMatch
  <2> QED
    BY <1>2, <2>1, <2>2, <2>3
<1> QED
  BY <1>2, <1>3 DEF InMakerOrder, longer

(* A maker at the end of a list that has all those before it.              *)
LEMMA MatchAppended ==
  ASSUME NEW infos, NEW list \in Seq(Methods(infos)), NEW us, NEW infoseq \in Seq(infos),
         \A info \in infos : PriceIn(us, info) \in PricesAndNone,
         InMakerOrder(list, us, infoseq), NEW n \in 1 .. Len(infoseq),
         \A a \in 1 .. (n - 1) : HasMatch(list, us, infoseq[a], Len(list))
  PROVE  LET longer == Append(list, MatchWith(us, infoseq[n]))
         IN  /\ InMakerOrder(longer, us, infoseq)
             /\ \A a \in 1 .. n : HasMatch(longer, us, infoseq[a], Len(longer))
<1> DEFINE match == MatchWith(us, infoseq[n])
           longer == Append(list, match)
<1>1. match \in Methods(infos)
  BY DEF Methods, MatchWith
<1>2. /\ longer \in Seq(Methods(infos)) /\ Len(longer) = Len(list) + 1 /\ longer[Len(list) + 1] = match
      /\ Len(list) \in Nat
      /\ \A k \in 1 .. Len(list) : longer[k] = list[k]
  <2> HIDE DEF match
  <2> QED
    BY <1>1, Appended
<1> HIDE DEF longer
<1>4. \A a \in 1 .. (n - 1) : HasMatch(longer, us, infoseq[a], Len(list))
  BY <1>2 DEF HasMatch
<1>3. ASSUME NEW k \in 1 .. Len(longer), longer[k].kind = "Match"
      PROVE  \E l \in 1 .. Len(infoseq) :
               /\ longer[k] = MatchWith(us, infoseq[l])
               /\ \A a \in 1 .. (l - 1) : HasMatch(longer, us, infoseq[a], k - 1)
  <2>1. CASE k \in 1 .. Len(list)
    <3>2. PICK l \in 1 .. Len(infoseq) :
            /\ list[k] = MatchWith(us, infoseq[l])
            /\ \A a \in 1 .. (l - 1) : HasMatch(list, us, infoseq[a], k - 1)
      BY <1>2, <1>3, <2>1 DEF InMakerOrder
    <3>3. ASSUME NEW a \in 1 .. (l - 1) PROVE HasMatch(longer, us, infoseq[a], k - 1)
      BY <1>2, <2>1, <3>2, StillHasMatch
    <3> QED
      BY <1>2, <2>1, <3>2, <3>3
  <2>2. CASE k = Len(list) + 1
    <3>1. longer[k] = MatchWith(us, infoseq[n]) /\ k - 1 = Len(list)
      BY <1>2, <2>2
    <3> QED
      BY <1>4, <3>1
  <2> QED
    BY <1>2, <2>1, <2>2
<1>5. ASSUME NEW a \in 1 .. n PROVE HasMatch(longer, us, infoseq[a], Len(longer))
  <2>1. CASE a = n
    <3>1. longer[Len(list) + 1] = MatchWith(us, infoseq[a]) /\ Len(list) + 1 \in 1 .. Len(longer)
      BY <1>2, <2>1
    <3> QED
      BY <3>1 DEF HasMatch
  <2>2. CASE a # n
    <3>1. a \in 1 .. (n - 1)
      BY <2>2
    <3> QED
      BY <1>2, <1>4, <3>1 DEF HasMatch
  <2> QED
    BY <2>1, <2>2
<1> QED
  BY <1>3, <1>5 DEF InMakerOrder, longer

(* The makers are sorted, best price for the taker first.                  *)
Sorted(us, d, infoseq) ==
  \A a, n \in 1 .. Len(infoseq) : a < n =>
    NoWorse(d, PriceIn(us, infoseq[a]), PriceIn(us, infoseq[n]))

(* A price that is no worse than one that crosses crosses too.             *)
LEMMA CrossesToo ==
  ASSUME NEW o, NEW limit_price \in Int, NEW p \in Int, NEW q \in Int, NoWorse(o.direction, p, q),
         Crosses(o, limit_price, q)
  PROVE  Crosses(o, limit_price, p)
BY DEF Crosses, do_orders_cross, NoWorse, Signed

(* determine_perp_fulfillment_methods takes the makers in their order: no  *)
(* maker is in the list of methods unless all those before it are.         *)
LEMMA MethodsInOrder ==
  ASSUME NEW us, NEW o, NEW infos, NEW infoseq \in Seq(infos), NEW limit_price \in PricesAndNone,
         NEW amm_price \in PricesAndNone, NEW can \in BOOLEAN,
         \A info \in infos : PriceIn(us, info) \in PricesAndNone,
         Sorted(us, o.direction, infoseq)
  PROVE  InMakerOrder(determine_perp_fulfillment_methods(us, o, infoseq, limit_price, amm_price, can),
                      us, infoseq)
<1> DEFINE result == determine_perp_fulfillment_methods(us, o, infoseq, limit_price, amm_price, can)
           N == Len(infoseq)
           price(n) == PriceIn(us, infoseq[n])
           done(list, n) == /\ InMakerOrder(list, us, infoseq)
                            /\ HasAllOrStopped(list, us, o, infoseq, limit_price, n)
<1>0. PricesAndNone \subseteq Nat /\ N \in Nat
  BY OrderAssumption DEF PricesAndNone
<1>1. PICK f \in [0 .. N -> MethodLists(infos)] :
        /\ MethodRounds(f, us, o, infoseq, limit_price, amm_price, can)
        /\ FinalMethods(result, f[N])
  <2>1. \A info \in infos : us[info[1]].orders[info[2]].price \in PricesAndNone
    BY DEF PriceIn
  <2> HIDE DEF result
  <2> QED
    BY <2>1, MethodsRun DEF result
<1>2. /\ f[0] = [methods |-> <<>>, amm_price |-> amm_price]
      /\ \A n \in 1 .. N : f[n] = AddMethod(f[n - 1], o, infoseq[n], price(n), limit_price, can)
  BY <1>1 DEF MethodRounds, PriceIn
<1>3. \A n \in 0 .. N : f[n].methods \in Seq(Methods(infos))
  BY <1>1 DEF MethodLists
<1>4. \A n \in 1 .. N : infoseq[n] \in infos /\ price(n) \in PricesAndNone
  OBVIOUS
<1> HIDE DEF result, N
<1> DEFINE K == {n \in 0 .. N : done(f[n].methods, n)}
<1>5. K \in SUBSET (0 .. N) /\ 0 \in K
  <2>1. f[0].methods = <<>>
    BY <1>2
  <2>2. InMakerOrder(f[0].methods, us, infoseq)
    BY <2>1 DEF InMakerOrder
  <2>3. HasAllOrStopped(f[0].methods, us, o, infoseq, limit_price, 0)
    BY DEF HasAllOrStopped
  <2> QED
    BY <1>0, <2>2, <2>3
<1>6. ASSUME NEW n \in K, n < N PROVE n + 1 \in K
  <2> DEFINE m == n + 1
             list == f[n].methods
             next == f[m].methods
             match == MatchWith(us, infoseq[m])
  <2>1. m \in 1 .. N /\ m - 1 = n /\ m \in 0 .. N /\ n \in 0 .. N /\ n \in Nat
    BY <1>0, <1>6
  <2>2. list \in Seq(Methods(infos)) /\ InMakerOrder(list, us, infoseq)
        /\ HasAllOrStopped(list, us, o, infoseq, limit_price, n) /\ infoseq[m] \in infos
        /\ price(m) \in PricesAndNone
    BY <1>3, <1>4, <2>1
  <2>3. f[m] = AddMethod(f[n], o, infoseq[m], price(m), limit_price, can)
    BY <1>2, <2>1
  <2>4. match = Match(infoseq[m], price(m))
    BY DEF MatchWith
  <2>5. \/ /\ next = list
           /\ ~Crosses(o, limit_price, price(m)) \/ Len(list) > MaxMethods
        \/ /\ Crosses(o, limit_price, price(m)) /\ ~(Len(list) > MaxMethods)
           /\ \/ next = Append(list, match)
              \/ next = Append(Append(list, AMM(price(m))), match)
    <3> HIDE DEF m, price, match
    <3> QED
      BY <2>3, <2>4, AddMethodCases
  <2>6. CASE /\ next = list
             /\ ~Crosses(o, limit_price, price(m)) \/ Len(list) > MaxMethods
    <3>1. HasAllOrStopped(next, us, o, infoseq, limit_price, m)
      <4>1. m \in 1 .. m
        BY <2>1
      <4> QED
        BY <2>6, <4>1 DEF HasAllOrStopped
    <3> QED
      BY <2>1, <2>2, <2>6, <3>1
  <2>7. ASSUME Crosses(o, limit_price, price(m)), ~(Len(list) > MaxMethods)
        PROVE  \A a \in 1 .. (m - 1) : HasMatch(list, us, infoseq[a], Len(list))
    <3>1. ASSUME NEW a \in 1 .. n PROVE Crosses(o, limit_price, price(a))
      <4>1. a \in 1 .. N /\ a < m
        BY <1>0, <2>1
      <4>2. NoWorse(o.direction, price(a), price(m))
        BY <2>1, <4>1 DEF Sorted, N
      <4>3. price(a) \in PricesAndNone /\ price(m) \in PricesAndNone
        BY <1>4, <2>1, <4>1
      <4>4. \A p \in PricesAndNone : p \in Int
        BY <1>0
      <4> HIDE DEF price, m
      <4>5. price(a) \in Int /\ price(m) \in Int /\ limit_price \in Int
        BY <4>3, <4>4
      <4> QED
        BY <2>7, <4>2, <4>5, CrossesToo
    <3>2. \A a \in 1 .. n : HasMatch(list, us, infoseq[a], Len(list))
      BY <2>2, <2>7, <3>1 DEF HasAllOrStopped
    <3> QED
      BY <2>1, <3>2
  <2>8. ASSUME NEW shorter \in Seq(Methods(infos)), InMakerOrder(shorter, us, infoseq),
               \A a \in 1 .. (m - 1) : HasMatch(shorter, us, infoseq[a], Len(shorter)),
               next = Append(shorter, match)
        PROVE  m \in K
    <3>1. /\ InMakerOrder(next, us, infoseq)
          /\ \A a \in 1 .. m : HasMatch(next, us, infoseq[a], Len(next))
      <4> HIDE DEF m, next, match
      <4> QED
        BY <2>1, <2>8, MatchAppended DEF N, match
    <3> QED
      BY <2>1, <3>1 DEF HasAllOrStopped
  <2>9. CASE /\ Crosses(o, limit_price, price(m)) /\ ~(Len(list) > MaxMethods)
             /\ next = Append(list, match)
    BY <2>2, <2>7, <2>8, <2>9
  <2>10. CASE /\ Crosses(o, limit_price, price(m)) /\ ~(Len(list) > MaxMethods)
              /\ next = Append(Append(list, AMM(price(m))), match)
    <3> DEFINE p == price(m)
               shorter == Append(list, AMM(p))
    <3>1. /\ shorter \in Seq(Methods(infos)) /\ InMakerOrder(shorter, us, infoseq)
          /\ Len(shorter) = Len(list) + 1
          /\ \A k \in 1 .. Len(list) : shorter[k] = list[k]
      <4>1. p \in PricesAndNone
        BY <2>2
      <4> HIDE DEF p, list
      <4> QED
        BY <2>2, <4>1, AmmAppended
    <3>2. Len(list) \in Nat
      BY <2>2
    <3>3. \A a \in 1 .. (m - 1) : HasMatch(list, us, infoseq[a], Len(list))
      BY <2>7, <2>10
    <3> HIDE DEF shorter, list
    <3>4. ASSUME NEW a \in 1 .. (m - 1) PROVE HasMatch(shorter, us, infoseq[a], Len(shorter))
      <4>1. PICK h \in 1 .. Len(list) : list[h] = MatchWith(us, infoseq[a])
        BY <3>3 DEF HasMatch
      <4> QED
        BY <3>1, <3>2, <4>1 DEF HasMatch
    <3> QED
      BY <2>8, <2>10, <3>1, <3>4 DEF shorter, list
  <2> HIDE DEF K, next, list, match
  <2> QED
    BY <2>5, <2>6, <2>9, <2>10
<1>7. InMakerOrder(f[N].methods, us, infoseq)
  <2> HIDE DEF K
  <2>1. K = 0 .. N
    BY <1>0, <1>5, <1>6, IntervalInduction
  <2>2. N \in K
    BY <1>0, <2>1
  <2> QED
    BY <2>2 DEF K
<1>8. f[N].methods \in Seq(Methods(infos))
  BY <1>0, <1>3
<1>9. 0 \in PricesAndNone
  BY DEF PricesAndNone
<1>10. CASE result = <<AMM(0)>>
  BY <1>10, KindsOfMethods DEF InMakerOrder, result
<1>11. CASE result = <<>>
  BY <1>11 DEF InMakerOrder, result
<1>12. CASE result = Append(f[N].methods, AMM(0))
  <2> DEFINE list == f[N].methods
             none == 0
  <2>1. InMakerOrder(list, us, infoseq) /\ list \in Seq(Methods(infos)) /\ none \in PricesAndNone
    BY <1>7, <1>8, <1>9
  <2> HIDE DEF list, none
  <2>2. InMakerOrder(Append(list, AMM(none)), us, infoseq)
    BY <2>1, AmmAppended
  <2> QED
    BY <1>12, <2>2 DEF list, none, result
<1>13. CASE result = f[N].methods
  BY <1>7, <1>13 DEF result
<1> QED
  BY <1>1, <1>10, <1>11, <1>12, <1>13 DEF FinalMethods

(* A fill of all that may be filled leaves nothing to fill.                *)
LEMMA FillExhausts ==
  ASSUME NEW u, NEW id, SoundUser(u, id), NEW i \in Slots, IsLive(u.orders[i]), NEW v,
         v = FillSlot(u, i, Fillable(u, i))
  PROVE  Exhausted(v, i)
<1> DEFINE o == u.orders[i]
           position == u.base_asset_amount
           amount == Fillable(u, i)
<1>1. SoundOrder(o, id) /\ position \in Int
  BY SoundUserParts DEF SoundOrders
<1>2. amount \in Nat /\ amount <= Unfilled(o) /\ Unfilled(o) \in Nat
  <2> HIDE DEF o, position
  <2>1. amount = get_base_asset_amount_unfilled(o, position)
    BY DEF Fillable, o, position
  <2> HIDE DEF amount
  <2> QED
    BY <1>1, <2>1, UnfilledBounds, Contributions
<1>3. v.orders[i] = RestOf(o, amount) /\ v.base_asset_amount = position + Signed(o.direction, amount)
  <2> HIDE DEF amount
  <2> QED
    BY <1>2, FillSound DEF amount
<1>4. CASE amount = Unfilled(o)
  <2>1. v.orders[i] = NoOrder
    BY <1>3, <1>4 DEF RestOf
  <2> QED
    BY <2>1, EmptySlot DEF Exhausted
<1>5. CASE amount # Unfilled(o)
  <2> DEFINE rest == FilledOrder(o, amount)
  <2>1. v.orders[i] = rest
    BY <1>3, <1>5 DEF RestOf
  <2>2. /\ rest.direction = o.direction /\ rest.reduce_only = o.reduce_only /\ rest.post_only = o.post_only
        /\ Unfilled(rest) = Unfilled(o) - amount
    <3>1. /\ IsOpen(rest) /\ LeftOf(rest, o) /\ Unfilled(rest) = Unfilled(o) - amount
      <4> HIDE DEF o, amount
      <4> QED
        BY <1>1, <1>2, FilledOrderFacts DEF o
    <3> QED
      BY <3>1 DEF LeftOf
  <2>3. /\ o.reduce_only /\ ~o.post_only
        /\ amount = IF Signed(o.direction, position) >= 0 THEN 0 ELSE LesserOf(Unfilled(o), AbsOf(position))
    BY <1>5 DEF Fillable, get_base_asset_amount_unfilled
  <2>4. Signed(o.direction, position + Signed(o.direction, amount)) >= 0
    <3> HIDE DEF o, position, amount
    <3> QED
      BY <1>1, <1>2, <1>5, <2>3 DEF Signed, LesserOf, AbsOf
  <2>5. get_base_asset_amount_unfilled(rest, v.base_asset_amount) = 0
    <3> HIDE DEF rest, position, amount
    <3> QED
      BY <1>3, <2>2, <2>3, <2>4 DEF get_base_asset_amount_unfilled
  <2> QED
    BY <2>1, <2>5 DEF Exhausted, Fillable
<1> QED
  BY <1>4, <1>5

(* What a match leaves: the maker's order is gone, if it may be filled     *)
(* whatever the position, or the taker has all it may have.                *)
LEMMA MatchUsesUp ==
  ASSUME NEW us, NEW ids, NEW b \in Books(us, ids), NEW t \in Users, NEW i \in Slots,
         NEW m \in Users \ {t}, NEW j \in Slots, IsLive(b.users[m].orders[j]),
         NEW c, NEW left, MatchedFrom(c, b, t, i, m, j, left, ids[t]),
         b.users[m].orders[j].post_only
  PROVE  ~IsOpen(c.users[m].orders[j]) \/ Exhausted(c.users[t], i)
<1> DEFINE maker == b.users[m]
           k == maker.orders[j]
           amount == LesserOf(Fillable(maker, j), Fillable(left, i))
<1>1. /\ SoundUser(left, ids[t]) /\ IsLive(left.orders[i])
      /\ c.users[t] = FillSlot(left, i, amount) /\ c.users[m] = FillSlot(maker, j, amount)
  BY DEF MatchedFrom
<1>2. SoundUser(maker, ids[m])
  BY BookFacts
<1>3. Fillable(maker, j) = Unfilled(k) /\ Unfilled(k) \in Nat
  <2>1. SoundOrder(k, ids[m])
    BY <1>2 DEF SoundUser
  <2>2. Unfilled(k) \in Nat
    <3> HIDE DEF k
    <3> QED
      BY <2>1, Contributions
  <2> QED
    BY <2>2 DEF Fillable, get_base_asset_amount_unfilled
<1>4. CASE amount = Fillable(left, i)
  <2> HIDE DEF amount
  <2> QED
    BY <1>1, <1>4, FillExhausts
<1>5. CASE amount # Fillable(left, i)
  <2>1. amount = Unfilled(k)
    BY <1>3, <1>5 DEF LesserOf
  <2>2. c.users[m].orders[j] = RestOf(k, amount)
    <3> HIDE DEF amount, maker
    <3> QED
      BY <1>1, <1>2, <1>3, <2>1, FillSound DEF maker
  <2>3. c.users[m].orders[j] = NoOrder
    BY <2>1, <2>2 DEF RestOf
  <2> QED
    BY <2>3, EmptySlot
<1> QED
  BY <1>4, <1>5

(* No order but the one in slot i is different.                            *)
OthersSame(v, u, i) == \A n \in Slots \ {i} : v.orders[n] = u.orders[n]

(* A match touches one order of the maker, and one of the taker.           *)
LEMMA MatchTouches ==
  ASSUME NEW us, NEW ids, NEW b \in Books(us, ids), NEW t \in Users, NEW i \in Slots,
         NEW m \in Users \ {t}, NEW j \in Slots, IsLive(b.users[m].orders[j]),
         NEW c, NEW left, MatchedFrom(c, b, t, i, m, j, left, ids[t])
  PROVE  OthersSame(c.users[m], b.users[m], j) /\ OthersSame(c.users[t], b.users[t], i)
<1> DEFINE maker == b.users[m]
           amount == LesserOf(Fillable(maker, j), Fillable(left, i))
           bound == Unfilled(left.orders[i])
           most == Unfilled(maker.orders[j])
<1>1. /\ SoundUser(left, ids[t]) /\ IsLive(left.orders[i])
      /\ \A n \in Slots \ {i} : left.orders[n] = b.users[t].orders[n]
      /\ c.users[t] = FillSlot(left, i, amount) /\ c.users[m] = FillSlot(maker, j, amount)
  BY DEF MatchedFrom
<1>2. SoundUser(maker, ids[m])
  BY BookFacts
<1>3. Fillable(maker, j) \in Nat /\ Fillable(maker, j) <= most /\ most \in Nat
  <2>1. SoundOrder(maker.orders[j], ids[m]) /\ maker.base_asset_amount \in Int
    BY <1>2, SoundUserParts DEF SoundOrders
  <2> HIDE DEF maker
  <2> QED
    BY <2>1, UnfilledBounds, Contributions DEF Fillable
<1>4. Fillable(left, i) \in Nat /\ Fillable(left, i) <= bound /\ bound \in Nat
  <2>1. SoundOrder(left.orders[i], ids[t]) /\ left.base_asset_amount \in Int
    BY <1>1, SoundUserParts DEF SoundOrders
  <2> QED
    BY <2>1, UnfilledBounds, Contributions DEF Fillable
<1>5. amount \in Nat /\ amount <= most /\ amount <= bound
  <2> HIDE DEF most, bound
  <2> QED
    BY <1>3, <1>4 DEF LesserOf
<1> HIDE DEF amount, maker
<1>6. \A n \in Slots \ {j} : c.users[m].orders[n] = maker.orders[n]
  BY <1>1, <1>2, <1>5, FillSound DEF maker
<1>7. \A n \in Slots \ {i} : c.users[t].orders[n] = left.orders[n]
  BY <1>1, <1>5, FillSound
<1> QED
  BY <1>1, <1>6, <1>7 DEF maker, OthersSame

(* What one method does to the orders in the book, when an order of t that *)
(* goes d is filled at taker_price: the orders only shrink, nothing        *)
(* happens once the taker is exhausted, and the only order of another user *)
(* that is touched is the one the method names, if it crosses; unless the  *)
(* taker is exhausted by it, that order is gone.                           *)
Touches(method, w, j) == method.kind = "Match" /\ method.maker = w /\ method.index = j

InTurn(c, b, t, i, d, method, taker_price) ==
  /\ \A w \in Users : OrdersLeft(c.users[w], b.users[w])
  /\ OthersSame(c.users[t], b.users[t], i)
  /\ Exhausted(b.users[t], i) => c = b
  /\ \A w \in Users \ {t} : c.users[w] # b.users[w] => \E j \in Slots : Touches(method, w, j)
  /\ \A w \in Users \ {t}, j \in Slots : c.users[w].orders[j] # b.users[w].orders[j] =>
       Touches(method, w, j) /\ do_orders_cross(d, b.users[w].orders[j].price, taker_price)
  /\ \A w \in Users \ {t}, j \in Slots :
       (/\ Touches(method, w, j) /\ IsOpen(b.users[w].orders[j]) /\ b.users[w].orders[j].post_only
        /\ do_orders_cross(d, b.users[w].orders[j].price, taker_price))
       => ~IsOpen(c.users[w].orders[j]) \/ Exhausted(c.users[t], i)

(* Nothing happens.                                                        *)
LEMMA InTurnSame ==
  ASSUME NEW b, NEW t, NEW i, NEW d, NEW method, NEW taker_price,
         \A w \in Users \ {t}, j \in Slots :
           (/\ Touches(method, w, j) /\ IsOpen(b.users[w].orders[j]) /\ b.users[w].orders[j].post_only
            /\ do_orders_cross(d, b.users[w].orders[j].price, taker_price))
           => Exhausted(b.users[t], i)
  PROVE  InTurn(b, b, t, i, d, method, taker_price)
<1>1. \A w \in Users : OrdersLeft(b.users[w], b.users[w])
  BY OrdersLeftSelf
<1> QED
  BY <1>1 DEF InTurn, OthersSame

(* A book is one of its own.                                               *)
LEMMA OwnBook ==
  ASSUME NEW us, NEW ids, NEW b \in Books(us, ids)
  PROVE  b \in Books(b.users, ids)
<1>1. \A w \in Users : OrdersLeft(b.users[w], b.users[w])
  BY OrdersLeftSelf
<1> QED
  BY <1>1 DEF Books, SoundBook

(* The AMM touches the taker only.                                         *)
LEMMA AmmInTurn ==
  ASSUME NEW us, NEW ids, NEW b \in Books(us, ids), NEW t \in Users, NEW i \in Slots,
         IsLive(b.users[t].orders[i]), NEW amount \in Nat, NEW d, NEW p, NEW taker_price,
         NEW c, c = fulfill_perp_order_with_amm(b, t, i, amount)
  PROVE  InTurn(c, b, t, i, d, AMM(p), taker_price)
<1> DEFINE vs == b.users
<1>1. b \in Books(vs, ids)
  BY OwnBook
<1>2. /\ c \in Books(vs, ids)
      /\ \A m \in Users \ {t} : c.users[m] = b.users[m]
      /\ \A j \in Slots \ {i} : c.users[t].orders[j] = b.users[t].orders[j]
      /\ Exhausted(b.users[t], i) => c = b
  <2> HIDE DEF vs
  <2> QED
    BY <1>1, AmmFill
<1>3. \A w \in Users : OrdersLeft(c.users[w], vs[w])
  <2> HIDE DEF vs
  <2> QED
    BY <1>2, BookFacts
<1>4. \A w, j : ~Touches(AMM(p), w, j)
  BY KindsOfMethods DEF Touches
<1> QED
  BY <1>2, <1>3, <1>4 DEF InTurn, OthersSame

(* A match touches the taker and the one order.                            *)
LEMMA MatchInTurn ==
  ASSUME NEW us, NEW ids, NEW b \in Books(us, ids), NEW t \in Users, NEW i \in Slots,
         IsLive(b.users[t].orders[i]), NEW info, info[1] \in Users \ {t}, info[2] \in Slots,
         IsOpen(b.users[info[1]].orders[info[2]]) =>
           /\ IsLive(b.users[info[1]].orders[info[2]])
           /\ b.users[info[1]].orders[info[2]].direction = OppositeSide(b.users[t].orders[i].direction),
         NEW d, d = b.users[t].orders[i].direction, NEW p, NEW taker_price, NEW jit \in Nat,
         NEW c, c = fulfill_perp_order_with_match(b, t, i, info[1], info[2], taker_price, jit)
  PROVE  InTurn(c, b, t, i, d, Match(info, p), taker_price)
<1> DEFINE vs == b.users
           m == info[1]
           j == info[2]
           k == b.users[m].orders[j]
           method == Match(info, p)
<1>1. b \in Books(vs, ids)
  BY OwnBook
<1>2. /\ c \in Books(vs, ids)
      /\ \A w \in Users \ {t, m} : c.users[w] = b.users[w]
      /\ ~Meet(b, t, i, m, j, taker_price) => c = b
      /\ Meet(b, t, i, m, j, taker_price) =>
           /\ IsLive(b.users[m].orders[j])
           /\ \E left : MatchedFrom(c, b, t, i, m, j, left, ids[t])
  <2> HIDE DEF vs, m, j
  <2> QED
    BY <1>1, MatchFill DEF m, j
<1>3. \A w \in Users : OrdersLeft(c.users[w], vs[w])
  <2> HIDE DEF vs
  <2> QED
    BY <1>2, BookFacts
<1>4. \A w, n : Touches(method, w, n) <=> w = m /\ n = j
  <2>1. method.kind = "Match" /\ method.maker = m /\ method.index = j
    BY KindsOfMethods
  <2> HIDE DEF method, m, j
  <2> QED
    BY <2>1 DEF Touches
<1>5. m \in Users \ {t} /\ j \in Slots
  OBVIOUS
<1>6. Fillable(b.users[m], j) \in Nat /\ Fillable(b.users[t], i) \in Nat /\ (IsOpen(k) /\ k.post_only => Fillable(b.users[m], j) > 0)
  <2>1. ASSUME NEW w \in Users, NEW n \in Slots
        PROVE  /\ Fillable(b.users[w], n) \in Nat
               /\ IsOpen(b.users[w].orders[n]) /\ b.users[w].orders[n].post_only => Fillable(b.users[w], n) > 0
    <3> DEFINE u == b.users[w]
               o == u.orders[n]
               id == ids[w]
    <3>1. SoundUser(u, id)
      BY BookFacts
    <3>2. SoundOrder(o, id) /\ u.base_asset_amount \in Int
      BY <3>1, SoundUserParts DEF SoundOrders
    <3>3. Fillable(u, n) \in Nat
      <4> HIDE DEF u, id
      <4> QED
        BY <3>2, UnfilledBounds DEF Fillable
    <3>4. IsOpen(o) => Unfilled(o) > 0
      <4> HIDE DEF o, id
      <4> QED
        BY <3>2, Contributions
    <3> QED
      BY <3>3, <3>4 DEF Fillable, get_base_asset_amount_unfilled
  <2> QED
    BY <1>5, <2>1
<1> HIDE DEF m, j, method
<1>7. CASE ~Meet(b, t, i, m, j, taker_price)
  <2>1. c = b
    BY <1>2, <1>7
  <2>2. ASSUME IsOpen(k), k.post_only, do_orders_cross(d, k.price, taker_price)
        PROVE  Exhausted(b.users[t], i)
    <3>1. LesserOf(Fillable(b.users[m], j), Fillable(b.users[t], i)) = 0
      BY <1>7, <2>2 DEF Meet
    <3>2. Fillable(b.users[t], i) = 0
      BY <1>6, <2>2, <3>1 DEF LesserOf
    <3> QED
      BY <3>2 DEF Exhausted
  <2>3. InTurn(b, b, t, i, d, method, taker_price)
    BY <1>4, <2>2, InTurnSame
  <2> QED
    BY <2>1, <2>3 DEF method
<1>8. CASE Meet(b, t, i, m, j, taker_price)
  <2>1. PICK left : MatchedFrom(c, b, t, i, m, j, left, ids[t])
    BY <1>2, <1>8
  <2>2. IsLive(k) /\ do_orders_cross(d, k.price, taker_price)
        /\ LesserOf(Fillable(b.users[m], j), Fillable(b.users[t], i)) # 0
    BY <1>2, <1>8 DEF Meet
  <2>3. ~Exhausted(b.users[t], i)
    <3>1. Fillable(b.users[t], i) # 0
      BY <1>6, <2>2 DEF LesserOf
    <3> QED
      BY <3>1 DEF Exhausted, IsLive
  <2>4. OthersSame(c.users[m], b.users[m], j) /\ OthersSame(c.users[t], b.users[t], i)
    BY <1>5, <2>1, <2>2, MatchTouches
  <2>5. k.post_only => ~IsOpen(c.users[m].orders[j]) \/ Exhausted(c.users[t], i)
    BY <1>5, <2>1, <2>2, MatchUsesUp
  <2>6. ASSUME NEW w \in Users \ {t}, c.users[w] # b.users[w] PROVE w = m
    BY <1>2, <2>6
  <2>7. ASSUME NEW w \in Users \ {t}, NEW n \in Slots, c.users[w].orders[n] # b.users[w].orders[n]
        PROVE  w = m /\ n = j
    BY <2>4, <2>6, <2>7 DEF OthersSame
  <2>8. InTurn(c, b, t, i, d, method, taker_price)
    BY <1>3, <1>4, <1>5, <2>2, <2>3, <2>4, <2>5, <2>6, <2>7 DEF InTurn
  <2> QED
    BY <2>8 DEF method
<1> QED
  BY <1>7, <1>8

(* One method.                                                             *)
LEMMA FulfillInTurn ==
  ASSUME NEW us \in [Users -> UserRecords], NEW ids, NEW t \in Users, NEW d \in PositionDirection,
         NEW b \in Books(us, ids), NEW i \in Slots, MayTrade(us[t], i, d),
         NEW infos \in SUBSET CounterOrders(us, t, d), NEW method \in Methods(infos), NEW taker_price,
         NEW depth \in [PricesAndNone -> Nat], NEW jit \in Nat,
         NEW c, c = FulfillWith(b, t, i, method, taker_price, depth, jit)
  PROVE  InTurn(c, b, t, i, d, method, taker_price)
<1> DEFINE o == b.users[t].orders[i]
<1>1. CASE ~IsOpen(o)
  <2>1. c = b /\ Exhausted(b.users[t], i)
    BY <1>1 DEF FulfillWith, Exhausted
  <2> QED
    BY <2>1, InTurnSame
<1>2. CASE IsOpen(o)
  <2>1. \A w \in Users : SoundUser(b.users[w], ids[w]) /\ OrdersLeft(b.users[w], us[w])
    BY BookFacts
  <2>2. LeftOf(o, us[t].orders[i]) /\ IsLive(us[t].orders[i]) /\ us[t].orders[i].direction = d
    BY <2>1 DEF OrdersLeft, MayTrade
  <2>3. IsLive(o) /\ o.direction = d
    <3> HIDE DEF o
    <3> QED
      BY <1>2, <2>2, LeftOfFacts
  <2>4. ASSUME NEW p \in PricesAndNone, method = AMM(p)
        PROVE  InTurn(c, b, t, i, d, method, taker_price)
    <3> DEFINE amount == depth[p]
    <3>1. amount \in Nat /\ c = fulfill_perp_order_with_amm(b, t, i, amount)
      BY <1>2, <2>4 DEF FulfillWith, AMM
    <3> HIDE DEF amount
    <3> QED
      BY <2>3, <2>4, <3>1, AmmInTurn
  <2>5. ASSUME NEW info \in infos, NEW p \in PricesAndNone, method = Match(info, p)
        PROVE  InTurn(c, b, t, i, d, method, taker_price)
    <3> DEFINE m == info[1]
               j == info[2]
               k == b.users[m].orders[j]
               other == OppositeSide(d)
    <3>1. m \in Users \ {t} /\ j \in Slots /\ MayTrade(us[m], j, other)
      BY DEF CounterOrders
    <3>2. c = fulfill_perp_order_with_match(b, t, i, info[1], info[2], taker_price, jit)
      BY <1>2, <2>5 DEF FulfillWith, Match
    <3>3. LeftOf(k, us[m].orders[j]) /\ IsLive(us[m].orders[j]) /\ us[m].orders[j].direction = other
      BY <2>1, <3>1 DEF OrdersLeft, MayTrade
    <3>4. IsOpen(k) => IsLive(k) /\ k.direction = OppositeSide(o.direction)
      <4>1. IsOpen(k) => IsLive(k) /\ k.direction = us[m].orders[j].direction
        <5> HIDE DEF k
        <5> QED
          BY <3>3, LeftOfFacts
      <4> QED
        BY <2>3, <3>3, <4>1
    <3>5. InTurn(c, b, t, i, d, Match(info, p), taker_price)
      BY <2>3, <3>1, <3>2, <3>4, MatchInTurn
    <3> QED
      BY <2>5, <3>5
  <2> QED
    BY <2>4, <2>5 DEF Methods
<1> QED
  BY <1>1, <1>2

(* What holds at h and goes on holding holds up to the end.                *)
LEMMA LaterToo ==
  ASSUME NEW N \in Nat, NEW S \in SUBSET (0 .. N), NEW h \in S, \A k \in S : k < N => k + 1 \in S
  PROVE  \A k \in h .. N : k \in S
<1> DEFINE T == {k \in 0 .. N : k < h \/ k \in S}
<1>1. T \in SUBSET (0 .. N) /\ 0 \in T
  OBVIOUS
<1>2. \A k \in T : k < N => k + 1 \in T
  OBVIOUS
<1>3. T = 0 .. N
  <2> HIDE DEF T
  <2> QED
    BY <1>1, <1>2, IntervalInduction
<1> QED
  BY <1>3

(* What holds at first and not at the end stops to hold somewhere.         *)
LEMMA WhereItChanges ==
  ASSUME NEW N \in Nat, NEW S \in SUBSET (0 .. N), 0 \in S, N \notin S
  PROVE  \E n \in 1 .. N : n - 1 \in S /\ n \notin S
<1> SUFFICES ASSUME \A n \in 1 .. N : n - 1 \in S => n \in S PROVE FALSE
  OBVIOUS
<1>1. \A k \in S : k < N => k + 1 \in S
  OBVIOUS
<1>2. S = 0 .. N
  BY <1>1, IntervalInduction
<1> QED
  BY <1>2

(* Every method of a fill does what a method does.                         *)
RunInTurn(f, t, i, d, methods, taker_price) ==
  \A n \in 1 .. Len(methods) : InTurn(f[n], f[n - 1], t, i, d, methods[n], taker_price)

(* The loop over the methods is such a run.                                *)
LEMMA RunIsInTurn ==
  ASSUME NEW us \in [Users -> UserRecords], NEW ids, NEW t \in Users, NEW d \in PositionDirection,
         NEW b, NEW i \in Slots, MayTrade(us[t], i, d),
         NEW infos \in SUBSET CounterOrders(us, t, d), NEW methods \in Seq(Methods(infos)), NEW taker_price,
         NEW depth \in [PricesAndNone -> Nat], NEW jit \in Nat,
         NEW f \in [0 .. Len(methods) -> MovedBooks(us, ids, t, d)],
         FulfillRounds(f, b, t, i, methods, taker_price, depth, jit)
  PROVE  RunInTurn(f, t, i, d, methods, taker_price)
<1> SUFFICES ASSUME NEW n \in 1 .. Len(methods)
             PROVE  InTurn(f[n], f[n - 1], t, i, d, methods[n], taker_price)
  BY DEF RunInTurn
<1> DEFINE before == f[n - 1]
           after == f[n]
           method == methods[n]
<1>1. after = FulfillWith(before, t, i, method, taker_price, depth, jit)
  BY DEF FulfillRounds
<1>2. before \in Books(us, ids)
  <2>1. n - 1 \in 0 .. Len(methods)
    OBVIOUS
  <2> QED
    BY <2>1 DEF MovedBooks
<1>3. method \in Methods(infos)
  OBVIOUS
<1> HIDE DEF before, after, method
<1>4. InTurn(after, before, t, i, d, method, taker_price)
  BY <1>1, <1>2, <1>3, FulfillInTurn
<1> QED
  BY <1>4 DEF before, after, method

(* Book c comes after book b in a fill of order i of t.                    *)
Shrunk(c, b, t, i) ==
  /\ \A w \in Users : OrdersLeft(c.users[w], b.users[w])
  /\ OthersSame(c.users[t], b.users[t], i)
  /\ Exhausted(b.users[t], i) => c = b

(* Over several methods the orders only shrink.                            *)
LEMMA RunShrinks ==
  ASSUME NEW f, NEW t \in Users, NEW i \in Slots, NEW d, NEW methods, Len(methods) \in Nat, NEW taker_price,
         RunInTurn(f, t, i, d, methods, taker_price), NEW h \in 0 .. Len(methods), NEW k \in h .. Len(methods)
  PROVE  Shrunk(f[k], f[h], t, i)
<1> DEFINE N == Len(methods)
           S == {n \in 0 .. N : Shrunk(f[n], f[h], t, i)}
<1>1. S \in SUBSET (0 .. N) /\ h \in S /\ N \in Nat
  BY OrdersLeftSelf DEF OthersSame, Shrunk
<1>2. ASSUME NEW n \in S, n < N PROVE n + 1 \in S
  <2> DEFINE m == n + 1
             b == f[n]
             c == f[m]
  <2>1. m \in 1 .. N /\ m - 1 = n /\ m \in 0 .. N
    BY <1>2
  <2>2. InTurn(c, b, t, i, d, methods[m], taker_price)
    BY <2>1 DEF RunInTurn
  <2>3. Shrunk(b, f[h], t, i)
    OBVIOUS
  <2> HIDE DEF b, c
  <2>4. /\ \A w \in Users : OrdersLeft(c.users[w], b.users[w])
        /\ OthersSame(c.users[t], b.users[t], i)
        /\ Exhausted(b.users[t], i) => c = b
    BY <2>2 DEF InTurn
  <2>5. \A w \in Users : OrdersLeft(c.users[w], f[h].users[w])
    BY <2>3, <2>4, OrdersLeftTwice DEF Shrunk
  <2>6. OthersSame(c.users[t], f[h].users[t], i)
    BY <2>3, <2>4 DEF OthersSame, Shrunk
  <2>7. Exhausted(f[h].users[t], i) => c = f[h]
    BY <2>3, <2>4 DEF Shrunk
  <2>8. Shrunk(c, f[h], t, i)
    BY <2>5, <2>6, <2>7 DEF Shrunk
  <2> QED
    BY <2>1, <2>8 DEF c
<1> HIDE DEF S
<1>3. k \in S
  BY <1>1, <1>2, LaterToo
<1> QED
  BY <1>3 DEF S

(* One of these maker orders is w's.                                       *)
IsAmong(w, infos) == \E info \in infos : info[1] = w

(* A user none of whose orders is among the makers is left alone.          *)
LEMMA StrangersKeep ==
  ASSUME NEW f, NEW t \in Users, NEW i \in Slots, NEW d, NEW infos, NEW methods \in Seq(Methods(infos)),
         NEW taker_price, RunInTurn(f, t, i, d, methods, taker_price), NEW w \in Users \ {t},
         f[Len(methods)].users[w] # f[0].users[w]
  PROVE  IsAmong(w, infos)
<1> DEFINE N == Len(methods)
           S == {n \in 0 .. N : f[n].users[w] = f[0].users[w]}
<1>1. N \in Nat /\ S \in SUBSET (0 .. N) /\ 0 \in S /\ N \notin S
  OBVIOUS
<1>2. PICK n \in 1 .. N : n - 1 \in S /\ n \notin S
  <2> HIDE DEF S, N
  <2> QED
    BY <1>1, WhereItChanges
<1>3. n \in 0 .. N /\ methods[n] \in Methods(infos)
  OBVIOUS
<1>4. f[n].users[w] # f[n - 1].users[w]
  BY <1>2, <1>3
<1>5. methods[n].kind = "Match" /\ methods[n].maker = w
  <2>1. InTurn(f[n], f[n - 1], t, i, d, methods[n], taker_price)
    BY DEF RunInTurn
  <2> QED
    BY <1>4, <2>1 DEF InTurn, Touches
<1>6. PICK info \in infos, p \in PricesAndNone : methods[n] = Match(info, p)
  BY <1>3, <1>5, KindsOfMethods DEF Methods
<1> QED
  BY <1>5, <1>6, KindsOfMethods DEF IsAmong

(* For a taker that goes d: price p is better than price q.                *)
Better(d, p, q) == Signed(d, p) < Signed(d, q)

(* A price better than one that crosses crosses.                           *)
LEMMA BetterCrosses ==
  ASSUME NEW d \in PositionDirection, NEW p \in Int, NEW q \in Int, NEW taker_price \in Int, Better(d, p, q),
         do_orders_cross(d, q, taker_price)
  PROVE  do_orders_cross(d, p, taker_price)
BY DEF Better, do_orders_cross, NoWorse, Signed, PositionDirection

(* A maker order that a list of methods has is preceded in it by every     *)
(* maker order with a better price.                                        *)
LEMMA BetterListedBefore ==
  ASSUME NEW us, NEW d \in PositionDirection, NEW infos, IsFiniteSet(infos), infos \in SUBSET (Users \X Slots),
         NEW infoseq \in SetToSeqs(infos), infoseq \in Seq(infos), Sorted(us, d, infoseq),
         \A info \in infos : PriceIn(us, info) \in Int,
         NEW list, InMakerOrder(list, us, infoseq), NEW k \in 1 .. Len(list),
         NEW w \in Users, NEW j \in Slots, Touches(list[k], w, j),
         NEW better \in infos, Better(d, PriceIn(us, better), PriceIn(us, <<w, j>>))
  PROVE  HasMatch(list, us, better, k - 1)
<1> DEFINE N == Len(infoseq)
           worse == <<w, j>>
<1>1. list[k].kind = "Match" /\ list[k].maker = w /\ list[k].index = j
  BY DEF Touches
<1>2. PICK n \in 1 .. N : /\ list[k] = MatchWith(us, infoseq[n])
                          /\ \A a \in 1 .. (n - 1) : HasMatch(list, us, infoseq[a], k - 1)
  BY <1>1 DEF InMakerOrder
<1>3. infoseq[n] \in infos /\ infoseq[n][1] = w /\ infoseq[n][2] = j
  <2> DEFINE info == infoseq[n]
             price == PriceIn(us, info)
  <2>1. info \in infos /\ list[k] = Match(info, price)
    BY <1>2 DEF MatchWith
  <2> HIDE DEF info, price
  <2>2. list[k].maker = info[1] /\ list[k].index = info[2]
    BY <2>1, KindsOfMethods
  <2> QED
    BY <1>1, <2>1, <2>2 DEF info
<1>4. infoseq[n] = worse
  BY <1>3
<1>5. PICK a \in 1 .. N : infoseq[a] = better
  <2>1. /\ infoseq \in [1 .. Cardinality(infos) -> infos] /\ Cardinality(infos) \in Nat
        /\ \A info \in infos : \E a \in 1 .. Cardinality(infos) : infoseq[a] = info
    BY EveryMakerListed
  <2>2. N = Cardinality(infos)
    BY <2>1
  <2> QED
    BY <2>1, <2>2
<1>6. PriceIn(us, worse) \in Int /\ PriceIn(us, better) \in Int
  BY <1>3, <1>4
<1>7. ~NoWorse(d, PriceIn(us, worse), PriceIn(us, better))
  <2> DEFINE p == PriceIn(us, better)
             q == PriceIn(us, worse)
  <2>1. p \in Int /\ q \in Int /\ Better(d, p, q)
    BY <1>6
  <2> HIDE DEF p, q
  <2>2. ~NoWorse(d, q, p)
    BY <2>1 DEF Better, NoWorse, Signed
  <2> QED
    BY <2>2 DEF p, q
<1>8. ~(n < a)
  BY <1>4, <1>5, <1>7 DEF Sorted
<1>9. n # a
  <2>1. ASSUME worse = better PROVE FALSE
    <3> DEFINE p == PriceIn(us, better)
    <3>1. p \in Int /\ Better(d, p, p)
      BY <1>6, <2>1
    <3> HIDE DEF p
    <3> QED
      BY <3>1 DEF Better, Signed
  <2> QED
    BY <1>4, <1>5, <2>1
<1>10. a \in 1 .. (n - 1)
  BY <1>8, <1>9
<1> QED
  BY <1>2, <1>5, <1>10

(* When a fill touches a maker order, every post-only maker order with a   *)
(* better price is gone.                                                   *)
LEMMA BetterGoneFirst ==
  ASSUME NEW f, NEW t \in Users, NEW i \in Slots, NEW d \in PositionDirection, NEW infos, IsFiniteSet(infos),
         infos \in SUBSET ((Users \ {t}) \X Slots),
         NEW methods \in Seq(Methods(infos)), NEW taker_price \in Int,
         RunInTurn(f, t, i, d, methods, taker_price),
         NEW infoseq \in SetToSeqs(infos), infoseq \in Seq(infos), Sorted(f[0].users, d, infoseq),
         \A info \in infos : PriceIn(f[0].users, info) \in Int,
         InMakerOrder(methods, f[0].users, infoseq),
         NEW w \in Users \ {t}, NEW j \in Slots,
         f[Len(methods)].users[w].orders[j] # f[0].users[w].orders[j],
         NEW u \in Users \ {t}, NEW n \in Slots,
         f[0].users[u].orders[n].post_only,
         <<w, j>> \in infos =>
           /\ <<u, n>> \in infos
           /\ Better(d, f[0].users[u].orders[n].price, f[0].users[w].orders[j].price)
  PROVE  ~IsOpen(f[Len(methods)].users[u].orders[n])
<1> DEFINE N == Len(methods)
           vs == f[0].users
           better == <<u, n>>
           worse == <<w, j>>
           p == vs[u].orders[n].price
           q == vs[w].orders[j].price
           S == {k \in 0 .. N : f[k].users[w].orders[j] = vs[w].orders[j]}
<1>1. N \in Nat /\ S \in SUBSET (0 .. N) /\ 0 \in S /\ N \notin S
  OBVIOUS
<1>2. PICK k \in 1 .. N : k - 1 \in S /\ k \notin S
  <2> HIDE DEF S, N
  <2> QED
    BY <1>1, WhereItChanges
<1>3. k \in 0 .. N /\ k - 1 \in 0 .. N /\ methods[k] \in Methods(infos)
  OBVIOUS
<1>4. f[k - 1].users[w].orders[j] = vs[w].orders[j] /\ f[k].users[w].orders[j] # vs[w].orders[j]
  BY <1>2, <1>3
<1>5. InTurn(f[k], f[k - 1], t, i, d, methods[k], taker_price)
  BY DEF RunInTurn
<1>6. Touches(methods[k], w, j) /\ do_orders_cross(d, q, taker_price)
  BY <1>4, <1>5 DEF InTurn
<1>7. ~Exhausted(f[k - 1].users[t], i)
  BY <1>4, <1>5 DEF InTurn
<1>8. worse \in infos
  <2>1. methods[k].kind = "Match" /\ methods[k].maker = w /\ methods[k].index = j
    BY <1>6 DEF Touches
  <2>2. PICK info \in infos, r \in PricesAndNone : methods[k] = Match(info, r)
    BY <1>3, <2>1, KindsOfMethods DEF Methods
  <2>3. info[1] = w /\ info[2] = j
    BY <2>1, <2>2, KindsOfMethods
  <2>4. info = <<info[1], info[2]>>
    OBVIOUS
  <2> QED
    BY <2>2, <2>3, <2>4, Zenon
<1>9. better \in infos /\ p \in Int /\ q \in Int /\ Better(d, p, q)
  BY <1>8 DEF PriceIn
<1>10. HasMatch(methods, vs, better, k - 1)
  <2>1. infos \in SUBSET (Users \X Slots)
    OBVIOUS
  <2>2. Better(d, PriceIn(vs, better), PriceIn(vs, <<w, j>>))
    BY <1>9 DEF PriceIn
  <2> HIDE DEF better, vs
  <2> QED
    BY <1>6, <1>9, <2>1, <2>2, BetterListedBefore DEF vs
<1>11. PICK h \in 1 .. (k - 1) : methods[h] = MatchWith(vs, better)
  BY <1>10 DEF HasMatch
<1>12. Touches(methods[h], u, n)
  BY <1>11, KindsOfMethods DEF MatchWith, Touches
<1>13. h \in 1 .. N /\ h \in 0 .. N /\ h - 1 \in 0 .. N /\ k - 1 \in h .. N /\ N \in h .. N
  OBVIOUS
<1>14. InTurn(f[h], f[h - 1], t, i, d, methods[h], taker_price)
  BY <1>13 DEF RunInTurn
<1>15. do_orders_cross(d, p, taker_price)
  <2> HIDE DEF p, q
  <2> QED
    BY <1>6, <1>9, BetterCrosses DEF p, q
<1> DEFINE before == f[h - 1].users[u].orders[n]
<1>16. LeftOf(before, vs[u].orders[n])
  <2> DEFINE zero == 0
             now_at == h - 1
  <2>1. zero \in 0 .. N /\ now_at \in zero .. N /\ N \in Nat
    BY <1>13
  <2> HIDE DEF zero, now_at
  <2>2. Shrunk(f[now_at], f[zero], t, i)
    BY <2>1, RunShrinks
  <2> QED
    BY <2>2 DEF zero, now_at, OrdersLeft, Shrunk
<1>17. ~Exhausted(f[h].users[t], i)
  <2> DEFINE now_at == k - 1
  <2>1. now_at \in h .. N /\ h \in 0 .. N /\ N \in Nat
    BY <1>13
  <2> HIDE DEF now_at
  <2>2. Shrunk(f[now_at], f[h], t, i)
    BY <2>1, RunShrinks
  <2> QED
    BY <1>7, <2>2 DEF now_at, Shrunk
<1>18. ~IsOpen(f[h].users[u].orders[n])
  <2>1. CASE IsOpen(before)
    <3>1. before.price = p /\ before.post_only
      BY <1>16, <2>1 DEF LeftOf
    <3> QED
      BY <1>12, <1>14, <1>15, <1>17, <2>1, <3>1 DEF InTurn
  <2>2. CASE ~IsOpen(before)
    <3>1. LeftOf(f[h].users[u].orders[n], before)
      BY <1>14 DEF InTurn, OrdersLeft
    <3> QED
      BY <2>2, <3>1 DEF LeftOf
  <2> QED
    BY <2>1, <2>2
<1>19. Shrunk(f[N], f[h], t, i)
  <2>1. N \in h .. N /\ h \in 0 .. N /\ N \in Nat
    BY <1>13
  <2> QED
    BY <2>1, RunShrinks
<1> QED
  BY <1>18, <1>19 DEF OrdersLeft, LeftOf, Shrunk

(* The book after the sweep, and what a fill makes of it.                  *)
SweptBook(us, t, i, makers, jit_id, oracle_price) ==
  [users |-> SweptUsers(us, t, us[t].orders[i], makers, jit_id, oracle_price),
   amm |-> base_asset_amount_with_amm]

FilledBook(book, t, i, o, infoseq, prices, amm_price, depth, jit) ==
  fulfill_perp_order(book, t, i,
    determine_perp_fulfillment_methods(book.users, o, infoseq, prices[1], amm_price, AmmIsAvailable(o)),
    prices[2], depth, jit)

IsFilled(b, us, t, i, makers, jit_id, oracle_price, is_place_and_take) ==
  LET o == us[t].orders[i]
      book == SweptBook(us, t, i, makers, jit_id, oracle_price)
  IN  \E infoseq \in BestFirst(book.users, o.direction, MakerOrders(us, t, o, makers, jit_id, oracle_price)),
         prices \in TakerPrices(o, is_place_and_take),
         amm_price \in Prices, depth \in AmmDepths, jit \in JitAmounts :
        b = Tidied(FilledBook(book, t, i, o, infoseq, prices, amm_price, depth, jit), t, i)

(* What may become of the users: the sweep, and then nothing, a            *)
(* cancellation or the fill.                                               *)
LEMMA FillOutcomes ==
  ASSUME NEW us, NEW t, NEW i, NEW makers, NEW jit_id, NEW oracle_price, NEW is_place_and_take,
         NEW b \in fill_perp_order(us, t, i, makers, jit_id, oracle_price, is_place_and_take),
         NEW book, book = SweptBook(us, t, i, makers, jit_id, oracle_price)
  PROVE  \/ b = book
         \/ b = [book EXCEPT !.users[t] = cancel_order(book.users[t], i)]
         \/ /\ ~should_expire_order(us[t].orders[i], now)
            /\ IsFilled(b, us, t, i, makers, jit_id, oracle_price, is_place_and_take)
<1> DEFINE o == us[t].orders[i]
           swept == SweptUsers(us, t, o, makers, jit_id, oracle_price)
           infos == MakerOrders(us, t, o, makers, jit_id, oracle_price)
           start == [users |-> swept, amm |-> base_asset_amount_with_amm]
           filled(infoseq, prices, amm_price, depth, jit) ==
             fulfill_perp_order(start, t, i,
               determine_perp_fulfillment_methods(swept, o, infoseq, prices[1], amm_price, AmmIsAvailable(o)),
               prices[2], depth, jit)
           impossible == IsImpossibleFill(o, makers)
           cancelled == should_expire_order(o, now) \/ should_cancel_reduce_only_order(o, us[t].base_asset_amount)
           fills == {Tidied(filled(infoseq, prices, amm_price, depth, jit), t, i) :
                       infoseq \in BestFirst(swept, o.direction, infos),
                       prices \in TakerPrices(o, is_place_and_take),
                       amm_price \in Prices, depth \in AmmDepths, jit \in JitAmounts}
<1>1. b \in {start} \cup IF impossible THEN {}
                          ELSE IF cancelled THEN {[start EXCEPT !.users[t] = cancel_order(@, i)]}
                          ELSE fills
  BY DEF fill_perp_order
<1>2. [start EXCEPT !.users[t] = cancel_order(@, i)] = [start EXCEPT !.users[t] = cancel_order(start.users[t], i)]
  OBVIOUS
<1>3. \/ b = start \/ b = [start EXCEPT !.users[t] = cancel_order(start.users[t], i)]
      \/ (~cancelled /\ b \in fills)
  <2> HIDE DEF impossible, cancelled, fills, start
  <2> QED
    BY <1>1, <1>2, Zenon
<1>4. book = start /\ start.users = swept
  BY DEF SweptBook
<1>5. ASSUME b \in fills PROVE IsFilled(b, us, t, i, makers, jit_id, oracle_price, is_place_and_take)
  <2>1. PICK infoseq \in BestFirst(swept, o.direction, infos),
             prices \in TakerPrices(o, is_place_and_take),
             amm_price \in Prices, depth \in AmmDepths, jit \in JitAmounts :
          b = Tidied(filled(infoseq, prices, amm_price, depth, jit), t, i)
    <3> HIDE DEF filled, start, swept, infos, o
    <3> QED
      BY <1>5, SMTT(60)
  <2> HIDE DEF start, swept
  <2>2. filled(infoseq, prices, amm_price, depth, jit) =
          FilledBook(book, t, i, o, infoseq, prices, amm_price, depth, jit)
    BY <1>4 DEF FilledBook
  <2>3. infoseq \in BestFirst(book.users, o.direction, infos)
    BY <1>4
  <2>4. b = Tidied(FilledBook(book, t, i, o, infoseq, prices, amm_price, depth, jit), t, i)
    <3> HIDE DEF filled
    <3> QED
      BY <2>1, <2>2
  <2> QED
    BY <2>3, <2>4, Zenon DEF IsFilled
<1> HIDE DEF start, fills
<1> QED
  BY <1>3, <1>4, <1>5, Zenon

(* What becomes of the orders in a book when order i of t, which goes d,   *)
(* is filled with these maker orders.                                      *)
Outcome(c, b, t, i, d, infos) ==
  /\ OthersSame(c.users[t], b.users[t], i)
  /\ \A w \in Users : OrdersLeft(c.users[w], b.users[w])
  /\ \A w \in Users \ {t} : c.users[w] # b.users[w] => IsAmong(w, infos)
  /\ \A w, u \in Users \ {t}, j, n \in Slots :
       (/\ c.users[w].orders[j] # b.users[w].orders[j]
        /\ b.users[u].orders[n].post_only
        /\ <<w, j>> \in infos =>
             <<u, n>> \in infos /\ Better(d, b.users[u].orders[n].price, b.users[w].orders[j].price))
       => ~IsOpen(c.users[u].orders[n])

(* Nothing becomes of them.                                                *)
LEMMA OutcomeSame ==
  ASSUME NEW b, NEW t, NEW i, NEW d, NEW infos
  PROVE  Outcome(b, b, t, i, d, infos)
BY OrdersLeftSelf DEF Outcome, OthersSame

(* The order itself may go.                                                *)
LEMMA OutcomeThenCancel ==
  ASSUME NEW us, NEW ids, NEW c \in Books(us, ids), NEW b, NEW t \in Users, NEW i \in Slots, NEW d, NEW infos,
         Outcome(c, b, t, i, d, infos), IsOpen(c.users[t].orders[i]),
         NEW e, e = [c EXCEPT !.users[t] = cancel_order(c.users[t], i)]
  PROVE  Outcome(e, b, t, i, d, infos)
<1> DEFINE v == cancel_order(c.users[t], i)
<1>1. e = [users |-> WithUser(c.users, t, v), amm |-> c.amm]
  <2> HIDE DEF v
  <2> QED
    BY BookUpdate DEF v
<1>2. c.users \in [Users -> UserRecords] /\ SoundUser(c.users[t], ids[t])
  BY BookFacts
<1>3. e.users[t] = v /\ \A w \in Users \ {t} : e.users[w] = c.users[w]
  <2> HIDE DEF v
  <2> QED
    BY <1>1, <1>2 DEF WithUser
<1>4. OrdersLeft(v, c.users[t]) /\ \A j \in Slots \ {i} : v.orders[j] = c.users[t].orders[j]
  BY <1>2, CancelSound
<1> HIDE DEF v
<1>5. \A w \in Users : OrdersLeft(e.users[w], b.users[w])
  <2>1. \A w \in Users : OrdersLeft(c.users[w], b.users[w])
    BY DEF Outcome
  <2>2. OrdersLeft(e.users[t], b.users[t])
    BY <1>3, <1>4, <2>1, OrdersLeftTwice
  <2> QED
    BY <1>3, <2>1, <2>2
<1>6. OthersSame(e.users[t], b.users[t], i)
  BY <1>3, <1>4 DEF Outcome, OthersSame
<1> QED
  BY <1>3, <1>5, <1>6 DEF Outcome

(* The limit price and the price of a match are prices.                    *)
LEMMA TakerPricesType ==
  ASSUME NEW o, o.price \in PricesAndNone, NEW is_place_and_take, NEW prices \in TakerPrices(o, is_place_and_take)
  PROVE  prices[1] \in PricesAndNone /\ prices[2] \in PricesAndNone
<1>1. PICK limit_price \in FillLimitPrices(o, is_place_and_take) :
        prices \in {limit_price} \X (IF limit_price = 0 THEN Prices ELSE {limit_price})
  BY DEF TakerPrices
<1>2. limit_price \in PricesAndNone
  BY DEF FillLimitPrices, LimitPrices, AuctionPrices, PricesAndNone
<1> QED
  BY <1>1, <1>2 DEF PricesAndNone

(* The fill through the makers and the AMM.                                *)
LEMMA FilledOutcome ==
  ASSUME NEW us \in [Users -> UserRecords], NEW ids, NEW t \in Users, NEW i \in Slots,
         NEW d \in PositionDirection, MayTrade(us[t], i, d), SoundUser(us[t], ids[t]),
         NEW book \in MovedBooks(us, ids, t, d),
         NEW infos \in SUBSET CounterOrders(us, t, d),
         NEW infoseq \in BestFirst(book.users, d, infos), infoseq \in Seq(infos),
         NEW is_place_and_take, NEW prices \in TakerPrices(us[t].orders[i], is_place_and_take),
         NEW amm_price \in Prices, NEW depth \in AmmDepths, NEW jit \in JitAmounts,
         NEW c, c = FilledBook(book, t, i, us[t].orders[i], infoseq, prices, amm_price, depth, jit)
  PROVE  c \in MovedBooks(us, ids, t, d) /\ Outcome(c, book, t, i, d, infos)
<1> DEFINE o == us[t].orders[i]
           vs == book.users
           B == MovedBooks(us, ids, t, d)
           limit_price == prices[1]
           taker_price == prices[2]
           can == AmmIsAvailable(o)
           list == determine_perp_fulfillment_methods(vs, o, infoseq, limit_price, amm_price, can)
           N == Len(list)
<1>1. /\ amm_price \in PricesAndNone /\ depth \in [PricesAndNone -> Nat] /\ jit \in Nat /\ can \in BOOLEAN
      /\ PricesAndNone \subseteq Nat
  <2>1. amm_price \in PricesAndNone /\ depth \in [PricesAndNone -> Nat] /\ jit \in Nat /\ can \in BOOLEAN
    BY BookAssumption DEF PricesAndNone, AmmIsAvailable, is_auction_complete
  <2>2. PricesAndNone \subseteq Nat
    BY OrderAssumption DEF PricesAndNone
  <2> QED
    BY <2>1, <2>2
<1>2. limit_price \in PricesAndNone /\ taker_price \in PricesAndNone /\ taker_price \in Int
  <2>1. SoundOrder(o, ids[t])
    BY DEF SoundUser
  <2>2. o.price \in PricesAndNone
    BY <2>1 DEF SoundOrder, Orders, PricesAndNone
  <2> HIDE DEF o
  <2>3. limit_price \in PricesAndNone /\ taker_price \in PricesAndNone
    BY <2>2, TakerPricesType DEF o
  <2>4. \A p \in PricesAndNone : p \in Int
    BY <1>1
  <2> HIDE DEF limit_price, taker_price
  <2> QED
    BY <2>3, <2>4
<1>3. ASSUME NEW info \in infos PROVE PriceIn(vs, info) \in PricesAndNone
  <2>1. info[1] \in Users /\ info[2] \in Slots
    BY DEF CounterOrders
  <2>2. SoundOrder(vs[info[1]].orders[info[2]], ids[info[1]])
    <3>1. book \in Books(us, ids)
      BY DEF MovedBooks
    <3> QED
      BY <2>1, <3>1, BookFacts DEF SoundUser
  <2> QED
    BY <2>2 DEF SoundOrder, Orders, PricesAndNone, PriceIn
<1>4. o.direction = d
  BY DEF MayTrade
<1>5. Sorted(vs, d, infoseq) /\ infoseq \in SetToSeqs(infos)
  <2>1. DOMAIN infoseq = 1 .. Len(infoseq)
    OBVIOUS
  <2> QED
    BY <2>1 DEF BestFirst, Sorted, PriceIn
<1>6. list \in Seq(Methods(infos))
  <2>1. \A info \in infos : vs[info[1]].orders[info[2]].price \in PricesAndNone
    BY <1>3 DEF PriceIn
  <2> HIDE DEF vs, o, limit_price, can
  <2> QED
    BY <1>1, <2>1, MethodsType
<1>7. InMakerOrder(list, vs, infoseq)
  <2>1. Sorted(vs, o.direction, infoseq)
    BY <1>4, <1>5
  <2> HIDE DEF vs, o, limit_price, can
  <2> QED
    BY <1>1, <1>2, <1>3, <2>1, MethodsInOrder
<1>8. c = fulfill_perp_order(book, t, i, list, taker_price, depth, jit)
  BY DEF FilledBook
<1>9. RunsThrough(B, book, t, i, list, taker_price, depth, jit)
  <2> HIDE DEF list, taker_price
  <2> QED
    BY <1>1, <1>6, FulfillRun
<1> HIDE DEF list, taker_price, vs
<1>10. PICK f \in [0 .. N -> B] : /\ FulfillRounds(f, book, t, i, list, taker_price, depth, jit)
                                  /\ fulfill_perp_order(book, t, i, list, taker_price, depth, jit) = f[N]
  <2> HIDE DEF B
  <2> QED
    BY <1>9 DEF RunsThrough
<1>11. RunInTurn(f, t, i, d, list, taker_price)
  BY <1>1, <1>6, <1>10, RunIsInTurn
<1>12. f[0] = book /\ f[N] = c /\ N \in Nat /\ c \in B
  <2>1. N \in Nat
    BY <1>6
  <2> QED
    BY <1>8, <1>10, <2>1 DEF FulfillRounds
<1>13. Shrunk(c, book, t, i)
  <2> DEFINE zero == 0
             last == N
  <2>1. zero \in 0 .. N /\ last \in zero .. N /\ N \in Nat
    BY <1>12
  <2> HIDE DEF zero, last
  <2>2. Shrunk(f[last], f[zero], t, i)
    BY <1>11, <2>1, RunShrinks
  <2> QED
    BY <1>12, <2>2 DEF zero, last
<1>14. ASSUME NEW w \in Users \ {t}, c.users[w] # book.users[w]
       PROVE  IsAmong(w, infos)
  <2>1. f[Len(list)].users[w] # f[0].users[w]
    BY <1>12, <1>14
  <2> QED
    BY <1>6, <1>11, <2>1, StrangersKeep
<1>15. infos \in SUBSET ((Users \ {t}) \X Slots) /\ IsFiniteSet(infos)
  <2>1. infos \in SUBSET ((Users \ {t}) \X Slots) /\ infos \in SUBSET (Users \X Slots)
    BY DEF CounterOrders
  <2>2. IsFiniteSet(Users \X Slots)
    BY BookAssumption, SlotsFinite, FS_Product
  <2> QED
    BY <2>1, <2>2, FS_Subset
<1>16. \A info \in infos : PriceIn(vs, info) \in Int
  BY <1>1, <1>3
<1>17. ASSUME NEW w \in Users \ {t}, NEW u \in Users \ {t}, NEW j \in Slots, NEW n \in Slots,
              c.users[w].orders[j] # book.users[w].orders[j],
              book.users[u].orders[n].post_only,
              <<w, j>> \in infos =>
                /\ <<u, n>> \in infos
                /\ Better(d, book.users[u].orders[n].price, book.users[w].orders[j].price)
       PROVE  ~IsOpen(c.users[u].orders[n])
  <2>1. /\ Sorted(f[0].users, d, infoseq) /\ InMakerOrder(list, f[0].users, infoseq)
        /\ \A info \in infos : PriceIn(f[0].users, info) \in Int
    BY <1>5, <1>7, <1>12, <1>16 DEF vs
  <2>2. /\ f[N].users[w].orders[j] # f[0].users[w].orders[j]
        /\ f[0].users[u].orders[n].post_only
        /\ <<w, j>> \in infos =>
             /\ <<u, n>> \in infos
             /\ Better(d, f[0].users[u].orders[n].price, f[0].users[w].orders[j].price)
    BY <1>12, <1>17
  <2>3. ~IsOpen(f[N].users[u].orders[n])
    BY <1>2, <1>5, <1>6, <1>11, <1>15, <1>17, <2>1, <2>2, BetterGoneFirst
  <2> QED
    BY <1>12, <2>3
<1>18. Outcome(c, book, t, i, d, infos)
  BY <1>13, <1>14, <1>17 DEF Outcome, Shrunk
<1> QED
  BY <1>12, <1>18

(* A fill, whoever the makers are and whatever the AMM offers.             *)
LEMMA FillPerpOrderOutcome ==
  ASSUME NEW us \in [Users -> UserRecords], NEW ids, \A u \in Users : SoundUser(us[u], ids[u]),
         base_asset_amount_with_amm = PositionsOf(us), NEW t \in Users, NEW i \in Slots,
         IsLive(us[t].orders[i]), NEW makers \in SUBSET Users, NEW jit_id, NEW oracle_price,
         NEW is_place_and_take,
         NEW b \in fill_perp_order(us, t, i, makers, jit_id, oracle_price, is_place_and_take),
         NEW d, d = us[t].orders[i].direction,
         NEW book, book = SweptBook(us, t, i, makers, jit_id, oracle_price),
         NEW infos, infos = MakerOrders(us, t, us[t].orders[i], makers, jit_id, oracle_price)
  PROVE  b \in MovedBooks(us, ids, t, d) /\ Outcome(b, book, t, i, d, infos)
<1> DEFINE o == us[t].orders[i]
           swept == SweptUsers(us, t, o, makers, jit_id, oracle_price)
<1>1. /\ book \in Books(us, ids) /\ swept[t] = us[t] /\ book.users = swept
      /\ \A w \in Users : swept[w].base_asset_amount = us[w].base_asset_amount
  <2>1. book = [users |-> swept, amm |-> base_asset_amount_with_amm]
    BY DEF SweptBook
  <2> HIDE DEF o
  <2>2. /\ [users |-> swept, amm |-> base_asset_amount_with_amm] \in Books(us, ids) /\ swept[t] = us[t]
        /\ \A w \in Users : swept[w].base_asset_amount = us[w].base_asset_amount
    BY SweepSound
  <2> HIDE DEF swept
  <2> QED
    BY <2>1, <2>2
<1> HIDE DEF swept
<1>2. d \in PositionDirection /\ SoundUser(us[t], ids[t])
  <2>1. SoundOrder(o, ids[t])
    BY DEF SoundUser
  <2> QED
    BY <2>1 DEF SoundOrder, Orders
<1>3. book \in MovedBooks(us, ids, t, d)
  <2>1. \A w \in Users : us[w].base_asset_amount \in Int
    BY DEF UserRecords
  <2>2. \A w \in Users : Moves(book.users[w].base_asset_amount, us[w], SideFor(w, t, d))
    BY <1>1, <2>1, MovesNot
  <2> QED
    BY <1>1, <2>2 DEF MovedBooks
<1>4. Outcome(book, book, t, i, d, infos)
  BY OutcomeSame
<1>5. \/ b = book
      \/ b = [book EXCEPT !.users[t] = cancel_order(book.users[t], i)]
      \/ /\ ~should_expire_order(us[t].orders[i], now)
         /\ IsFilled(b, us, t, i, makers, jit_id, oracle_price, is_place_and_take)
  BY FillOutcomes
<1>6. ASSUME NEW c \in MovedBooks(us, ids, t, d), Outcome(c, book, t, i, d, infos), IsOpen(c.users[t].orders[i]),
             NEW e, e = [c EXCEPT !.users[t] = cancel_order(c.users[t], i)]
      PROVE  e \in MovedBooks(us, ids, t, d) /\ Outcome(e, book, t, i, d, infos)
  <2>1. c \in Books(us, ids)
    BY DEF MovedBooks
  <2>2. /\ e \in Books(us, ids)
        /\ \A w \in Users : e.users[w].base_asset_amount = c.users[w].base_asset_amount
    BY <1>6, <2>1, BookCancel
  <2>3. e \in MovedBooks(us, ids, t, d)
    BY <2>2, StillMoved
  <2> QED
    BY <1>6, <2>1, <2>3, OutcomeThenCancel
<1>7. CASE b = [book EXCEPT !.users[t] = cancel_order(book.users[t], i)]
  <2>1. IsOpen(book.users[t].orders[i])
    BY <1>1 DEF IsLive
  <2> QED
    BY <1>3, <1>4, <1>6, <1>7, <2>1
<1>8. ASSUME ~should_expire_order(o, now), NEW infoseq \in BestFirst(book.users, d, infos),
             NEW prices \in TakerPrices(o, is_place_and_take),
             NEW amm_price \in Prices, NEW depth \in AmmDepths, NEW jit \in JitAmounts,
             b = Tidied(FilledBook(book, t, i, o, infoseq, prices, amm_price, depth, jit), t, i)
      PROVE  b \in MovedBooks(us, ids, t, d) /\ Outcome(b, book, t, i, d, infos)
  <2> DEFINE c == FilledBook(book, t, i, o, infoseq, prices, amm_price, depth, jit)
  <2>1. infos \in SUBSET CounterOrders(us, t, d) /\ infoseq \in Seq(infos)
    <3> DEFINE vs == book.users
               all == MakerOrders(us, t, us[t].orders[i], makers, jit_id, oracle_price)
               way == us[t].orders[i].direction
    <3>1. infoseq \in BestFirst(vs, way, all) /\ infos = all /\ d = way
      OBVIOUS
    <3> HIDE DEF vs, all, way
    <3>2. all \in SUBSET CounterOrders(us, t, way) /\ infoseq \in Seq(all)
      BY <3>1, MakerOrdersListed DEF all, way
    <3> QED
      BY <3>1, <3>2
  <2>2. MayTrade(us[t], i, d)
    BY <1>8 DEF MayTrade
  <2>3. c \in MovedBooks(us, ids, t, d) /\ Outcome(c, book, t, i, d, infos)
    BY <1>2, <1>3, <2>1, <2>2, FilledOutcome
  <2>4. b = Tidied(c, t, i)
    BY <1>8
  <2> HIDE DEF c
  <2>5. c \in Books(us, ids)
    BY <2>3 DEF MovedBooks
  <2>6. \/ b = c
        \/ /\ IsOpen(c.users[t].orders[i])
           /\ b = [c EXCEPT !.users[t] = cancel_order(c.users[t], i)]
    BY <2>4, <2>5, TidiedIs
  <2> QED
    BY <1>6, <2>3, <2>6
<1>9. CASE /\ ~should_expire_order(o, now)
           /\ IsFilled(b, us, t, i, makers, jit_id, oracle_price, is_place_and_take)
  <2>1. PICK infoseq \in BestFirst(book.users, d, infos), prices \in TakerPrices(o, is_place_and_take),
             amm_price \in Prices, depth \in AmmDepths, jit \in JitAmounts :
               b = Tidied(FilledBook(book, t, i, o, infoseq, prices, amm_price, depth, jit), t, i)
    BY <1>9, Zenon DEF IsFilled
  <2> QED
    BY <1>8, <1>9, <2>1, Zenon
<1>10. CASE b = book
  BY <1>3, <1>4, <1>10
<1> QED
  BY <1>5, <1>7, <1>9, <1>10

(* Two orders of makers that a fill must take in turn: the better one is   *)
(* post-only and has been in the book for a slot, the worse one is         *)
(* post-only and has not expired.                                          *)
InThisOrder(better, worse) ==
  /\ IsLive(better) /\ better.post_only /\ better.slot < slot
  /\ IsLive(worse) /\ worse.post_only /\ ~should_expire_order(worse, now)
  /\ better.direction = worse.direction
  /\ Signed(better.direction, better.price) > Signed(worse.direction, worse.price)

(* Whoever may meet the worse order may meet the better one.               *)
LEMMA BetterIsCandidate ==
  ASSUME NEW u, NEW w, NEW o, NEW n \in Slots, NEW j \in Candidates(w, o, NoJit),
         InThisOrder(u.orders[n], w.orders[j]), u.orders[n].order_type = "Limit",
         slot \in Nat, u.orders[n].slot \in Nat
  PROVE  n \in Candidates(u, o, NoJit)
<1> DEFINE better == u.orders[n]
           worse == w.orders[j]
<1>1. ~o.post_only /\ worse.direction = OppositeSide(o.direction)
  BY DEF Candidates, is_maker_for_taker
<1>2. IsLive(better) /\ better.post_only /\ better.slot < slot /\ better.direction = worse.direction
  BY DEF InThisOrder
<1>3. is_limit_order(better) /\ is_resting_limit_order(better, slot)
  BY <1>2 DEF is_limit_order, is_resting_limit_order
<1>4. slot # better.slot
  BY <1>2
<1>5. is_maker_for_taker(better, o)
  BY <1>1, <1>2, <1>3, <1>4 DEF is_maker_for_taker
<1> QED
  BY <1>1, <1>2, <1>3, <1>5 DEF Candidates

(* A maker's price that is beyond the oracle's takes the better one with   *)
(* it.                                                                     *)
LEMMA BetterIsDropped ==
  ASSUME NEW u, NEW w, NEW o, NEW n \in Slots, NEW oracle_price \in Int, NEW j \in Dropped(w, o, NoJit, oracle_price),
         InThisOrder(u.orders[n], w.orders[j]), u.orders[n].order_type = "Limit",
         slot \in Nat, u.orders[n].slot \in Nat, NEW id, SoundUser(w, id),
         u.orders[n].price \in Int, w.orders[j].price \in Int, u.orders[n].direction \in PositionDirection
  PROVE  n \in Dropped(u, o, NoJit, oracle_price)
<1> DEFINE better == u.orders[n]
           worse == w.orders[j]
           d == better.direction
           p == better.price
           q == worse.price
<1>1. j \in Candidates(w, o, NoJit) /\ j \in Slots
  BY DEF Dropped, Candidates
<1>2. n \in Candidates(u, o, NoJit)
  BY <1>1, BetterIsCandidate
<1>3. ~should_cancel_reduce_only_order(worse, w.base_asset_amount)
  <2>1. SoundOrder(worse, id)
    BY <1>1 DEF SoundUser
  <2>2. IsOpen(worse) /\ worse.post_only
    BY DEF InThisOrder, IsLive
  <2>3. Unfilled(worse) \in Nat /\ Unfilled(worse) > 0
    <3> HIDE DEF worse
    <3> QED
      BY <2>1, <2>2, Contributions
  <2> QED
    BY <2>2, <2>3 DEF should_cancel_reduce_only_order, get_base_asset_amount_unfilled
<1>4. limit_price_breaches_maker_oracle_price_bands(worse, oracle_price)
  BY <1>3 DEF Dropped, InThisOrder
<1>5. worse.direction = d /\ Signed(d, p) > Signed(d, q) /\ p \in Int /\ q \in Int /\ d \in PositionDirection
  BY DEF InThisOrder
<1>6. Signed(d, q) - Signed(d, oracle_price) >= MaxOracleDiff
  BY <1>4, <1>5 DEF limit_price_breaches_maker_oracle_price_bands
<1> HIDE DEF d, p, q
<1>7. Signed(d, p) - Signed(d, oracle_price) >= MaxOracleDiff
  <2>1. MaxOracleDiff \in Nat
    BY BookAssumption
  <2> QED
    BY <1>5, <1>6, <2>1 DEF Signed, PositionDirection
<1>8. limit_price_breaches_maker_oracle_price_bands(better, oracle_price)
  BY <1>7 DEF limit_price_breaches_maker_oracle_price_bands, d, p
<1> QED
  BY <1>2, <1>8 DEF Dropped

(* What a fill leaves is a sound book.                                     *)
LEMMA FillPerpOrderSound ==
  ASSUME NEW us \in [Users -> UserRecords], NEW ids, \A u \in Users : SoundUser(us[u], ids[u]),
         base_asset_amount_with_amm = PositionsOf(us), NEW t \in Users, NEW i \in Slots,
         IsLive(us[t].orders[i]), NEW makers \in SUBSET Users, NEW jit_id, NEW oracle_price,
         NEW is_place_and_take,
         NEW b \in fill_perp_order(us, t, i, makers, jit_id, oracle_price, is_place_and_take)
  PROVE  b \in MovedBooks(us, ids, t, us[t].orders[i].direction)
<1> DEFINE d == us[t].orders[i].direction
           book == SweptBook(us, t, i, makers, jit_id, oracle_price)
           infos == MakerOrders(us, t, us[t].orders[i], makers, jit_id, oracle_price)
<1> HIDE DEF d, book, infos
<1>1. b \in MovedBooks(us, ids, t, d)
  BY FillPerpOrderOutcome DEF d, book, infos
<1> QED
  BY <1>1 DEF d

(* What a fill of order i of t touches: of the orders of t only that one,  *)
(* no position but those of makers who have an order to meet it, and,      *)
(* unless it must use one given order, no order of a maker while a better  *)
(* one is left.                                                            *)
TouchesInOrder(b, us, t, i, makers, jit_id) ==
  /\ OthersSame(b.users[t], us[t], i)
  /\ \A w \in Users \ {t} : b.users[w].base_asset_amount # us[w].base_asset_amount =>
       w \in makers /\ Candidates(us[w], us[t].orders[i], jit_id) # {}
  /\ jit_id = NoJit =>
       \A u \in makers \ {t}, w \in Users \ {t}, n, j \in Slots :
         (/\ InThisOrder(us[u].orders[n], us[w].orders[j])
          /\ b.users[w].orders[j] # us[w].orders[j])
         => ~IsOpen(b.users[u].orders[n])

(* The sweep, maker by maker.                                              *)
LEMMA SweptIs ==
  ASSUME NEW us, NEW ids, \A u \in Users : SoundUser(us[u], ids[u]), NEW t, NEW o, NEW makers, NEW jit_id,
         NEW oracle_price, NEW w \in Users, NEW swept, swept = SweptUsers(us, t, o, makers, jit_id, oracle_price)
  PROVE  LET gone == Dropped(us[w], o, jit_id, oracle_price)
         IN  /\ swept[w].base_asset_amount = us[w].base_asset_amount
             /\ w \in makers \ {t} =>
                  \A n \in Slots : /\ n \in gone => ~IsOpen(swept[w].orders[n])
                                   /\ n \notin gone => swept[w].orders[n] = us[w].orders[n]
             /\ w \notin makers \ {t} => swept[w] = us[w]
<1> DEFINE gone == Dropped(us[w], o, jit_id, oracle_price)
<1>1. swept[w] = IF w \in makers \ {t} THEN CancelAll(us[w], gone) ELSE us[w]
  BY DEF SweptUsers
<1>2. SoundUser(us[w], ids[w])
  OBVIOUS
<1> HIDE DEF gone
<1>3. /\ CancelAll(us[w], gone).base_asset_amount = us[w].base_asset_amount
      /\ \A n \in Slots \cap gone : ~IsOpen(CancelAll(us[w], gone).orders[n])
  BY <1>2, CancelAllSound
<1>4. \A n \in Slots \ gone : CancelAll(us[w], gone).orders[n] = us[w].orders[n]
  BY <1>2, CancelAllKeeps
<1> QED
  BY <1>1, <1>3, <1>4 DEF gone

(* An order that is taken in turn before another has a better price for    *)
(* whoever meets both.                                                     *)
LEMMA InThisOrderIsBetter ==
  ASSUME NEW better, NEW worse, InThisOrder(better, worse), NEW d \in PositionDirection,
         worse.direction = OppositeSide(d), better.price \in Int, worse.price \in Int
  PROVE  Better(d, better.price, worse.price)
<1> DEFINE p == better.price
           q == worse.price
<1>1. p \in Int /\ q \in Int /\ Signed(OppositeSide(d), p) > Signed(OppositeSide(d), q)
  BY DEF InThisOrder
<1> HIDE DEF p, q
<1>2. Better(d, p, q)
  BY <1>1 DEF Better, Signed, OppositeSide, PositionDirection
<1> QED
  BY <1>2 DEF p, q

(* Every outcome of a fill touches orders in this way.                     *)
LEMMA FillTouchesInOrder ==
  ASSUME NEW us \in [Users -> UserRecords], NEW ids, \A u \in Users : SoundUser(us[u], ids[u]),
         base_asset_amount_with_amm = PositionsOf(us), NEW t \in Users, NEW i \in Slots,
         IsLive(us[t].orders[i]), NEW makers \in SUBSET Users, NEW jit_id, NEW oracle_price \in Int,
         NEW is_place_and_take, slot \in Nat,
         NEW b \in fill_perp_order(us, t, i, makers, jit_id, oracle_price, is_place_and_take)
  PROVE  TouchesInOrder(b, us, t, i, makers, jit_id)
<1> DEFINE o == us[t].orders[i]
           d == o.direction
           swept == SweptUsers(us, t, o, makers, jit_id, oracle_price)
           book == SweptBook(us, t, i, makers, jit_id, oracle_price)
           infos == MakerOrders(us, t, o, makers, jit_id, oracle_price)
           gone(w) == Dropped(us[w], o, jit_id, oracle_price)
<1>1. Outcome(b, book, t, i, d, infos)
  <2> HIDE DEF book, infos, d
  <2> QED
    BY FillPerpOrderOutcome DEF book, infos, d
<1>2. book.users = swept
  BY DEF SweptBook
<1>3. \A w \in Users : /\ swept[w].base_asset_amount = us[w].base_asset_amount
                       /\ w \in makers \ {t} =>
                            \A n \in Slots : /\ n \in gone(w) => ~IsOpen(swept[w].orders[n])
                                             /\ n \notin gone(w) => swept[w].orders[n] = us[w].orders[n]
                       /\ w \notin makers \ {t} => swept[w] = us[w]
  <2> HIDE DEF swept, o
  <2> QED
    BY SweptIs DEF swept
<1>4. \A info \in infos : /\ info[1] \in makers \ {t}
                          /\ info[2] \in Candidates(us[info[1]], o, jit_id)
  BY DEF MakerOrders
<1>5. d \in PositionDirection
  <2>1. SoundOrder(o, ids[t])
    BY DEF SoundUser
  <2> QED
    BY <2>1 DEF SoundOrder, Orders
<1>6. ASSUME NEW u \in Users, NEW n \in Slots
      PROVE  LET k == us[u].orders[n]
             IN  /\ k.price \in Int /\ k.slot \in Nat /\ k.direction \in PositionDirection
                 /\ k.post_only => k.order_type = "Limit"
  <2> DEFINE k == us[u].orders[n]
  <2>1. SoundOrder(k, ids[u])
    BY DEF SoundUser
  <2>2. k \in Orders /\ (k.post_only => k.order_type = "Limit")
    BY <2>1 DEF SoundOrder
  <2> HIDE DEF k
  <2>3. k.price \in Int /\ k.slot \in Nat /\ k.direction \in PositionDirection
    <3>1. k.price \in Prices \cup {0} /\ k.slot \in Nat /\ k.direction \in PositionDirection
      BY <2>2 DEF Orders
    <3>2. \A p \in Prices \cup {0} : p \in Int
      BY OrderAssumption
    <3> QED
      BY <3>1, <3>2
  <2> QED
    BY <2>2, <2>3 DEF k
<1>7. swept[t] = us[t]
  BY <1>3
<1> HIDE DEF swept, book
<1>8. OthersSame(b.users[t], us[t], i)
  BY <1>1, <1>2, <1>7 DEF Outcome
<1>9. ASSUME NEW w \in Users \ {t}, b.users[w].base_asset_amount # us[w].base_asset_amount
      PROVE  w \in makers /\ Candidates(us[w], o, jit_id) # {}
  <2>1. b.users[w] # book.users[w]
    BY <1>2, <1>3, <1>9
  <2>2. PICK info \in infos : info[1] = w
    BY <1>1, <2>1 DEF Outcome, IsAmong
  <2> QED
    BY <1>4, <2>2
<1>10. ASSUME jit_id = NoJit, NEW u \in makers \ {t}, NEW w \in Users \ {t}, NEW n \in Slots, NEW j \in Slots,
              InThisOrder(us[u].orders[n], us[w].orders[j]), b.users[w].orders[j] # us[w].orders[j]
       PROVE  ~IsOpen(b.users[u].orders[n])
  <2> DEFINE better == us[u].orders[n]
             worse == us[w].orders[j]
  <2>1. /\ better.order_type = "Limit" /\ better.slot \in Nat /\ better.price \in Int
        /\ better.direction \in PositionDirection /\ worse.price \in Int /\ u \in Users
    BY <1>6, <1>10 DEF InThisOrder
  <2>2. ~IsOpen(swept[u].orders[n]) => ~IsOpen(b.users[u].orders[n])
    BY <1>1, <1>2, <2>1 DEF Outcome, OrdersLeft, LeftOf
  <2>3. CASE swept[w].orders[j] # worse
    <3>1. j \in gone(w)
      BY <1>3, <2>3
    <3>2. SoundUser(us[w], ids[w])
      OBVIOUS
    <3>3. n \in gone(u)
      <4>1. j \in Dropped(us[w], o, NoJit, oracle_price)
        BY <1>10, <3>1
      <4> HIDE DEF o
      <4>2. n \in Dropped(us[u], o, NoJit, oracle_price)
        BY <1>10, <2>1, <3>2, <4>1, BetterIsDropped
      <4> QED
        BY <1>10, <4>2
    <3> QED
      BY <1>3, <2>1, <2>2, <3>3
  <2>4. CASE swept[w].orders[j] = worse /\ IsOpen(swept[u].orders[n])
    <3>1. n \notin gone(u) /\ swept[u].orders[n] = better
      BY <1>3, <2>1, <2>4
    <3>2. ASSUME <<w, j>> \in infos
          PROVE  <<u, n>> \in infos /\ Better(d, better.price, worse.price)
      <4>1. j \in Candidates(us[w], o, NoJit)
        BY <1>4, <1>10, <3>2
      <4>2. n \in Candidates(us[u], o, NoJit)
        <5> HIDE DEF o
        <5> QED
          BY <1>10, <2>1, <4>1, BetterIsCandidate
      <4>3. <<u, n>> \in infos
        BY <1>10, <3>1, <4>2 DEF MakerOrders
      <4>4. worse.direction = OppositeSide(d)
        BY <4>1 DEF Candidates
      <4>5. Better(d, better.price, worse.price)
        <5> HIDE DEF better, worse, d
        <5> QED
          BY <1>5, <1>10, <2>1, <4>4, InThisOrderIsBetter DEF better, worse
      <4> QED
        BY <4>3, <4>5
    <3>3. b.users[w].orders[j] # book.users[w].orders[j] /\ book.users[u].orders[n] = better
          /\ book.users[w].orders[j] = worse
      BY <1>2, <1>10, <2>4, <3>1
    <3>4. better.post_only
      BY <1>10 DEF InThisOrder
    <3> HIDE DEF better, worse, infos, d
    <3> QED
      BY <1>1, <2>1, <3>2, <3>3, <3>4 DEF Outcome
  <2> QED
    BY <2>2, <2>3, <2>4
<1> QED
  BY <1>8, <1>9, <1>10 DEF TouchesInOrder

(* What a modification leaves of the parameters has their types, and is    *)
(* never to be filled at once.                                             *)
LEMMA MergedAreParams ==
  ASSUME NEW o, NEW id, SoundOrder(o, id), NEW change \in Changes
  PROVE  /\ AreParams(MergedParams(o, change))
         /\ ~MergedParams(o, change).immediate_or_cancel
<1> DEFINE merged == MergedParams(o, change)
           condition == IF o.trigger_condition \in {"Above", "TriggeredAbove"} THEN "Above" ELSE "Below"
           post == IF o.post_only THEN "MustPostOnly" ELSE "None"
           kept == [ order_type |-> o.order_type, direction |-> o.direction,
                     user_order_id |-> o.user_order_id, base_asset_amount |-> Unfilled(o),
                     price |-> o.price, reduce_only |-> o.reduce_only, post_only |-> post,
                     immediate_or_cancel |-> FALSE, max_ts |-> o.max_ts,
                     trigger_price |-> o.trigger_price, trigger_condition |-> condition,
                     auction_duration |-> 0 ]
           given(f) == IF f \in DOMAIN change THEN change[f] ELSE kept[f]
<1>1. Unfilled(o) \in Nat /\ o \in Orders
  BY Contributions DEF SoundOrder
<1>2. condition \in OrderTriggerCondition /\ post \in PostOnlyParam
  BY DEF OrderTriggerCondition, PostOnlyParam
<1>3. \A f \in DOMAIN change : f \in DOMAIN ModifyOrderParams /\ change[f] \in ModifyOrderParams[f]
  BY BookAssumption
<1>4. merged = [f \in DOMAIN kept |-> given(f)]
  BY DEF MergedParams
<1>5. /\ merged.order_type = o.order_type /\ merged.user_order_id = o.user_order_id
      /\ merged.immediate_or_cancel = FALSE
  BY <1>3, <1>4 DEF ModifyOrderParams
<1>6. /\ merged.direction \in PositionDirection /\ merged.base_asset_amount \in Nat
      /\ merged.price \in Prices \cup {0}
  BY <1>1, <1>3, <1>4 DEF ModifyOrderParams, Orders
<1>7. /\ merged.reduce_only \in BOOLEAN
      /\ merged.post_only \in PostOnlyParam /\ merged.max_ts \in Nat \cup {NotGiven}
  BY <1>1, <1>2, <1>3, <1>4 DEF ModifyOrderParams, Orders
<1>8. /\ merged.trigger_price \in Prices \cup {0}
      /\ merged.trigger_condition \in OrderTriggerCondition /\ merged.auction_duration \in Nat
  BY <1>1, <1>2, <1>3, <1>4 DEF ModifyOrderParams, Orders
<1> HIDE DEF merged
<1>9. AreParams(merged)
  BY <1>1, <1>5, <1>6, <1>7, <1>8 DEF AreParams, Orders
<1> QED
  BY <1>5, <1>9 DEF merged

(***************************************************************************)
(* The actions.                                                            *)
(***************************************************************************)

(* An account expires its orders and places one.                           *)
LEMMA PlacementSound ==
  ASSUME NEW u, SoundUser(u, 0), NEW params, AreParams(params), NEW crosses, Placeable(u, params, crosses),
         slot \in Nat, now \in Nat, NEW v, v = Place(u, params, crosses)
  PROVE  /\ SoundUser(v, get_last_order_id(v))
         /\ ~params.immediate_or_cancel => SoundUser(v, 0)
         /\ v.base_asset_amount = u.base_asset_amount
         /\ v.next_order_id = u.next_order_id => OrdersLeft(v, u) /\ v = expire_orders(u, now)
<1> DEFINE w == expire_orders(u, now)
           force == ForceReduceOnly
           S == {i \in Slots : should_expire_order(u.orders[i], now)}
<1>1. SoundUser(w, 0) /\ w.base_asset_amount = u.base_asset_amount /\ OrdersLeft(w, u)
  <2> DEFINE id == 0
  <2>1. SoundUser(u, id) /\ w = CancelAll(u, S)
    BY DEF expire_orders
  <2> HIDE DEF id, S, w
  <2>2. SoundUser(w, id) /\ w.base_asset_amount = u.base_asset_amount /\ OrdersLeft(w, u)
    BY <2>1, CancelAllSound
  <2> QED
    BY <2>2 DEF id
<1>2. /\ CanPlace(w, params, force, crosses, slot, now) /\ force \in BOOLEAN
      /\ v = place_perp_order(w, params, force, crosses, slot, now)
  BY DEF Placeable, Place, ForceReduceOnly
<1> HIDE DEF w, force
<1>3. /\ SoundUser(v, get_last_order_id(v))
      /\ ~params.immediate_or_cancel => SoundUser(v, 0)
      /\ v.base_asset_amount = w.base_asset_amount
      /\ v = w \/ v.next_order_id = w.next_order_id + 1
  BY <1>1, <1>2, PlaceSound
<1>4. w.next_order_id \in Nat /\ w.next_order_id = u.next_order_id
  BY <1>1, SoundUserParts DEF OrdersLeft
<1>5. v.next_order_id = u.next_order_id => v = w
  BY <1>3, <1>4
<1> QED
  BY <1>1, <1>3, <1>5 DEF w

(* Whose position a step moves, and which way.  An account that has placed *)
(* an order in the step is left out.                                       *)
StepMoves ==
  \A w \in Users :
    users'[w].next_order_id = users[w].next_order_id =>
      \E d \in PositionDirection : Moves(users'[w].base_asset_amount, users[w], d)

(* The makers that a step fills are filled best price first.               *)
StepInOrder ==
  \A u, w \in Users : AreMakers(u, w) =>
    \A n, j \in Slots :
      (/\ InThisOrder(users[u].orders[n], users[w].orders[j])
       /\ users'[w].orders[j] # users[w].orders[j])
      => users'[u].orders[n].order_id # users[u].orders[n].order_id

StepIsSound == StepMoves /\ StepInOrder

(* A step that moves no position satisfies the action properties.          *)
LEMMA StandsStill ==
  ASSUME Inv, \A w \in Users : users'[w].base_asset_amount = users[w].base_asset_amount
  PROVE  StepIsSound
<1>1. ASSUME NEW w \in Users PROVE Moves(users'[w].base_asset_amount, users[w], "Long")
  <2> DEFINE d == "Long"
             u == users[w]
  <2>1. u.base_asset_amount \in Int
    BY DEF Inv, UserRecords
  <2> HIDE DEF d, u
  <2>2. Moves(u.base_asset_amount, u, d)
    BY <2>1, MovesNot
  <2> QED
    BY <2>2 DEF d, u
<1>2. StepMoves
  BY <1>1 DEF StepMoves, PositionDirection
<1>3. StepInOrder
  BY DEF StepInOrder, AreMakers
<1> QED
  BY <1>2, <1>3 DEF StepIsSound

(* What moves an account moves it as seen from before its expired orders   *)
(* went.                                                                   *)
LEMMA MovesEarlier ==
  ASSUME NEW u, NEW v, OrdersLeft(v, u), v.base_asset_amount = u.base_asset_amount, NEW base, NEW d,
         Moves(base, v, d)
  PROVE  Moves(base, u, d)
<1>1. ASSUME NEW j \in Slots, IsLive(v.orders[j])
      PROVE  /\ IsLive(u.orders[j]) /\ u.orders[j].direction = v.orders[j].direction
             /\ u.orders[j].reduce_only = v.orders[j].reduce_only
             /\ u.orders[j].post_only = v.orders[j].post_only
             /\ should_expire_order(u.orders[j], now) <=> should_expire_order(v.orders[j], now)
  <2> DEFINE o == v.orders[j]
             k == u.orders[j]
  <2>1. LeftOf(o, k) /\ IsLive(o)
    BY <1>1 DEF OrdersLeft
  <2> HIDE DEF o, k
  <2>2. /\ IsLive(k) /\ k.direction = o.direction /\ k.reduce_only = o.reduce_only
        /\ k.post_only = o.post_only
    BY <2>1, LeftOfFacts DEF IsLive
  <2>3. should_expire_order(k, now) <=> should_expire_order(o, now)
    BY <2>1 DEF should_expire_order, LeftOf, IsLive, must_be_triggered
  <2> QED
    BY <2>2, <2>3 DEF o, k
<1>2. OnlyReduces(u, d) => OnlyReduces(v, d)
  BY <1>1 DEF OnlyReduces
<1>3. ASSUME NEW j \in Slots, MayTrade(v, j, d) PROVE MayTrade(u, j, d)
  BY <1>1, <1>3 DEF MayTrade
<1> QED
  BY <1>2, <1>3 DEF Moves

(* The step is a fill from the accounts `us', some of which may have just  *)
(* placed an order, to the book c.                                         *)
FillsFrom(us, c) ==
  \A w \in Users : /\ us[w].base_asset_amount = users[w].base_asset_amount
                   /\ us[w].next_order_id = users[w].next_order_id => OrdersLeft(us[w], users[w])
                   /\ users'[w].base_asset_amount = c.users[w].base_asset_amount
                   /\ users'[w].next_order_id = c.users[w].next_order_id

(* An account that has placed no order is moved to its side.               *)
LEMMA FillMovesOne ==
  ASSUME Inv, NEW us, NEW ids, NEW t, NEW d \in PositionDirection, NEW c \in MovedBooks(us, ids, t, d),
         FillsFrom(us, c), NEW w \in Users, users'[w].next_order_id = users[w].next_order_id
  PROVE  /\ SideFor(w, t, d) \in PositionDirection
         /\ Moves(users'[w].base_asset_amount, users[w], SideFor(w, t, d))
<1> DEFINE side == SideFor(w, t, d)
           base == c.users[w].base_asset_amount
<1>1. c \in Books(us, ids) /\ Moves(base, us[w], side)
  BY DEF MovedBooks
<1>2. c.users[w].next_order_id = us[w].next_order_id
  BY <1>1, BookFacts DEF OrdersLeft
<1>3. /\ OrdersLeft(us[w], users[w]) /\ us[w].base_asset_amount = users[w].base_asset_amount
      /\ users'[w].base_asset_amount = base
  BY <1>2 DEF FillsFrom
<1>4. side \in PositionDirection
  BY DEF SideFor, OppositeSide, PositionDirection
<1> HIDE DEF side, base
<1>5. Moves(base, users[w], side)
  BY <1>1, <1>3, MovesEarlier
<1> QED
  BY <1>3, <1>4, <1>5 DEF side

(* A fill moves positions as it may.                                       *)
LEMMA FillMoves ==
  ASSUME Inv, NEW us, NEW ids, NEW t, NEW d \in PositionDirection, NEW c \in MovedBooks(us, ids, t, d),
         FillsFrom(us, c)
  PROVE  StepMoves
<1> SUFFICES ASSUME NEW w \in Users, users'[w].next_order_id = users[w].next_order_id
             PROVE  \E e \in PositionDirection : Moves(users'[w].base_asset_amount, users[w], e)
  BY DEF StepMoves
<1> DEFINE side == SideFor(w, t, d)
<1> HIDE DEF side
<1>1. side \in PositionDirection /\ Moves(users'[w].base_asset_amount, users[w], side)
  BY FillMovesOne DEF side
<1> QED
  BY <1>1

(* The movement of a position tells the side its orders were on.           *)
LEMMA SideIsMoved ==
  ASSUME Inv, Inv', NEW u \in Users, NEW d \in PositionDirection,
         Moves(users'[u].base_asset_amount, users[u], d),
         users'[u].base_asset_amount # users[u].base_asset_amount
  PROVE  SideOf(u) = d
<1> DEFINE x == users[u].base_asset_amount
           y == users'[u].base_asset_amount
<1>1. x \in Int /\ y \in Int
  BY DEF Inv, UserRecords
<1>2. Signed(d, x) <= Signed(d, y) /\ x # y /\ SideOf(u) = IF y > x THEN "Long" ELSE "Short"
  BY DEF Moves, SideOf
<1> HIDE DEF x, y
<1> QED
  BY <1>1, <1>2 DEF Signed, PositionDirection

(* Two makers of a fill are both its taker, or neither is; and they have   *)
(* moved, and somebody else too.                                           *)
LEMMA MakersApart ==
  ASSUME Inv, Inv', NEW us, NEW ids, NEW t \in Users, NEW d \in PositionDirection,
         NEW c \in MovedBooks(us, ids, t, d), FillsFrom(us, c),
         NEW u \in Users, NEW w \in Users, AreMakers(u, w)
  PROVE  /\ u = t <=> w = t
         /\ \A v \in {u, w} : /\ c.users[v].base_asset_amount # us[v].base_asset_amount
                              /\ us[v].next_order_id = users[v].next_order_id
         /\ \E v \in Users \ {u, w} : c.users[v].base_asset_amount # us[v].base_asset_amount
<1>1. \A v \in {u, w} : /\ users'[v].next_order_id = users[v].next_order_id
                        /\ users'[v].base_asset_amount # users[v].base_asset_amount
  BY DEF AreMakers
<1>2. ASSUME NEW v \in {u, w} PROVE SideOf(v) = SideFor(v, t, d)
  <2> DEFINE side == SideFor(v, t, d)
  <2> HIDE DEF side
  <2>1. side \in PositionDirection /\ Moves(users'[v].base_asset_amount, users[v], side)
    BY <1>1, FillMovesOne DEF side
  <2>2. SideOf(v) = side
    BY <1>1, <2>1, SideIsMoved
  <2> QED
    BY <2>2 DEF side
<1>3. SideFor(u, t, d) = SideFor(w, t, d)
  BY <1>2 DEF AreMakers
<1>4. u = t <=> w = t
  BY <1>3 DEF SideFor, OppositeSide, PositionDirection
<1>5. c \in Books(us, ids)
  BY DEF MovedBooks
<1>6. \A v \in Users : c.users[v].next_order_id = us[v].next_order_id
  BY <1>5, BookFacts DEF OrdersLeft
<1>7. \A v \in {u, w} : /\ c.users[v].base_asset_amount # us[v].base_asset_amount
                        /\ us[v].next_order_id = users[v].next_order_id
  BY <1>1, <1>6 DEF FillsFrom
<1>8. \E v \in Users \ {u, w} : c.users[v].base_asset_amount # us[v].base_asset_amount
  BY DEF AreMakers, FillsFrom
<1> QED
  BY <1>4, <1>7, <1>8

(* The makers of a fill that may use all their orders are filled in order, *)
(* if the taker loses no order but the one that is filled.                 *)
LEMMA FillInOrder ==
  ASSUME Inv, Inv', NEW us, NEW ids, NEW t \in Users, NEW i \in Slots, NEW d \in PositionDirection,
         NEW c \in MovedBooks(us, ids, t, d), FillsFrom(us, c), NEW makers \in SUBSET Users,
         TouchesInOrder(c, us, t, i, makers, NoJit),
         \A w \in Users \ {t} : us[w] = users[w] /\ users'[w] = c.users[w],
         us[t].next_order_id = users[t].next_order_id =>
           \A j \in Slots : (/\ IsLive(users[t].orders[j]) /\ users[t].orders[j].post_only
                             /\ ~should_expire_order(users[t].orders[j], now)
                             /\ users'[t].orders[j] # users[t].orders[j])
                            => us[t].orders[i].post_only
  PROVE  StepInOrder
<1> SUFFICES ASSUME NEW u \in Users, NEW w \in Users, AreMakers(u, w), NEW n \in Slots, NEW j \in Slots,
                    InThisOrder(users[u].orders[n], users[w].orders[j]),
                    users'[w].orders[j] # users[w].orders[j]
             PROVE  users'[u].orders[n].order_id # users[u].orders[n].order_id
  BY DEF StepInOrder
<1>1. /\ u = t <=> w = t
      /\ \A v \in {u, w} : /\ c.users[v].base_asset_amount # us[v].base_asset_amount
                           /\ us[v].next_order_id = users[v].next_order_id
      /\ \E v \in Users \ {u, w} : c.users[v].base_asset_amount # us[v].base_asset_amount
  BY MakersApart
<1>2. CASE w = t
  <2>1. us[t].orders[i].post_only
    BY <1>1, <1>2 DEF InThisOrder
  <2>2. PICK v \in Users \ {t} : c.users[v].base_asset_amount # us[v].base_asset_amount
    BY <1>1, <1>2
  <2>3. Candidates(us[v], us[t].orders[i], NoJit) # {}
    BY <2>2 DEF TouchesInOrder
  <2>4. Candidates(us[v], us[t].orders[i], NoJit) = {}
    BY <2>1 DEF Candidates, is_maker_for_taker
  <2> QED
    BY <2>3, <2>4
<1>3. CASE w # t
  <2>1. u # t /\ w \in Users \ {t} /\ u \in Users \ {t}
    BY <1>1, <1>3
  <2>2. u \in makers \ {t}
    BY <1>1, <2>1 DEF TouchesInOrder
  <2>3. /\ us[u] = users[u] /\ us[w] = users[w]
        /\ users'[u] = c.users[u] /\ users'[w] = c.users[w]
    BY <2>1
  <2>4. ~IsOpen(users'[u].orders[n])
    BY <2>1, <2>2, <2>3 DEF TouchesInOrder
  <2>5. SoundOrder(users'[u].orders[n], 0) /\ SoundOrder(users[u].orders[n], 0)
    BY DEF Inv, SoundUser
  <2>6. users'[u].orders[n].order_id = 0
    BY <2>4, <2>5 DEF SoundOrder, NoOrder
  <2>7. users[u].orders[n].order_id > 0 /\ users[u].orders[n] \in Orders
    BY <2>5 DEF SoundOrder, InThisOrder, IsLive
  <2>8. users[u].orders[n].order_id # 0
    BY <2>7 DEF Orders
  <2> QED
    BY <2>6, <2>8
<1> QED
  BY <1>2, <1>3

(* One account changes, its position does not.                             *)
LEMMA AccountStep ==
  ASSUME Inv, NEW u \in Users, NEW v, SoundUser(v, 0),
         v.base_asset_amount = users[u].base_asset_amount,
         users' = WithUser(users, u, v), CountTransaction,
         UNCHANGED <<base_asset_amount_with_amm, status, slot, now, jit_misused>>
  PROVE  Inv' /\ StepIsSound
<1>1. v \in UserRecords /\ v.base_asset_amount \in Int
  BY SoundUserParts
<1>2. users' \in [Users -> UserRecords] /\ \A w \in Users : users'[w] = IF w = u THEN v ELSE users[w]
  BY <1>1 DEF Inv, WithUser
<1>3. \A w \in Users : SoundUser(users'[w], 0)
  BY <1>2 DEF Inv
<1>4. PositionsOf(users') = (PositionsOf(users) - users[u].base_asset_amount) + v.base_asset_amount
      /\ PositionsOf(users) \in Int
  <2>1. users \in [Users -> UserRecords]
    BY DEF Inv
  <2> QED
    BY <1>1, <2>1, PositionsUpdate DEF WithUser
<1>5. base_asset_amount_with_amm' = PositionsOf(users')
  BY <1>1, <1>4 DEF Inv
<1>6. Inv'
  BY <1>2, <1>3, <1>5 DEF Inv, CountTransaction
<1>7. StepIsSound
  BY <1>2, StandsStill
<1> QED
  BY <1>6, <1>7

(* Only order `id' of u may have to be filled at once.                     *)
OnlyId(u, id) == [w \in Users |-> IF w = u THEN id ELSE 0]

(* The accounts once u has placed an order, before the fill.               *)
LEMMA AccountsPlaced ==
  ASSUME Inv, NEW u \in Users, NEW id, NEW v, SoundUser(v, id),
         v.base_asset_amount = users[u].base_asset_amount, NEW us, us = WithUser(users, u, v)
  PROVE  /\ us \in [Users -> UserRecords] /\ us[u] = v
         /\ \A w \in Users \ {u} : us[w] = users[w]
         /\ \A w \in Users : SoundUser(us[w], OnlyId(u, id)[w])
         /\ base_asset_amount_with_amm = PositionsOf(us)
<1>1. v \in UserRecords /\ v.base_asset_amount \in Int
  BY SoundUserParts
<1>2. us \in [Users -> UserRecords] /\ \A w \in Users : us[w] = IF w = u THEN v ELSE users[w]
  BY <1>1 DEF Inv, WithUser
<1>3. \A w \in Users : SoundUser(us[w], OnlyId(u, id)[w])
  BY <1>2 DEF Inv, OnlyId
<1>4. PositionsOf(us) = (PositionsOf(users) - users[u].base_asset_amount) + v.base_asset_amount
      /\ PositionsOf(users) \in Int
  <2>1. users \in [Users -> UserRecords]
    BY DEF Inv
  <2> QED
    BY <1>1, <2>1, PositionsUpdate DEF WithUser
<1>5. base_asset_amount_with_amm = PositionsOf(us)
  BY <1>1, <1>4 DEF Inv
<1> QED
  BY <1>2, <1>3, <1>5

(* The accounts at the end of an instruction that fills.                   *)
AtRestBook(b) ==
  /\ b.users \in [Users -> UserRecords] /\ b.amm = PositionsOf(b.users)
  /\ \A w \in Users : SoundUser(b.users[w], 0)

(* A book in which no order has to be filled at once is one an instruction *)
(* may leave behind.                                                       *)
LEMMA BookAtRest ==
  ASSUME NEW us, NEW u, NEW b \in Books(us, OnlyId(u, 0))
  PROVE  AtRestBook(b)
<1>1. \A w \in Users : OnlyId(u, 0)[w] = 0
  BY DEF OnlyId
<1>2. /\ b.users \in [Users -> UserRecords] /\ b.amm = PositionsOf(b.users)
      /\ \A w \in Users : SoundUser(b.users[w], OnlyId(u, 0)[w])
  BY BookFacts
<1> QED
  BY <1>1, <1>2 DEF AtRestBook

(* What is left of the order just placed is cancelled.                     *)
LEMMA BookWithout ==
  ASSUME NEW us, NEW u \in Users, NEW id, NEW b \in Books(us, OnlyId(u, id)),
         NEW c, c = [users |-> WithUser(b.users, u, CancelById(b.users[u], id)), amm |-> b.amm]
  PROVE  /\ AtRestBook(c)
         /\ \A w \in Users : /\ c.users[w].base_asset_amount = b.users[w].base_asset_amount
                             /\ c.users[w].next_order_id = b.users[w].next_order_id
<1> DEFINE ids == OnlyId(u, id)
           before == b.users
           v == CancelById(before[u], id)
<1>1. /\ before \in [Users -> UserRecords] /\ b.amm \in Int /\ b.amm = PositionsOf(before)
      /\ \A w \in Users : SoundUser(before[w], ids[w]) /\ before[w].base_asset_amount \in Int
  BY BookFacts
<1>2. ids[u] = id /\ \A w \in Users \ {u} : ids[w] = 0
  BY DEF OnlyId
<1>3. /\ SoundUser(v, 0) /\ v.base_asset_amount = before[u].base_asset_amount
      /\ v.next_order_id = before[u].next_order_id
  BY <1>1, <1>2, CancelByIdSound
<1>4. v \in UserRecords
  BY <1>3, SoundUserParts
<1>5. c.users = WithUser(before, u, v) /\ c.amm = b.amm
  OBVIOUS
<1> HIDE DEF before, v, ids
<1>6. /\ c.users \in [Users -> UserRecords]
      /\ \A w \in Users : c.users[w] = IF w = u THEN v ELSE before[w]
  BY <1>1, <1>4, <1>5 DEF WithUser
<1>7. PositionsOf(c.users) = (PositionsOf(before) - before[u].base_asset_amount) + v.base_asset_amount
  <2>1. PositionsOf(WithUser(before, u, v)) = (PositionsOf(before) - before[u].base_asset_amount) + v.base_asset_amount
    BY <1>1, <1>4, PositionsUpdate DEF WithUser
  <2> QED
    BY <1>5, <2>1
<1>8. c.amm = PositionsOf(c.users)
  BY <1>1, <1>3, <1>5, <1>7
<1>9. \A w \in Users : SoundUser(c.users[w], 0)
  BY <1>1, <1>2, <1>3, <1>6
<1>10. \A w \in Users : /\ c.users[w].base_asset_amount = before[w].base_asset_amount
                        /\ c.users[w].next_order_id = before[w].next_order_id
  BY <1>3, <1>6
<1> QED
  BY <1>6, <1>8, <1>9, <1>10 DEF AtRestBook, before

(* An instruction that ends with such a book keeps the invariant.          *)
LEMMA FillStep ==
  ASSUME Inv, NEW b, AtRestBook(b), users' = b.users, base_asset_amount_with_amm' = b.amm,
         CountTransaction, UNCHANGED <<status, slot, now>>, jit_misused' \in BOOLEAN
  PROVE  Inv'
<1>1. /\ users' \in [Users -> UserRecords] /\ base_asset_amount_with_amm' = PositionsOf(users')
      /\ \A w \in Users : SoundUser(users'[w], 0)
  BY DEF AtRestBook
<1> QED
  BY <1>1 DEF Inv, CountTransaction

(* The facts of Inv that the actions use.                                  *)
LEMMA InvParts ==
  ASSUME Inv
  PROVE  /\ users \in [Users -> UserRecords] /\ slot \in Nat /\ now \in Nat /\ jit_misused \in BOOLEAN
         /\ \A u \in Users : SoundUser(users[u], 0)
         /\ base_asset_amount_with_amm = PositionsOf(users)
BY DEF Inv

(* The instructions, one by one: each keeps the invariant, and is sound.   *)
(* Placing an order moves no position.                                     *)
LEMMA PlaceOrderStep ==
  ASSUME Inv, NEW u \in Users, NEW params \in Params, NEW crosses, PlaceOrder(u, params, crosses)
  PROVE  Inv' /\ StepIsSound
<1> DEFINE v == Place(users[u], params, crosses)
<1>1. /\ SoundUser(users[u], 0) /\ AreParams(params) /\ slot \in Nat /\ now \in Nat
  BY InvParts, GivenParams
<1>2. /\ Placeable(users[u], params, crosses) /\ ~params.immediate_or_cancel
      /\ users' = WithUser(users, u, v) /\ CountTransaction
      /\ UNCHANGED <<base_asset_amount_with_amm, status, slot, now, jit_misused>>
  BY DEF PlaceOrder, WithUser
<1>3. v = Place(users[u], params, crosses)
  OBVIOUS
<1> HIDE DEF v
<1>4. SoundUser(v, 0) /\ v.base_asset_amount = users[u].base_asset_amount
  BY <1>1, <1>2, <1>3, PlacementSound
<1> QED
  BY <1>2, <1>4, AccountStep

(* Nor does cancelling one.                                                *)
LEMMA CancelOrderStep ==
  ASSUME Inv, NEW u \in Users, NEW i \in Slots, CancelOrder(u, i)
  PROVE  Inv' /\ StepIsSound
<1> DEFINE v == cancel_order(users[u], i)
           id == 0
<1>1. SoundUser(users[u], id) /\ IsOpen(users[u].orders[i])
  BY InvParts DEF CancelOrder
<1>2. /\ users' = WithUser(users, u, v) /\ CountTransaction
      /\ UNCHANGED <<base_asset_amount_with_amm, status, slot, now, jit_misused>>
  BY DEF CancelOrder, WithUser
<1>3. SoundUser(v, 0) /\ v.base_asset_amount = users[u].base_asset_amount
  <2> HIDE DEF id
  <2>1. SoundUser(v, id) /\ v.base_asset_amount = users[u].base_asset_amount
    BY <1>1, CancelSound
  <2> QED
    BY <2>1 DEF id
<1> HIDE DEF v
<1> QED
  BY <1>2, <1>3, AccountStep

(* The instructions that cancel a set of orders.                           *)
LEMMA CancelAllStep ==
  ASSUME Inv, NEW u \in Users, NEW S, users' = WithUser(users, u, CancelAll(users[u], S)), CountTransaction,
         UNCHANGED <<base_asset_amount_with_amm, status, slot, now, jit_misused>>
  PROVE  Inv' /\ StepIsSound
<1> DEFINE v == CancelAll(users[u], S)
           id == 0
<1>1. SoundUser(users[u], id)
  BY InvParts
<1>2. SoundUser(v, 0) /\ v.base_asset_amount = users[u].base_asset_amount
  <2> HIDE DEF id
  <2>1. SoundUser(v, id) /\ v.base_asset_amount = users[u].base_asset_amount
    BY <1>1, CancelAllSound
  <2> QED
    BY <2>1 DEF id
<1>3. users' = WithUser(users, u, v)
  OBVIOUS
<1> HIDE DEF v
<1> QED
  BY <1>2, <1>3, AccountStep

(* All orders of some directions are cancelled.                            *)
LEMMA CancelOrdersStep ==
  ASSUME Inv, NEW u \in Users, NEW directions, CancelOrders(u, directions)
  PROVE  Inv' /\ StepIsSound
BY CancelAllStep DEF CancelOrders, WithUser

(* All orders are cancelled that do not reduce the position.               *)
LEMMA ForceCancelOrdersStep ==
  ASSUME Inv, NEW u \in Users, ForceCancelOrders(u)
  PROVE  Inv' /\ StepIsSound
BY CancelAllStep DEF ForceCancelOrders, WithUser

(* The account without the order places it with the parameters it has now. *)
LEMMA ModifyOrderStep ==
  ASSUME Inv, NEW u \in Users, NEW i \in Slots, NEW change \in Changes, NEW crosses,
         ModifyOrder(u, i, change, crosses)
  PROVE  Inv' /\ StepIsSound
<1> DEFINE id == 0
           o == users[u].orders[i]
           params == MergedParams(o, change)
           w == cancel_order(users[u], i)
           v == Place(w, params, crosses)
<1>1. SoundUser(users[u], id) /\ slot \in Nat /\ now \in Nat
  BY InvParts
<1>2. /\ IsOpen(o) /\ Placeable(w, params, crosses)
      /\ users' = WithUser(users, u, v) /\ CountTransaction
      /\ UNCHANGED <<base_asset_amount_with_amm, status, slot, now, jit_misused>>
  BY DEF ModifyOrder, WithUser
<1>3. SoundUser(w, 0) /\ w.base_asset_amount = users[u].base_asset_amount
  <2> HIDE DEF id
  <2>1. SoundUser(w, id) /\ w.base_asset_amount = users[u].base_asset_amount
    BY <1>1, <1>2, CancelSound
  <2> QED
    BY <2>1 DEF id
<1>4. SoundOrder(o, id)
  BY <1>1 DEF SoundUser
<1>5. AreParams(params) /\ ~params.immediate_or_cancel
  <2> HIDE DEF o, id
  <2> QED
    BY <1>4, MergedAreParams
<1>6. v = Place(w, params, crosses)
  OBVIOUS
<1> HIDE DEF v, w, params
<1>7. SoundUser(v, 0) /\ v.base_asset_amount = w.base_asset_amount
  BY <1>1, <1>2, <1>3, <1>5, <1>6, PlacementSound
<1> QED
  BY <1>2, <1>3, <1>7, AccountStep

(* The order that is triggered stays, or is cancelled for want of margin.  *)
LEMMA TriggerOrderStep ==
  ASSUME Inv, NEW u \in Users, NEW i \in Slots, NEW oracle_price, NEW meets_initial_margin,
         TriggerOrder(u, i, oracle_price, meets_initial_margin)
  PROVE  Inv' /\ StepIsSound
<1> DEFINE id == 0
           o == users[u].orders[i]
           w == TriggerSlot(users[u], i, slot)
<1>1. SoundUser(users[u], id) /\ slot \in Nat /\ WaitsForTrigger(o)
  BY InvParts DEF TriggerOrder, WaitsForTrigger
<1>2. SoundUser(w, id) /\ IsOpen(w.orders[i]) /\ w.base_asset_amount = users[u].base_asset_amount
  <2> HIDE DEF id
  <2> QED
    BY <1>1, TriggerSound
<1>3. PICK v : /\ v = w \/ v = cancel_order(w, i)
               /\ users' = WithUser(users, u, v)
  BY DEF TriggerOrder, WithUser, CancelIf
<1>4. /\ CountTransaction
      /\ UNCHANGED <<base_asset_amount_with_amm, status, slot, now, jit_misused>>
  BY DEF TriggerOrder
<1>5. SoundUser(v, 0) /\ v.base_asset_amount = users[u].base_asset_amount
  <2> HIDE DEF id, w
  <2>1. SoundUser(v, id) /\ v.base_asset_amount = w.base_asset_amount
    BY <1>2, <1>3, CancelSound
  <2> QED
    BY <1>2, <2>1 DEF id
<1> QED
  BY <1>3, <1>4, <1>5, AccountStep

(* A keeper fills an order: the taker loses no other order.                *)
LEMMA FillOrderStep ==
  ASSUME Inv, NEW t \in Users, NEW i \in Slots, NEW makers \in SUBSET Users, NEW oracle_price \in Prices,
         FillOrder(t, i, makers, oracle_price)
  PROVE  Inv' /\ StepIsSound
<1> DEFINE ids == OnlyId(t, 0)
<1>1. /\ users \in [Users -> UserRecords] /\ base_asset_amount_with_amm = PositionsOf(users)
      /\ \A u \in Users : SoundUser(users[u], ids[u])
  BY InvParts DEF OnlyId
<1>2. /\ IsLive(users[t].orders[i]) /\ CountTransaction
      /\ UNCHANGED <<status, slot, now, jit_misused>>
  BY DEF FillOrder
<1>3. PICK b \in fill_perp_order(users, t, i, makers, NoJit, oracle_price, FALSE) :
        users' = b.users /\ base_asset_amount_with_amm' = b.amm
  BY DEF FillOrder
<1> DEFINE d == users[t].orders[i].direction
<1>4. b \in MovedBooks(users, ids, t, d) /\ b \in Books(users, ids)
  <2> HIDE DEF ids
  <2>1. b \in MovedBooks(users, ids, t, d)
    BY <1>1, <1>2, <1>3, FillPerpOrderSound
  <2> QED
    BY <2>1 DEF MovedBooks
<1>5. AtRestBook(b)
  BY <1>4, BookAtRest
<1>6. jit_misused' \in BOOLEAN
  BY <1>2, InvParts
<1>7. Inv'
  BY <1>2, <1>3, <1>5, <1>6, FillStep
<1>8. d \in PositionDirection
  BY <1>1 DEF UserRecords, Orders
<1>9. FillsFrom(users, b)
  BY <1>3, OrdersLeftSelf DEF FillsFrom
<1>10. TouchesInOrder(b, users, t, i, makers, NoJit)
  <2>1. oracle_price \in Int /\ slot \in Nat
    BY InvParts, OrderAssumption
  <2> DEFINE jit_id == NoJit
             is_place_and_take == FALSE
  <2>2. b \in fill_perp_order(users, t, i, makers, jit_id, oracle_price, is_place_and_take)
    BY <1>3
  <2> HIDE DEF ids, jit_id, is_place_and_take
  <2>3. TouchesInOrder(b, users, t, i, makers, jit_id)
    BY <1>1, <1>2, <2>1, <2>2, FillTouchesInOrder
  <2> QED
    BY <2>3 DEF jit_id
<1> HIDE DEF d, ids
<1>11. StepMoves
  BY <1>4, <1>8, <1>9, FillMoves
<1>12. \A j \in Slots : users'[t].orders[j] # users[t].orders[j] => j = i
  BY <1>3, <1>10 DEF TouchesInOrder, OthersSame
<1>13. StepInOrder
  <2>1. \A w \in Users \ {t} : users'[w] = b.users[w]
    BY <1>3
  <2> QED
    BY <1>4, <1>7, <1>8, <1>9, <1>10, <1>12, <2>1, FillInOrder
<1> QED
  BY <1>7, <1>11, <1>13 DEF StepIsSound

(* An account v whose expired orders are gone fills its order i, and what  *)
(* is left of it may be cancelled by its id: the other orders stay.        *)
LEMMA OtherOrdersStay ==
  ASSUME NEW u, SoundUser(u, 0), NEW v, v = expire_orders(u, now), NEW id, SoundUser(v, id),
         NEW i \in SlotsOf(v, id), NEW w, SoundUser(w, id), OthersSame(w, v, i),
         NEW j \in Slots, ~should_expire_order(u.orders[j], now)
  PROVE  /\ v.orders[j] = u.orders[j]
         /\ j # i => w.orders[j] = u.orders[j] /\ CancelById(w, id).orders[j] = u.orders[j]
<1> DEFINE S == {n \in Slots : should_expire_order(u.orders[n], now)}
           zero == 0
<1>1. v = CancelAll(u, S) /\ j \in Slots \ S /\ SoundUser(u, zero)
  BY DEF expire_orders
<1> HIDE DEF S, zero
<1>2. v.orders[j] = u.orders[j]
  BY <1>1, CancelAllKeeps
<1>3. ASSUME j # i PROVE w.orders[j] = u.orders[j] /\ CancelById(w, id).orders[j] = u.orders[j]
  <2>1. w.orders[j] = v.orders[j]
    BY <1>3 DEF OthersSame
  <2> DEFINE same == SlotsOf(w, id)
  <2>2. j \notin same
    <3>1. i \in Slots /\ IsOpen(v.orders[i]) /\ v.orders[i].order_id = id
      BY DEF SlotsOf
    <3>2. IsOpen(v.orders[j]) => v.orders[j].order_id # id
      BY <1>3, <3>1 DEF SoundUser, OwnIds
    <3> QED
      BY <2>1, <3>2 DEF SlotsOf
  <2> HIDE DEF same
  <2>3. CancelAll(w, same).orders[j] = w.orders[j]
    BY <2>2, CancelAllKeeps
  <2> QED
    BY <1>2, <2>1, <2>3 DEF same, CancelById
<1> QED
  BY <1>2, <1>3

(* The taker is the account that has placed the order.                     *)
LEMMA PlaceAndTakeStep ==
  ASSUME Inv, NEW u \in Users, NEW params \in Params, NEW makers \in SUBSET Users, NEW oracle_price \in Prices,
         PlaceAndTake(u, params, makers, oracle_price)
  PROVE  Inv' /\ StepIsSound
<1> DEFINE v == Place(users[u], params, FALSE)
           id == get_last_order_id(v)
           us == WithUser(users, u, v)
<1>1. SoundUser(users[u], 0) /\ AreParams(params) /\ slot \in Nat /\ now \in Nat /\ jit_misused \in BOOLEAN
  BY InvParts, GivenParams
<1>2. /\ CountTransaction /\ Placeable(users[u], params, FALSE)
      /\ UNCHANGED <<status, slot, now, jit_misused>>
  BY DEF PlaceAndTake
<1>3. PICK i \in SlotsOf(v, id) :
        /\ IsLive(v.orders[i])
        /\ \E b \in fill_perp_order(us, u, i, makers, NoJit, oracle_price, TRUE) :
             /\ users' = IF params.immediate_or_cancel THEN [b.users EXCEPT ![u] = CancelById(b.users[u], id)]
                                                       ELSE b.users
             /\ base_asset_amount_with_amm' = b.amm
  BY DEF PlaceAndTake, WithUser
<1>4. PICK b \in fill_perp_order(us, u, i, makers, NoJit, oracle_price, TRUE) :
        /\ users' = IF params.immediate_or_cancel THEN WithUser(b.users, u, CancelById(b.users[u], id))
                                                  ELSE b.users
        /\ base_asset_amount_with_amm' = b.amm
  BY <1>3 DEF WithUser
<1>5. /\ SoundUser(v, id) /\ v.base_asset_amount = users[u].base_asset_amount
      /\ ~params.immediate_or_cancel => SoundUser(v, 0)
      /\ v.next_order_id = users[u].next_order_id => OrdersLeft(v, users[u]) /\ v = expire_orders(users[u], now)
  <2> DEFINE crosses == FALSE
  <2>1. v = Place(users[u], params, crosses) /\ Placeable(users[u], params, crosses)
    BY <1>2
  <2> HIDE DEF v, crosses
  <2> QED
    BY <1>1, <2>1, PlacementSound DEF id
<1>6. i \in Slots
  BY DEF SlotsOf
<1>7. us = WithUser(users, u, v)
  OBVIOUS
<1> HIDE DEF v, id, us
<1> DEFINE d == us[u].orders[i].direction
<1>8. ASSUME NEW n, SoundUser(v, n)
      PROVE  b \in Books(us, OnlyId(u, n)) /\ b \in MovedBooks(us, OnlyId(u, n), u, d)
  <2> DEFINE ids == OnlyId(u, n)
  <2>1. /\ us \in [Users -> UserRecords] /\ us[u] = v /\ base_asset_amount_with_amm = PositionsOf(us)
        /\ \A w \in Users : SoundUser(us[w], ids[w])
    BY <1>5, <1>7, <1>8, AccountsPlaced
  <2>2. IsLive(us[u].orders[i])
    BY <1>3, <2>1
  <2> HIDE DEF ids
  <2>3. b \in MovedBooks(us, ids, u, d)
    BY <1>4, <1>6, <2>1, <2>2, FillPerpOrderSound
  <2> QED
    BY <2>3 DEF ids, MovedBooks
<1>11. /\ \A w \in Users : /\ us[w].base_asset_amount = users[w].base_asset_amount
                           /\ us[w].next_order_id = users[w].next_order_id => OrdersLeft(us[w], users[w])
       /\ d \in PositionDirection
  <2>1. us \in [Users -> UserRecords] /\ us[u] = v /\ \A w \in Users \ {u} : us[w] = users[w]
    BY <1>5, <1>7, AccountsPlaced
  <2>2. d \in PositionDirection
    BY <1>6, <2>1 DEF UserRecords, Orders
  <2> HIDE DEF d
  <2> QED
    BY <1>5, <2>1, <2>2, OrdersLeftSelf
<1>12. TouchesInOrder(b, us, u, i, makers, NoJit)
  <2> DEFINE ids == OnlyId(u, id)
             jit_id == NoJit
             is_place_and_take == TRUE
  <2>1. /\ us \in [Users -> UserRecords] /\ us[u] = v /\ base_asset_amount_with_amm = PositionsOf(us)
        /\ \A w \in Users : SoundUser(us[w], ids[w])
    BY <1>5, <1>7, AccountsPlaced
  <2>2. IsLive(us[u].orders[i]) /\ oracle_price \in Int
    BY <1>3, <2>1, OrderAssumption
  <2>3. b \in fill_perp_order(us, u, i, makers, jit_id, oracle_price, is_place_and_take)
    BY <1>4
  <2> HIDE DEF ids, jit_id, is_place_and_take
  <2>4. TouchesInOrder(b, us, u, i, makers, jit_id)
    BY <1>1, <1>6, <2>1, <2>2, <2>3, FillTouchesInOrder
  <2> QED
    BY <2>4 DEF jit_id
<1>13. us[u] = v /\ \A w \in Users \ {u} : us[w] = users[w]
  BY <1>5, <1>7, AccountsPlaced
<1>14. ASSUME us[u].next_order_id = users[u].next_order_id, NEW j \in Slots, users[u].orders[j].post_only,
              ~should_expire_order(users[u].orders[j], now)
       PROVE  \/ us[u].orders[i].post_only
              \/ /\ b.users[u].orders[j] = users[u].orders[j]
                 /\ CancelById(b.users[u], id).orders[j] = users[u].orders[j]
  <2> DEFINE w == b.users[u]
             x == users[u]
  <2>1. SoundUser(w, id)
    <3>1. b \in Books(us, OnlyId(u, id))
      BY <1>5, <1>8
    <3>2. SoundUser(w, OnlyId(u, id)[u])
      BY <3>1, BookFacts
    <3> QED
      BY <3>2 DEF OnlyId
  <2>2. OthersSame(w, v, i)
    BY <1>12, <1>13 DEF TouchesInOrder
  <2>3. v = expire_orders(x, now) /\ SoundUser(x, 0) /\ i \in SlotsOf(v, id)
    BY <1>1, <1>3, <1>5, <1>13, <1>14
  <2>4. ~should_expire_order(x.orders[j], now)
    BY <1>14
  <2> HIDE DEF w, x
  <2>5. /\ v.orders[j] = x.orders[j]
        /\ j # i => w.orders[j] = x.orders[j] /\ CancelById(w, id).orders[j] = x.orders[j]
    BY <1>5, <2>1, <2>2, <2>3, <2>4, OtherOrdersStay
  <2> QED
    BY <1>13, <1>14, <2>5 DEF w, x
<1> HIDE DEF d
<1>9. CASE params.immediate_or_cancel
  <2> DEFINE c == [users |-> WithUser(b.users, u, CancelById(b.users[u], id)), amm |-> b.amm]
  <2>1. users' = c.users /\ base_asset_amount_with_amm' = c.amm
    BY <1>4, <1>9
  <2>2. /\ AtRestBook(c)
        /\ \A w \in Users : /\ c.users[w].base_asset_amount = b.users[w].base_asset_amount
                            /\ c.users[w].next_order_id = b.users[w].next_order_id
    <3>1. b \in Books(us, OnlyId(u, id))
      BY <1>5, <1>8
    <3>2. c = [users |-> WithUser(b.users, u, CancelById(b.users[u], id)), amm |-> b.amm]
      OBVIOUS
    <3> HIDE DEF c
    <3> QED
      BY <3>1, <3>2, BookWithout
  <2> HIDE DEF c
  <2>3. Inv'
    BY <1>1, <1>2, <2>1, <2>2, FillStep
  <2>4. b \in MovedBooks(us, OnlyId(u, id), u, d)
    BY <1>5, <1>8
  <2>5. FillsFrom(us, b)
    BY <1>11, <2>1, <2>2 DEF FillsFrom
  <2>6. StepMoves
    BY <1>11, <2>4, <2>5, FillMoves
  <2>7. b.users \in [Users -> UserRecords]
    <3>1. b \in Books(us, OnlyId(u, id))
      BY <1>5, <1>8
    <3> QED
      BY <3>1, BookFacts
  <2>8. users'[u] = CancelById(b.users[u], id) /\ \A w \in Users \ {u} : users'[w] = b.users[w]
    BY <1>4, <1>9, <2>7 DEF WithUser
  <2>9. StepInOrder
    BY <1>6, <1>11, <1>12, <1>13, <1>14, <2>3, <2>4, <2>5, <2>8, FillInOrder
  <2> QED
    BY <2>3, <2>6, <2>9 DEF StepIsSound
<1>10. CASE ~params.immediate_or_cancel
  <2>1. users' = b.users /\ base_asset_amount_with_amm' = b.amm
    BY <1>4, <1>10
  <2>2. AtRestBook(b)
    BY <1>5, <1>8, <1>10, BookAtRest
  <2>3. Inv'
    BY <1>1, <1>2, <2>1, <2>2, FillStep
  <2>4. b \in MovedBooks(us, OnlyId(u, id), u, d)
    BY <1>5, <1>8
  <2>5. FillsFrom(us, b)
    BY <1>11, <2>1 DEF FillsFrom
  <2>6. StepMoves
    BY <1>11, <2>4, <2>5, FillMoves
  <2>7. StepInOrder
    BY <1>6, <1>11, <1>12, <1>13, <1>14, <2>1, <2>3, <2>4, <2>5, FillInOrder
  <2> QED
    BY <2>3, <2>6, <2>7 DEF StepIsSound
<1> QED
  BY <1>9, <1>10

(* An account that placed no order has none that place_and_make may use.   *)
LEMMA NoJitOrderThere ==
  ASSUME NEW u, SoundUser(u, 0), NEW v, v = expire_orders(u, now), NEW o,
         \A j \in SlotsOf(v, get_last_order_id(v)) : IsJitOrder(v.orders[j])
  PROVE  Candidates(v, o, get_last_order_id(v)) = {}
<1> DEFINE zero == 0
           id == get_last_order_id(v)
           S == {n \in Slots : should_expire_order(u.orders[n], now)}
<1>1. SoundUser(u, zero) /\ v = CancelAll(u, S)
  BY DEF expire_orders
<1>2. SoundUser(v, zero)
  <2> HIDE DEF zero, S
  <2> QED
    BY <1>1, CancelAllSound
<1>3. \A j \in Slots : ~v.orders[j].immediate_or_cancel
  BY <1>2, AtRest
<1>4. id # NoJit
  <2>1. v.next_order_id \in Nat \ {0}
    BY <1>2, SoundUserParts
  <2> QED
    BY <2>1 DEF get_last_order_id, NoJit
<1> HIDE DEF id
<1>5. ASSUME NEW j \in Candidates(v, o, id) PROVE FALSE
  <2>1. j \in Slots /\ IsOpen(v.orders[j]) /\ v.orders[j].order_id = id
    BY <1>4, <1>5 DEF Candidates, IsLive
  <2>2. IsJitOrder(v.orders[j])
    BY <2>1 DEF SlotsOf, id
  <2> QED
    BY <1>3, <2>1, <2>2 DEF IsJitOrder, is_jit_maker
<1> QED
  BY <1>5 DEF id

(* The one maker is the account that has placed the order.                 *)
LEMMA PlaceAndMakeStep ==
  ASSUME Inv, NEW u \in Users, NEW params \in Params, NEW t \in Users, NEW i \in Slots,
         NEW makers \in SUBSET Users, NEW oracle_price \in Prices,
         PlaceAndMake(u, params, t, i, makers, oracle_price)
  PROVE  Inv' /\ StepIsSound
<1> DEFINE v == Place(users[u], params, FALSE)
           us == WithUser(users, u, v)
           id == get_last_order_id(us[u])
           ids == OnlyId(u, id)
           all == makers \cup {u}
<1>1. SoundUser(users[u], 0) /\ AreParams(params) /\ slot \in Nat /\ now \in Nat /\ all \in SUBSET Users
  BY InvParts, GivenParams
<1>2. /\ CountTransaction /\ Placeable(users[u], params, FALSE) /\ u # t /\ IsLive(users[t].orders[i])
      /\ UNCHANGED <<status, slot, now>> /\ jit_misused' \in BOOLEAN
  BY DEF PlaceAndMake
<1>3. PICK b \in fill_perp_order(us, t, i, all, id, oracle_price, FALSE) :
        /\ users' = WithUser(b.users, u, CancelById(b.users[u], id))
        /\ base_asset_amount_with_amm' = b.amm
        /\ ~jit_misused' => /\ \A j \in SlotsOf(us[u], id) : IsJitOrder(us[u].orders[j])
                            /\ \A m \in makers \ {u, t} :
                                 b.users[m].base_asset_amount = users[m].base_asset_amount
  BY DEF PlaceAndMake, WithUser
<1>4. us[u] = v
  BY InvParts DEF WithUser
<1>5. /\ SoundUser(v, id) /\ v.base_asset_amount = users[u].base_asset_amount
      /\ v.next_order_id = users[u].next_order_id => OrdersLeft(v, users[u]) /\ v = expire_orders(users[u], now)
      /\ id = get_last_order_id(v)
  <2> DEFINE crosses == FALSE
  <2>1. v = Place(users[u], params, crosses) /\ Placeable(users[u], params, crosses)
    BY <1>2
  <2> HIDE DEF v, us, crosses
  <2>2. /\ SoundUser(v, get_last_order_id(v)) /\ v.base_asset_amount = users[u].base_asset_amount
        /\ v.next_order_id = users[u].next_order_id => OrdersLeft(v, users[u]) /\ v = expire_orders(users[u], now)
    BY <1>1, <2>1, PlacementSound
  <2> QED
    BY <1>4, <2>2 DEF id
<1>6. us = WithUser(users, u, v)
  OBVIOUS
<1> HIDE DEF v, id, us, ids
<1>7. /\ us \in [Users -> UserRecords] /\ us[t] = users[t] /\ base_asset_amount_with_amm = PositionsOf(us)
      /\ \A w \in Users : SoundUser(us[w], ids[w])
      /\ us[u] = v /\ \A w \in Users \ {u} : us[w] = users[w]
  BY <1>2, <1>5, <1>6, AccountsPlaced DEF ids
<1> DEFINE d == us[t].orders[i].direction
<1>8. b \in Books(us, ids) /\ b \in MovedBooks(us, ids, t, d)
  <2>1. IsLive(us[t].orders[i])
    BY <1>2, <1>7
  <2> HIDE DEF all
  <2>2. b \in MovedBooks(us, ids, t, d)
    BY <1>1, <1>3, <1>7, <2>1, FillPerpOrderSound
  <2> QED
    BY <2>2 DEF MovedBooks
<1> DEFINE c == [users |-> WithUser(b.users, u, CancelById(b.users[u], id)), amm |-> b.amm]
<1>9. users' = c.users /\ base_asset_amount_with_amm' = c.amm
  BY <1>3
<1>10. /\ AtRestBook(c)
       /\ \A w \in Users : /\ c.users[w].base_asset_amount = b.users[w].base_asset_amount
                           /\ c.users[w].next_order_id = b.users[w].next_order_id
  <2>1. c = [users |-> WithUser(b.users, u, CancelById(b.users[u], id)), amm |-> b.amm]
    OBVIOUS
  <2> HIDE DEF c
  <2> QED
    BY <1>8, <2>1, BookWithout DEF ids
<1> HIDE DEF c
<1>11. Inv'
  BY <1>2, <1>9, <1>10, FillStep
<1>12. d \in PositionDirection
  BY <1>7 DEF UserRecords, Orders
<1> HIDE DEF d
<1>13. \A w \in Users : /\ us[w].base_asset_amount = users[w].base_asset_amount
                        /\ us[w].next_order_id = users[w].next_order_id => OrdersLeft(us[w], users[w])
  BY <1>5, <1>7, OrdersLeftSelf
<1>14. FillsFrom(us, b)
  BY <1>9, <1>10, <1>13 DEF FillsFrom
<1>15. StepMoves
  BY <1>8, <1>12, <1>14, FillMoves
<1>16. TouchesInOrder(b, us, t, i, all, id)
  <2> DEFINE is_place_and_take == FALSE
  <2>1. IsLive(us[t].orders[i]) /\ oracle_price \in Int
    BY <1>2, <1>7, OrderAssumption
  <2>2. b \in fill_perp_order(us, t, i, all, id, oracle_price, is_place_and_take)
    BY <1>3
  <2> HIDE DEF all, is_place_and_take
  <2> QED
    BY <1>1, <1>7, <2>1, <2>2, FillTouchesInOrder
<1>17. StepInOrder
  <2> SUFFICES ASSUME NEW x \in Users, NEW y \in Users, AreMakers(x, y), NEW n \in Slots, NEW j \in Slots,
                      InThisOrder(users[x].orders[n], users[y].orders[j]),
                      users'[y].orders[j] # users[y].orders[j]
               PROVE  FALSE
    BY DEF StepInOrder
  <2>1. /\ x = t <=> y = t
        /\ \A w \in {x, y} : /\ b.users[w].base_asset_amount # us[w].base_asset_amount
                             /\ us[w].next_order_id = users[w].next_order_id
        /\ \E w \in Users \ {x, y} : b.users[w].base_asset_amount # us[w].base_asset_amount
    BY <1>8, <1>11, <1>12, <1>14, MakersApart
  <2>2. \A w \in Users \ {t} : b.users[w].base_asset_amount # us[w].base_asset_amount =>
          w \in all /\ Candidates(us[w], us[t].orders[i], id) # {}
    BY <1>16 DEF TouchesInOrder
  <2>3. CASE y = t
    <3>1. PICK w \in Users \ {t} : b.users[w].base_asset_amount # us[w].base_asset_amount
      BY <2>1, <2>3
    <3>2. Candidates(us[w], us[t].orders[i], id) # {}
      BY <2>2, <3>1
    <3>3. b.users \in [Users -> UserRecords]
      BY <1>8, BookFacts
    <3>4. users'[t] = b.users[t]
      BY <1>2, <1>3, <3>3 DEF WithUser
    <3>5. j = i
      BY <1>7, <1>16, <2>3, <3>4 DEF TouchesInOrder, OthersSame
    <3>6. us[t].orders[i].post_only
      BY <1>7, <2>3, <3>5 DEF InThisOrder
    <3> QED
      BY <3>2, <3>6 DEF Candidates, is_maker_for_taker
  <2>4. CASE y # t
    <3>1. y \in all /\ Candidates(us[y], us[t].orders[i], id) # {} /\ ~jit_misused'
      BY <2>1, <2>2, <2>4 DEF AreMakers
    <3>2. b.users[y].base_asset_amount # users[y].base_asset_amount
      BY <1>13, <2>1
    <3>3. y = u
      BY <1>3, <2>4, <3>1, <3>2
    <3>4. v = expire_orders(users[u], now) /\ id = get_last_order_id(v)
      BY <1>5, <1>7, <2>1, <3>3
    <3>5. \A k \in SlotsOf(v, id) : IsJitOrder(v.orders[k])
      BY <1>3, <1>7, <3>1
    <3> DEFINE o == us[t].orders[i]
    <3> HIDE DEF o
    <3>6. Candidates(v, o, id) = {}
      BY <1>1, <3>4, <3>5, NoJitOrderThere
    <3> QED
      BY <1>7, <3>1, <3>3, <3>6 DEF o
  <2> QED
    BY <2>3, <2>4
<1> QED
  BY <1>11, <1>15, <1>17 DEF StepIsSound

(* The open orders and the auctions of an account, counted.                *)
LEMMA Counted ==
  ASSUME NEW u, NEW id, SoundUser(u, id)
  PROVE  /\ u.open_orders = Cardinality({i \in Slots : IsOpen(u.orders[i])})
         /\ u.position_orders = Cardinality({i \in Slots : IsOpen(u.orders[i])})
         /\ u.open_auctions = Cardinality({i \in Slots : has_auction(u.orders[i])})
<1> DEFINE open == {i \in Slots : IsOpen(u.orders[i])}
           auctions == {i \in Slots : has_auction(u.orders[i])}
<1>1. OpenIn(u.orders) = [i \in Slots |-> IF i \in open THEN 1 ELSE 0]
  BY DEF OpenIn, OneIf
<1>2. AuctionsIn(u.orders) = [i \in Slots |-> IF i \in auctions THEN 1 ELSE 0]
  BY DEF AuctionsIn, OneIf
<1>3. open \in SUBSET Slots /\ auctions \in SUBSET Slots /\ IsFiniteSet(Slots)
  BY SlotsFinite
<1> HIDE DEF open, auctions
<1>4. SumOf(OpenIn(u.orders)) = Cardinality(open) /\ SumOf(AuctionsIn(u.orders)) = Cardinality(auctions)
  BY <1>1, <1>2, <1>3, SumCounts
<1>5. /\ u.open_orders = SumOf(OpenIn(u.orders)) /\ u.position_orders = SumOf(OpenIn(u.orders))
      /\ u.open_auctions = SumOf(AuctionsIn(u.orders))
  BY DEF SoundUser
<1> QED
  BY <1>4, <1>5 DEF open, auctions

(* A recount changes nothing.                                              *)
LEMMA UpdateUserOpenOrdersCountStep ==
  ASSUME Inv, NEW u \in Users, UpdateUserOpenOrdersCount(u)
  PROVE  Inv' /\ StepIsSound
<1> DEFINE a == users[u]
           open == Cardinality({i \in Slots : IsOpen(a.orders[i])})
           auctions == Cardinality({i \in Slots : has_auction(a.orders[i])})
<1>0. CountTransaction /\ UNCHANGED <<base_asset_amount_with_amm, status, slot, now, jit_misused>>
  BY DEF UpdateUserOpenOrdersCount
<1>1. users' = [users EXCEPT ![u].open_orders = open, ![u].open_auctions = auctions]
  BY DEF UpdateUserOpenOrdersCount
<1>2. SoundUser(a, 0) /\ a \in UserRecords /\ users \in [Users -> UserRecords]
  BY InvParts, SoundUserParts
<1>3. a.open_orders = open /\ a.open_auctions = auctions
  <2> DEFINE id == 0
  <2>1. SoundUser(a, id)
    BY <1>2
  <2> HIDE DEF a, id
  <2> QED
    BY <2>1, Counted
<1> HIDE DEF open, auctions
<1>4. users' = users
  <2> DEFINE first == [users EXCEPT ![u].open_orders = open]
             b == [a EXCEPT !.open_orders = open]
  <2>1. b = a
    <3>1. a = Account(a.orders, a.next_order_id, a.open_orders, a.open_auctions,
                      a.position_orders, a.base_asset_amount, a.open_bids, a.open_asks)
      <4> HIDE DEF a
      <4> QED
        BY <1>2, AccountFields
    <3> HIDE DEF a
    <3> QED
      BY <1>3, <3>1 DEF Account
  <2>2. first = [users EXCEPT ![u] = b]
    OBVIOUS
  <2>3. first = users
    <3>1. first = [users EXCEPT ![u] = a]
      <4> HIDE DEF b, first, a
      <4> QED
        BY <2>1, <2>2, Zenon
    <3>2. [users EXCEPT ![u] = a] = users
      BY <1>2
    <3> HIDE DEF first, a
    <3> QED
      BY <3>1, <3>2, Zenon
  <2> DEFINE c == [a EXCEPT !.open_auctions = auctions]
  <2>4. c = a
    <3>1. a = Account(a.orders, a.next_order_id, a.open_orders, a.open_auctions,
                      a.position_orders, a.base_asset_amount, a.open_bids, a.open_asks)
      <4> HIDE DEF a
      <4> QED
        BY <1>2, AccountFields
    <3> HIDE DEF a
    <3> QED
      BY <1>3, <3>1 DEF Account
  <2>5. users' = [first EXCEPT ![u].open_auctions = auctions]
    BY <1>1
  <2>6. users' = [users EXCEPT ![u].open_auctions = auctions]
    <3> HIDE DEF first
    <3> QED
      BY <2>3, <2>5, Zenon
  <2>7. users' = [users EXCEPT ![u] = c]
    BY <2>6
  <2>8. [users EXCEPT ![u] = c] = [users EXCEPT ![u] = a]
    <3> HIDE DEF c, a
    <3> QED
      BY <2>4, Zenon
  <2>9. [users EXCEPT ![u] = a] = users
    BY <1>2
  <2> HIDE DEF c, a
  <2> QED
    BY <2>7, <2>8, <2>9, Zenon
<1>5. Inv'
  BY <1>0, <1>4 DEF Inv, CountTransaction
<1>6. StepIsSound
  BY <1>4, StandsStill
<1> QED
  BY <1>5, <1>6

(* The accounts start empty.                                               *)
LEMMA InitInv == Init => Inv
<1> SUFFICES ASSUME Init PROVE Inv
  OBVIOUS
<1> DEFINE zeros == [i \in Slots |-> 0]
           orders == [i \in Slots |-> NoOrder]
<1>1. /\ OpenIn(orders) = zeros /\ AuctionsIn(orders) = zeros
      /\ LiveIn(orders, "Long") = zeros /\ LiveIn(orders, "Short") = zeros
  BY EmptySlot DEF OpenIn, AuctionsIn, LiveIn, OneIf
<1>2. SumOf(zeros) = 0
  BY SumZero
<1>3. ASSUME NEW position \in Int PROVE SoundUser(NewUser(position), 0) /\ NewUser(position) \in UserRecords
  <2> DEFINE u == NewUser(position)
  <2>1. orders \in [Slots -> Orders] /\ \A i \in Slots : SoundOrder(orders[i], 0)
    <3> DEFINE id == 0
    <3>1. SoundOrder(NoOrder, id)
      BY EmptySlot
    <3>2. NoOrder \in Orders
      BY <3>1 DEF SoundOrder
    <3> QED
      BY <3>1, <3>2
  <2>2. u = Account(orders, 1, 0, 0, 0, position, 0, 0)
    BY DEF NewUser, Account
  <2> HIDE DEF orders, zeros, u
  <2>3. u \in UserRecords
    BY <2>1, <2>2 DEF Account, UserRecords
  <2>4. /\ u.orders = orders /\ u.open_orders = 0 /\ u.position_orders = 0 /\ u.open_auctions = 0
        /\ u.open_bids = 0 /\ u.open_asks = 0
    BY <2>2 DEF Account
  <2>6. OwnIds(u.orders, u.next_order_id)
    BY <2>4, EmptySlot DEF OwnIds, orders
  <2>5. SoundUser(u, 0)
    BY <1>1, <1>2, <2>1, <2>3, <2>4, <2>6 DEF SoundUser
  <2> QED
    BY <2>3, <2>5 DEF u
<1>4. PICK p \in [Users -> InitialPositions] : users = [u \in Users |-> NewUser(p[u])]
  BY DEF Init
<1>5. \A u \in Users : p[u] \in Int
  BY <1>4, BookAssumption
<1>6. users \in [Users -> UserRecords] /\ \A u \in Users : SoundUser(users[u], 0)
  BY <1>3, <1>4, <1>5
<1> QED
  BY <1>6 DEF Init, Inv

(* Every step preserves the invariant and moves positions as it should.    *)
LEMMA NextInv == Inv /\ [Next]_vars => Inv' /\ StepIsSound
<1> SUFFICES ASSUME Inv, [Next]_vars PROVE Inv' /\ StepIsSound
  OBVIOUS
<1>1. ASSUME NEW seconds \in {0, 1}, Tick(seconds) PROVE Inv' /\ StepIsSound
  BY <1>1, StandsStill DEF Inv, Tick
<1>2. ASSUME NEW new_status \in Statuses, UpdateStatus(new_status) PROVE Inv' /\ StepIsSound
  BY <1>2, StandsStill, BookAssumption DEF Inv, UpdateStatus, CountTransaction
<1>3. CASE UNCHANGED vars
  BY <1>3, StandsStill DEF Inv, vars
<1>4. ASSUME NEW u \in Users, NEW params \in Params, NEW makers \in SUBSET Users, NEW oracle_price \in Prices,
             PlaceAndTake(u, params, makers, oracle_price)
      PROVE  Inv' /\ StepIsSound
  BY <1>4, PlaceAndTakeStep
<1>5. ASSUME NEW u \in Users, NEW t \in Users, NEW params \in Params, NEW i \in Slots,
             NEW makers \in SUBSET Users, NEW oracle_price \in Prices,
             PlaceAndMake(u, params, t, i, makers, oracle_price)
      PROVE  Inv' /\ StepIsSound
  BY <1>5, PlaceAndMakeStep
<1>6. ASSUME NEW t \in Users, NEW i \in Slots, NEW makers \in SUBSET Users, NEW oracle_price \in Prices,
             FillOrder(t, i, makers, oracle_price)
      PROVE  Inv' /\ StepIsSound
  BY <1>6, FillOrderStep
<1>7. ASSUME NEW u \in Users, NEW params \in Params, NEW crosses_amm \in BOOLEAN, PlaceOrder(u, params, crosses_amm)
      PROVE  Inv' /\ StepIsSound
  BY <1>7, PlaceOrderStep
<1>8. ASSUME NEW u \in Users, NEW i \in Slots, NEW change \in Changes, NEW crosses_amm \in BOOLEAN,
             ModifyOrder(u, i, change, crosses_amm)
      PROVE  Inv' /\ StepIsSound
  BY <1>8, ModifyOrderStep
<1>9. ASSUME NEW u \in Users, NEW i \in Slots, NEW oracle_price \in Prices, NEW meets_initial_margin \in BOOLEAN,
             TriggerOrder(u, i, oracle_price, meets_initial_margin)
      PROVE  Inv' /\ StepIsSound
  BY <1>9, TriggerOrderStep
<1>10. ASSUME NEW u \in Users, NEW directions, CancelOrders(u, directions) PROVE Inv' /\ StepIsSound
  BY <1>10, CancelOrdersStep
<1> QED
  BY <1>1, <1>2, <1>3, <1>4, <1>5, <1>6, <1>7, <1>8, <1>9, <1>10, CancelOrderStep,
     ForceCancelOrdersStep, UpdateUserOpenOrdersCountStep DEF Next

(* The inductive invariant holds in every reachable state.                 *)
LEMMA InvAlways == Spec => []Inv
BY InitInv, NextInv, PTL DEF Spec

(***************************************************************************)
(* Theorems.                                                               *)
(***************************************************************************)

(* Every variable keeps its type; in particular no order is ever filled    *)
(* beyond its size and no counter falls below zero, however placements,    *)
(* fills, triggers and cancellations follow each other.                    *)
THEOREM TypeCorrect == Spec => []TypeOK
<1>1. Inv => TypeOK
  <2> SUFFICES ASSUME Inv PROVE TypeOK
    OBVIOUS
  <2>1. ASSUME NEW u \in Users, NEW i \in Slots PROVE Unfilled(users[u].orders[i]) >= 0
    <3> DEFINE o == users[u].orders[i]
               id == 0
    <3>1. SoundOrder(o, id)
      BY DEF Inv, SoundUser
    <3> HIDE DEF o, id
    <3>2. Unfilled(o) \in Nat
      BY <3>1, Contributions
    <3> QED
      BY <3>2 DEF o
  <2>2. base_asset_amount_with_amm \in Int
    <3> DEFINE f == [u \in Users |-> users[u].base_asset_amount]
    <3>1. f \in [Users -> Int] /\ IsFiniteSet(Users)
      BY BookAssumption DEF Inv, UserRecords
    <3>2. base_asset_amount_with_amm = IntegerSumOf(f)
      BY DEF Inv, PositionsOf
    <3> HIDE DEF f
    <3> QED
      BY <3>1, <3>2, IntegerSumType
  <2> QED
    BY <2>1, <2>2 DEF Inv, TypeOK
<1> QED
  BY <1>1, InvAlways, PTL

(* The counters of an account (open_orders and open_auctions of the user,  *)
(* open_orders of the position) count the orders in its slots after every  *)
(* instruction.                                                            *)
THEOREM CountersAlwaysMatch == Spec => []CountersMatchSlots
<1>1. Inv => CountersMatchSlots
  <2> SUFFICES ASSUME Inv, NEW u \in Users
               PROVE  /\ users[u].open_orders = Cardinality(OpenSlots(u))
                      /\ users[u].position_orders = Cardinality(OpenSlots(u))
                      /\ users[u].open_auctions = Cardinality({i \in OpenSlots(u) : has_auction(users[u].orders[i])})
    BY DEF CountersMatchSlots
  <2> DEFINE a == users[u]
             id == 0
  <2>1. SoundUser(a, id)
    BY DEF Inv
  <2>2. \A i \in Slots : has_auction(a.orders[i]) => IsOpen(a.orders[i])
    BY <2>1, EmptySlot DEF SoundUser, SoundOrder
  <2>3. /\ OpenSlots(u) = {i \in Slots : IsOpen(a.orders[i])}
        /\ {i \in OpenSlots(u) : has_auction(a.orders[i])} = {i \in Slots : has_auction(a.orders[i])}
    BY <2>2 DEF OpenSlots
  <2> HIDE DEF a, id
  <2>4. /\ a.open_orders = Cardinality({i \in Slots : IsOpen(a.orders[i])})
        /\ a.position_orders = Cardinality({i \in Slots : IsOpen(a.orders[i])})
        /\ a.open_auctions = Cardinality({i \in Slots : has_auction(a.orders[i])})
    BY <2>1, Counted
  <2> QED
    BY <2>3, <2>4 DEF a
<1> QED
  BY <1>1, InvAlways, PTL

(* open_bids and open_asks, from which margin takes the worst case of a    *)
(* position, are always what the live orders of the account may still      *)
(* fill: nothing is freed twice, forgotten or counted before its trigger.  *)
THEOREM BidsAndAsksAlwaysMatch == Spec => []OpenBidsAndAsksMatch
<1>1. Inv => OpenBidsAndAsksMatch
  BY DEF Inv, OpenBidsAndAsksMatch, LiveAmount, SoundUser, LiveIn
<1> QED
  BY <1>1, InvAlways, PTL

(* What the users hold is what they hold against the AMM, also when one    *)
(* fill goes through the AMM and several makers.                           *)
THEOREM PositionsAlwaysBalance == Spec => []PositionsBalance
<1>1. Inv => PositionsBalance
  BY DEF Inv, PositionsBalance
<1> QED
  BY <1>1, InvAlways, PTL

(* No order that must be filled at once is in the book after an            *)
(* instruction, whatever became of it.                                     *)
THEOREM NoImmediateOrderEverStays == Spec => []NoImmediateOrderStays
<1>1. Inv => NoImmediateOrderStays
  BY AtRest DEF Inv, NoImmediateOrderStays
<1> QED
  BY <1>1, InvAlways, PTL

(* No step moves the position of an account through orders that have all   *)
(* expired, whether they were taker or maker and however many orders the   *)
(* fill went through.                                                      *)
THEOREM ExpiredOrdersNeverFill == Spec => NoFillAfterExpiry
<1> DEFINE A == \A u \in Users :
                  (/\ users'[u].base_asset_amount # users[u].base_asset_amount
                   /\ users'[u].next_order_id = users[u].next_order_id)
                  => \E i \in MayHaveFilled(u) : ~should_expire_order(users[u].orders[i], now)
<1>1. Inv /\ [Next]_vars => [A]_vars
  <2> SUFFICES ASSUME Inv, [Next]_vars, NEW u \in Users,
                      users'[u].base_asset_amount # users[u].base_asset_amount,
                      users'[u].next_order_id = users[u].next_order_id
               PROVE  \E i \in MayHaveFilled(u) : ~should_expire_order(users[u].orders[i], now)
    OBVIOUS
  <2>1. Inv' /\ StepIsSound
    BY NextInv
  <2>2. PICK d \in PositionDirection : Moves(users'[u].base_asset_amount, users[u], d)
    BY <2>1 DEF StepMoves, StepIsSound
  <2>3. SideOf(u) = d
    BY <2>1, <2>2, SideIsMoved
  <2>4. PICK j \in Slots : MayTrade(users[u], j, d)
    BY <2>2 DEF Moves
  <2> QED
    BY <2>3, <2>4 DEF MayTrade, MayHaveFilled
<1>2. Spec => [][A]_vars
  <2> HIDE DEF A
  <2> QED
    BY <1>1, InvAlways, PTL DEF Spec
<1> QED
  BY <1>2 DEF NoFillAfterExpiry

(* An account whose orders on a side may all only reduce its position gets *)
(* neither a larger nor an opposite position from them, however many of    *)
(* them one fill goes through and whatever the AMM takes in between.       *)
THEOREM ReduceOnlyAlwaysReduces == Spec => ReduceOnlyReduces
<1> DEFINE A == \A u \in Users :
                  (/\ users'[u].base_asset_amount # users[u].base_asset_amount
                   /\ users'[u].next_order_id = users[u].next_order_id
                   /\ \A i \in MayHaveFilled(u) : users[u].orders[i].reduce_only /\ ~users[u].orders[i].post_only)
                  => Reduces(users[u].base_asset_amount, users'[u].base_asset_amount)
<1>1. Inv /\ [Next]_vars => [A]_vars
  <2> SUFFICES ASSUME Inv, [Next]_vars, NEW u \in Users,
                      users'[u].base_asset_amount # users[u].base_asset_amount,
                      users'[u].next_order_id = users[u].next_order_id,
                      \A i \in MayHaveFilled(u) : users[u].orders[i].reduce_only /\ ~users[u].orders[i].post_only
               PROVE  Reduces(users[u].base_asset_amount, users'[u].base_asset_amount)
    OBVIOUS
  <2>1. Inv' /\ StepIsSound
    BY NextInv
  <2>2. PICK d \in PositionDirection : Moves(users'[u].base_asset_amount, users[u], d)
    BY <2>1 DEF StepMoves, StepIsSound
  <2>3. SideOf(u) = d
    BY <2>1, <2>2, SideIsMoved
  <2>4. OnlyReduces(users[u], d)
    BY <2>3 DEF OnlyReduces, MayHaveFilled
  <2> QED
    BY <2>2, <2>4 DEF Moves
<1>2. Spec => [][A]_vars
  <2> HIDE DEF A
  <2> QED
    BY <1>1, InvAlways, PTL DEF Spec
<1> QED
  BY <1>2 DEF ReduceOnlyReduces
(* When a fill touches a resting post-only order of one maker, no          *)
(* post-only order with a better price is left over, of that maker or of   *)
(* another that took part: however many makers there are, whichever of     *)
(* their orders the sweep cancels and whatever the AMM takes in between    *)
(* (insert_maker_order_info keeps the list in price order, and             *)
(* fulfill_perp_order goes on to the next maker only with what is left).   *)
THEOREM BestPriceAlwaysFirst == Spec => BestPriceFirst
<1> DEFINE A == \A u, w \in Users : AreMakers(u, w) =>
                  \A i, j \in Slots :
                    LET better == users[u].orders[i]
                        worse == users[w].orders[j]
                    IN  /\ IsLive(better) /\ better.post_only /\ better.slot < slot
                        /\ IsLive(worse) /\ worse.post_only /\ ~should_expire_order(worse, now)
                        /\ better.direction = worse.direction
                        /\ Signed(better.direction, better.price) > Signed(worse.direction, worse.price)
                        /\ users'[w].orders[j] # worse
                        => users'[u].orders[i].order_id # better.order_id
<1>1. Inv /\ [Next]_vars => [A]_vars
  <2> SUFFICES ASSUME Inv, [Next]_vars PROVE A
    OBVIOUS
  <2>1. StepInOrder
    BY NextInv DEF StepIsSound
  <2>2. ASSUME NEW u \in Users, NEW w \in Users, AreMakers(u, w), NEW i \in Slots, NEW j \in Slots,
               InThisOrder(users[u].orders[i], users[w].orders[j]),
               users'[w].orders[j] # users[w].orders[j]
        PROVE  users'[u].orders[i].order_id # users[u].orders[i].order_id
    BY <2>1, <2>2 DEF StepInOrder
  <2> QED
    BY <2>2 DEF InThisOrder
<1>2. Spec => [][A]_vars
  <2> HIDE DEF A
  <2> QED
    BY <1>1, InvAlways, PTL DEF Spec
<1> QED
  BY <1>2 DEF BestPriceFirst
===============================================================================
