----------------------------- MODULE MCPerpOrders -----------------------------
(***************************************************************************)
(* PerpOrders for TLC: two prices, two order slots, orders of one or two   *)
(* steps.  Each run takes the order parameters its question needs.         *)
(***************************************************************************)
EXTENDS PerpOrders

BaseParams ==
  [ order_type |-> "Limit", direction |-> "Long", user_order_id |-> 0, base_asset_amount |-> 2,
    price |-> 1, reduce_only |-> FALSE, post_only |-> "None", immediate_or_cancel |-> FALSE,
    max_ts |-> NotGiven, trigger_price |-> 0, trigger_condition |-> "Above", auction_duration |-> 0 ]

MarketBuy == [BaseParams EXCEPT !.order_type = "Market", !.price = 0]
MakerSell == [BaseParams EXCEPT !.direction = "Short", !.base_asset_amount = 1, !.post_only = "TryPostOnly"]
DearSell == [MakerSell EXCEPT !.price = 2]
RestingSell == [BaseParams EXCEPT !.direction = "Short", !.max_ts = 1, !.user_order_id = 1]
ReduceBuy == [BaseParams EXCEPT !.reduce_only = TRUE, !.immediate_or_cancel = TRUE, !.price = 2]
ReduceSell == [BaseParams EXCEPT !.direction = "Short", !.reduce_only = TRUE]
StopSell == [BaseParams EXCEPT !.order_type = "TriggerLimit", !.direction = "Short",
                               !.trigger_price = 1, !.trigger_condition = "Above"]
StopBuy == [MarketBuy EXCEPT !.order_type = "TriggerMarket", !.trigger_price = 2,
                             !.trigger_condition = "Below", !.reduce_only = TRUE]
JitSell == [MakerSell EXCEPT !.immediate_or_cancel = TRUE, !.post_only = "MustPostOnly"]
TakeBuy == [BaseParams EXCEPT !.price = 2, !.immediate_or_cancel = TRUE]

LifeParams == {MarketBuy, RestingSell, StopSell, StopBuy, JitSell, TakeBuy}
MatchParams == {MakerSell, [DearSell EXCEPT !.base_asset_amount = 2], MarketBuy, ReduceSell, ReduceBuy}
JitParams == {MarketBuy, MakerSell, [JitSell EXCEPT !.max_ts = 1]}

(* Accounts are interchangeable.                                           *)
UserSymmetry == Permutations(Users)

Positions == {-1, 1}
Shorts == {-1}
Flat == {0}
NoChanges == {}
LifeChanges == {[base_asset_amount |-> 2], [max_ts |-> 1]}

(* The AMM fills nothing; one step, but only to a maker's price; two       *)
(* steps.                                                                  *)
SomeDepths == {[p \in Prices \cup {0} |-> 0], [p \in Prices \cup {0} |-> IF p = 0 THEN 0 ELSE 1],
               [p \in Prices \cup {0} |-> 2]}
===============================================================================
