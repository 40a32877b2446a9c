----------------------------- MODULE MCPerpMarket -----------------------------
(***************************************************************************)
(* PerpMarket for TLC: two users, prices and quote in tenths, base in      *)
(* hundredths, a curve of ten units.                                       *)
(***************************************************************************)
EXTENDS PerpMarket, TLC

NoReferrer == [u \in Users |-> NoUser]
SomeFundingRates == {-1200, 800}
CalmAndWild == {[price |-> InitialPeg, spreads |-> [long |-> 10, short |-> 10]],
                [price |-> InitialPeg + InitialPeg \div 5, spreads |-> [long |-> 40, short |-> 20]]}

LiquidityProvision ==
  [ operations |-> {"trade", "lp", "funding", "admin"},
    referrer |-> NoReferrer,
    fillers |-> {NoUser},
    order_sizes |-> {130},
    limit_prices |-> {},
    initial_lp_shares |-> {0, 330},
    sqrt_ks |-> {1300},
    oracle_prices |-> {500, 600},
    funding_period |-> 1,
    max_time |-> 1,
    max_transactions |-> 4 ]

(* Changes of the curve between fills, with no LP, one or two.             *)
CurveUpdates ==
  [ operations |-> {"trade", "curve", "funding", "oracle"},
    referrer |-> NoReferrer,
    fillers |-> {NoUser},
    order_sizes |-> {130},
    limit_prices |-> {560},
    initial_lp_shares |-> {0, 330},
    sqrt_ks |-> {900, 1100},
    oracle_prices |-> {500, 600},
    funding_period |-> 1,
    max_time |-> 1,
    max_transactions |-> 3 ]

(* A maker whom the AMM joins, before or after any of the others.          *)
Matches ==
  [CurveUpdates EXCEPT !.operations = @ \cup {"match"},
                       !.max_transactions = 2]

(* Fills with a referrer and with fillers to reward.                       *)
Rewards(u) ==
  [CurveUpdates EXCEPT !.operations = {"trade", "match"},
                       !.referrer = [v \in Users |-> IF v = u THEN NoUser ELSE u],
                       !.fillers = Users \cup {NoUser},
                       !.max_transactions = 2]

WindingDown ==
  [ operations |-> {"trade", "pnl", "expiry"},
    referrer |-> NoReferrer,
    fillers |-> {NoUser},
    order_sizes |-> {100},
    limit_prices |-> {},
    initial_lp_shares |-> {0},
    sqrt_ks |-> {900, 1100},
    oracle_prices |-> {500, 900},
    funding_period |-> 9,
    max_time |-> 3,
    max_transactions |-> 5 ]

LpThatFlips ==
  [ operations |-> {"trade", "lp"},
    referrer |-> NoReferrer,
    fillers |-> {NoUser},
    order_sizes |-> {50},
    limit_prices |-> {},
    initial_lp_shares |-> {110},
    sqrt_ks |-> {900, 1100},
    oracle_prices |-> {500, 600},
    funding_period |-> 1,
    max_time |-> 1,
    max_transactions |-> 4 ]

LpScenarios == {LiquidityProvision}
PoolScenarios == {CurveUpdates, Matches, WindingDown} \cup {Rewards(u) : u \in Users}
SideScenarios == {LpThatFlips}

UserSymmetry == Permutations(Users)
===============================================================================
