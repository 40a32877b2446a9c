-------------------------- MODULE LiquidationProofs --------------------------
(***************************************************************************)
(* Nobody is marked bankrupt that could pay, for any number of users, any  *)
(* prices and any parameters of the markets.                               *)
(*                                                                         *)
(* The mark of a user is about what it holds, and handlers change holdings *)
(* in many steps.  So the argument follows whose holdings a step of a      *)
(* handler may change: no step changes a mark but those that set and clear *)
(* it, liquidations and the users' own instructions change the holdings of *)
(* unmarked users only, and the resolution of a bankruptcy, which changes  *)
(* a marked user's, ends by looking at it once more.                       *)
(***************************************************************************)
EXTENDS Liquidation, TLAPS

(* A state of the handlers has a value for every user, and a user a        *)
(* balance in every spot market.                                           *)
Shaped(s) ==
  /\ "m" \in DOMAIN s /\ "pools" \in DOMAIN s /\ "prices" \in DOMAIN s
  /\ "positions" \in DOMAIN s /\ "spot" \in DOMAIN s
  /\ "orders" \in DOMAIN s /\ "status" \in DOMAIN s
  /\ DOMAIN s.positions = Users /\ DOMAIN s.spot = Users
  /\ DOMAIN s.orders = Users /\ DOMAIN s.status = Users
  /\ \A v \in Users :
       /\ "quote" \in DOMAIN s.spot[v] /\ "asset" \in DOMAIN s.spot[v]
       /\ "bankrupt" \in DOMAIN s.status[v] /\ "being_liquidated" \in DOMAIN s.status[v]

Marked(s, u) == s.status[u].bankrupt
Liquidated(s, u) == s.status[u].being_liquidated

(* What the mark of a user is about.                                       *)
SameHoldings(s, t, u) ==
  /\ t.positions[u] = s.positions[u]
  /\ t.orders[u] = s.orders[u]
  /\ t.spot[u]["quote"] = s.spot[u]["quote"]
  /\ t.spot[u]["asset"] = s.spot[u]["asset"]

(* The inductive invariant, of a state of the handlers.                    *)
MarkedRightly(s, u) == Marked(s, u) => ~Liquidated(s, u) /\ is_user_bankrupt(s, u)

Sound(s) == Shaped(s) /\ \A v \in Users : MarkedRightly(s, v)

(* From s to t marks stay, and only the users of A have something else.    *)
Works(s, t, A) ==
  /\ Shaped(t)
  /\ \A v \in Users :
       /\ Marked(t, v) <=> Marked(s, v)
       /\ Marked(s, v) => (Liquidated(t, v) <=> Liquidated(s, v))
       /\ v \in A \/ SameHoldings(s, t, v)

Unmarked(s, A) == \A v \in A : ~Marked(s, v)

----------------------------------------------------------------------------
(* Steps that change no mark.                                              *)

(* Steps follow each other.                                                *)
LEMMA WorksTwice ==
  ASSUME NEW A, NEW s, NEW t, NEW r, Works(s, t, A), Works(t, r, A)
  PROVE  Works(s, r, A)
BY DEF Works, SameHoldings

(* Doing nothing is one.                                                   *)
LEMMA WorksIdle ==
  ASSUME NEW A, NEW s, Shaped(s)
  PROVE  Works(s, s, A)
BY DEF Works, SameHoldings

(* The bankruptcy of a user depends on its holdings.                       *)
LEMMA BankruptByHoldings ==
  ASSUME NEW s, NEW t, NEW u, SameHoldings(s, t, u)
  PROVE  is_user_bankrupt(t, u) <=> is_user_bankrupt(s, u)
BY DEF SameHoldings, is_user_bankrupt, HasLiability, HasAsset, SpotMarkets

(* A step that changes the holdings of unmarked users keeps the invariant. *)
LEMMA WorksSound ==
  ASSUME NEW A \in SUBSET Users, NEW s, NEW t, Sound(s), Works(s, t, A), Unmarked(s, A)
  PROVE  Sound(t) /\ Unmarked(t, A)
<1>1. Shaped(t)
  BY DEF Works
<1>2. ASSUME NEW v \in Users, Marked(t, v)
      PROVE  ~Liquidated(t, v) /\ is_user_bankrupt(t, v)
  <2>1. Marked(s, v) /\ v \notin A
    BY <1>2 DEF Works, Unmarked
  <2>2. SameHoldings(s, t, v)
    BY <2>1 DEF Works
  <2>3. ~Liquidated(s, v) /\ is_user_bankrupt(s, v)
    BY <2>1 DEF Sound, MarkedRightly
  <2>4. is_user_bankrupt(t, v) <=> is_user_bankrupt(s, v)
    BY <2>2, BankruptByHoldings
  <2> QED
    BY <2>1, <2>3, <2>4 DEF Works
<1> QED
  BY <1>1, <1>2 DEF Sound, MarkedRightly, Works, Unmarked

(* The operations on one user: its position, orders, balances and status.  *)
LEMMA OnWorks ==
  ASSUME NEW A, NEW s, Shaped(s), NEW u \in Users, u \in A, NEW r
  PROVE  Works(s, On(s, u, r), A)
BY DEF Works, Shaped, SameHoldings, On, Marked, Liquidated

LEMMA MarketWorks ==
  ASSUME NEW A, NEW s, Shaped(s), NEW m
  PROVE  Works(s, [s EXCEPT !.m = m], A)
BY DEF Works, Shaped, SameHoldings, Marked, Liquidated

LEMMA CancelWorks ==
  ASSUME NEW A, NEW s, Shaped(s), NEW u \in Users, u \in A
  PROVE  Works(s, cancel_orders(s, u), A)
BY DEF Works, Shaped, SameHoldings, cancel_orders, Marked, Liquidated

LEMMA EnterWorks ==
  ASSUME NEW A, NEW s, Shaped(s), NEW u \in Users, ~Marked(s, u)
  PROVE  Works(s, enter_liquidation(s, u), A)
BY DEF Works, Shaped, SameHoldings, enter_liquidation, Marked, Liquidated

LEMMA ExitWorks ==
  ASSUME NEW A, NEW s, Shaped(s), NEW u \in Users, ~Marked(s, u)
  PROVE  Works(s, exit_liquidation(s, u), A)
BY DEF Works, Shaped, SameHoldings, exit_liquidation, Marked, Liquidated

LEMMA IncrementWorks ==
  ASSUME NEW A, NEW s, Shaped(s), NEW u \in Users, NEW margin_freed
  PROVE  Works(s, increment_margin_freed(s, u, margin_freed), A)
BY DEF Works, Shaped, SameHoldings, increment_margin_freed, Marked, Liquidated

LEMMA ActiveWorks ==
  ASSUME NEW A, NEW s, Shaped(s), NEW u \in Users
  PROVE  Works(s, update_last_active_slot(s, u), A)
BY DEF Works, Shaped, SameHoldings, update_last_active_slot, Marked, Liquidated

LEMMA UpdateAmmWorks ==
  ASSUME NEW A, NEW s, Shaped(s)
  PROVE  Works(s, update_amm(s), A)
BY DEF Works, Shaped, SameHoldings, update_amm, Marked, Liquidated

LEMMA GiveTokensWorks ==
  ASSUME NEW A, NEW s, Shaped(s), NEW u \in Users, NEW v \in Users, u \in A, v \in A,
         NEW in_market, NEW amount
  PROVE  Works(s, GiveTokens(s, u, v, in_market, amount), A)
BY DEF Works, Shaped, SameHoldings, GiveTokens, Marked, Liquidated

LEMMA CreditWorks ==
  ASSUME NEW A, NEW s, Shaped(s), NEW u \in Users, u \in A, NEW in_market, NEW amount
  PROVE  Works(s, Credit(s, u, in_market, amount), A)
BY DEF Works, Shaped, SameHoldings, Credit, Marked, Liquidated

LEMMA PayFromInsuranceWorks ==
  ASSUME NEW A, NEW s, Shaped(s), NEW in_market, NEW amount
  PROVE  Works(s, PayFromInsurance(s, in_market, amount), A)
BY DEF Works, Shaped, SameHoldings, PayFromInsurance, Marked, Liquidated

(* The operations that handlers compose of them.                           *)
LEMMA GivePnlWorks ==
  ASSUME NEW A, NEW s, Shaped(s), NEW u \in Users, NEW v \in Users, u \in A, v \in A, NEW amount
  PROVE  Works(s, GivePnl(s, u, v, amount), A)
<1> DEFINE given == On(s, v, update_quote_asset_amount(s.m, s.positions[v], amount))
<1>1. Works(s, given, A)
  BY OnWorks
<1> HIDE DEF given
<1>2. Shaped(given)
  BY <1>1 DEF Works
<1>3. Works(given, On(given, u, update_quote_asset_amount(given.m, given.positions[u], -amount)), A)
  BY <1>2, OnWorks
<1> QED
  BY <1>1, <1>3, WorksTwice DEF GivePnl, given

LEMMA BorrowTakenOverWorks ==
  ASSUME NEW A, NEW s, Shaped(s), NEW u \in Users, NEW v \in Users, u \in A, v \in A,
         NEW in_market, NEW amount, NEW if_fee
  PROVE  Works(s, BorrowTakenOver(s, u, v, in_market, amount, if_fee), A)
<1> DEFINE given == GiveTokens(s, v, u, in_market, amount)
           insurance == (amount * if_fee) \div LIQUIDATION_FEE_PRECISION
           taken == [given EXCEPT !.spot[u][in_market] = @ - insurance,
                                  !.pools[in_market].revenue = @ + insurance]
<1>1. Works(s, given, A)
  BY GiveTokensWorks
<1> HIDE DEF given, insurance
<1>2. Works(given, taken, A)
  BY <1>1 DEF Works, Shaped, SameHoldings, Marked, Liquidated
<1> HIDE DEF taken
<1>3. Works(s, taken, A)
  BY <1>1, <1>2, WorksTwice
<1> QED
  BY <1>3 DEF BorrowTakenOver, taken, given, insurance

LEMMA BaseTransferredWorks ==
  ASSUME NEW A, NEW s, Shaped(s), NEW user \in Users, NEW liquidator \in Users,
         user \in A, liquidator \in A, NEW base, NEW if_fee
  PROVE  Works(s, BaseTransferred(s, user, liquidator, base, if_fee), A)
<1> DEFINE value == calculate_base_asset_value_with_oracle_price(base, Price(s))
           direction == PositionDirection(s.positions[user].base_asset_amount)
           fee == (value * perp_liquidator_fee) \div LIQUIDATION_FEE_PRECISION
           insurance == (value * if_fee) \div LIQUIDATION_FEE_PRECISION
           left == Charged(Charged(update_position_and_market(
                                     s.m, s.positions[user],
                                     get_position_delta_for_fill(base, value, Opposite(direction))),
                                   -fee), -insurance)
           closed == On(s, user, left)
           got == Charged(update_position_and_market(
                            closed.m, closed.positions[liquidator],
                            get_position_delta_for_fill(base, value, direction)), fee)
           taken == On(closed, liquidator, got)
           counted == [taken EXCEPT !.m.total_liquidation_fee = @ + insurance]
<1>1. BaseTransferred(s, user, liquidator, base, if_fee) = counted
  BY DEF BaseTransferred
<1> HIDE DEF value, direction, fee, insurance, left, got
<1>2. Works(s, closed, A)
  BY OnWorks
<1> HIDE DEF closed
<1>3. Works(closed, taken, A)
  BY <1>2, OnWorks DEF Works
<1> HIDE DEF taken
<1>4. Works(taken, counted, A)
  BY <1>3 DEF Works, Shaped, SameHoldings, Marked, Liquidated
<1> HIDE DEF counted
<1>5. Works(s, counted, A)
  BY <1>2, <1>3, <1>4, WorksTwice
<1> QED
  BY <1>1, <1>5

LEMMA FundingSettledWorks ==
  ASSUME NEW A, Shaped(s0), NEW user \in Users, NEW liquidator \in Users, user \in A, liquidator \in A
  PROVE  Works(s0, FundingSettled(user, liquidator), A)
<1> DEFINE s == SettledFunding(s0, user)
<1>1. Works(s0, s, A)
  BY OnWorks DEF SettledFunding
<1> HIDE DEF s
<1>2. Shaped(s)
  BY <1>1 DEF Works
<1>3. Works(s, SettledFunding(s, liquidator), A)
  BY <1>2, OnWorks DEF SettledFunding
<1> QED
  BY <1>1, <1>3, WorksTwice DEF FundingSettled, s

LEMMA EnteredWorks ==
  ASSUME NEW A, NEW s, Shaped(s), NEW u \in Users, u \in A, ~Marked(s, u)
  PROVE  Works(s, Entered(s, u), A)
<1> DEFINE t == enter_liquidation(s, u)
<1>1. Works(s, t, A)
  BY EnterWorks
<1> HIDE DEF t
<1>2. Works(t, cancel_orders(t, u), A)
  BY <1>1, CancelWorks DEF Works
<1> QED
  BY <1>1, <1>2, WorksTwice DEF Entered, t

LEMMA WithoutSharesWorks ==
  ASSUME NEW A, NEW s, Shaped(s), NEW u \in Users, u \in A
  PROVE  Works(s, WithoutShares(s, u), A)
BY OnWorks, WorksIdle DEF WithoutShares

(* The common start of every liquidation: whatever was released before,    *)
(* the state that it leaves changed no mark.                               *)
LEMMA LiquidateWorks ==
  ASSUME NEW A, NEW start, Shaped(start), NEW user \in Users, user \in A, ~Marked(start, user),
         NEW released, Works(start, released, A), NEW before
  PROVE  Works(start, Liquidate(start, released, user, before).s, A)
<1> DEFINE after == Maintenance(released, user)
           counted == CountFreed(released, user, before, after)
<1>1. Shaped(released) /\ ~Marked(released, user)
  BY DEF Works
<1>2. Works(released, counted, A)
  BY <1>1, IncrementWorks DEF CountFreed
<1> HIDE DEF after, counted
<1>3. Works(start, counted, A)
  BY <1>2, WorksTwice
<1>4. Shaped(counted) /\ ~Marked(counted, user)
  BY <1>1, <1>2 DEF Works
<1>5. Works(counted, exit_liquidation(counted, user), A)
  BY <1>4, ExitWorks
<1>6. Works(start, exit_liquidation(counted, user), A)
  BY <1>3, <1>5, WorksTwice
<1>7. Works(start, exit_liquidation(start, user), A)
  BY ExitWorks
<1>8. Liquidate(start, released, user, before).s
        \in {released, counted, exit_liquidation(counted, user), exit_liquidation(start, user)}
  BY DEF Liquidate, AfterRelease, counted, after
<1> QED
  BY <1>3, <1>6, <1>7, <1>8

----------------------------------------------------------------------------
(* Steps that set or clear a mark.                                         *)

(* Every takeover ends with a look at what the user has left.              *)
LEMMA AfterTakeoverSound ==
  ASSUME NEW s, Sound(s), NEW u \in Users, ~Marked(s, u), NEW taken, NEW to_cover
  PROVE  Sound(AfterTakeover(s, u, taken, to_cover))
<1>1. Works(s, exit_liquidation(s, u), {u}) /\ Unmarked(s, {u})
  BY ExitWorks DEF Sound, Unmarked
<1>2. Sound(exit_liquidation(s, u))
  BY <1>1, WorksSound
<1>3. CASE is_user_bankrupt(s, u)
  <2> DEFINE t == enter_bankruptcy(s, u)
  <2>1. Shaped(t)
    BY DEF Sound, Shaped, enter_bankruptcy
  <2>2. ~Liquidated(t, u)
    BY DEF Sound, Shaped, enter_bankruptcy, Liquidated
  <2>3. \A v \in Users : SameHoldings(s, t, v)
    BY DEF Sound, Shaped, SameHoldings, enter_bankruptcy
  <2>4. \A v \in Users \ {u} : t.status[v] = s.status[v]
    BY DEF Sound, Shaped, enter_bankruptcy
  <2> HIDE DEF t
  <2>5. \A v \in Users : is_user_bankrupt(t, v) <=> is_user_bankrupt(s, v)
    BY <2>3, BankruptByHoldings
  <2>6. \A v \in Users : MarkedRightly(t, v)
    BY <1>3, <2>2, <2>4, <2>5 DEF Sound, MarkedRightly, Marked, Liquidated
  <2> QED
    BY <1>2, <1>3, <2>1, <2>6 DEF AfterTakeover, Sound, t
<1> QED
  BY <1>2, <1>3 DEF AfterTakeover

(* The resolution of a bankruptcy ends with one too.                       *)
LEMMA ExitIfSolventSound ==
  ASSUME NEW s, NEW t, NEW u \in Users, Sound(s), Works(s, t, {u})
  PROVE  Sound(ExitIfSolvent(t, u))
<1> DEFINE r == exit_bankruptcy(t, u)
<1>1. \A v \in Users \ {u} : MarkedRightly(t, v)
  <2> TAKE v \in Users \ {u}
  <2>1. SameHoldings(s, t, v)
    BY DEF Works
  <2> QED
    BY <2>1, BankruptByHoldings DEF Works, Sound, MarkedRightly
<1>2. Shaped(r)
  BY DEF Works, Shaped, exit_bankruptcy, exit_liquidation
<1>3. ~Marked(r, u)
  BY DEF Works, Shaped, exit_bankruptcy, exit_liquidation, Marked
<1>4. \A v \in Users : SameHoldings(t, r, v)
  BY DEF Works, Shaped, SameHoldings, exit_bankruptcy, exit_liquidation
<1>5. \A v \in Users \ {u} : r.status[v] = t.status[v]
  BY DEF Works, Shaped, exit_bankruptcy, exit_liquidation
<1> HIDE DEF r
<1>6. \A v \in Users : is_user_bankrupt(r, v) <=> is_user_bankrupt(t, v)
  BY <1>4, BankruptByHoldings
<1>7. Sound(r)
  BY <1>1, <1>2, <1>3, <1>5, <1>6 DEF Sound, MarkedRightly, Marked, Liquidated
<1>8. ASSUME is_user_bankrupt(t, u) PROVE Sound(t)
  <2>1. MarkedRightly(t, u)
    BY <1>8 DEF Works, Sound, MarkedRightly
  <2> QED
    BY <2>1, <1>1 DEF Sound, Works
<1> QED
  BY <1>7, <1>8 DEF ExitIfSolvent, r

(* It starts with one, when nobody looked before.                          *)
LEMMA BankruptUserSound ==
  ASSUME NEW s, Sound(s), NEW u \in Users
  PROVE  Sound(BankruptUser(s, u))
<1> DEFINE t == enter_bankruptcy(s, u)
<1>1. Shaped(t) /\ ~Liquidated(t, u)
  BY DEF Sound, Shaped, enter_bankruptcy, Liquidated
<1>2. \A v \in Users : SameHoldings(s, t, v)
  BY DEF Sound, Shaped, SameHoldings, enter_bankruptcy
<1>3. \A v \in Users \ {u} : t.status[v] = s.status[v]
  BY DEF Sound, Shaped, enter_bankruptcy
<1> HIDE DEF t
<1>4. \A v \in Users : is_user_bankrupt(t, v) <=> is_user_bankrupt(s, v)
  BY <1>2, BankruptByHoldings
<1>5. is_user_bankrupt(s, u) => Sound(t)
  BY <1>1, <1>3, <1>4 DEF Sound, MarkedRightly, Marked, Liquidated
<1> QED
  BY <1>5 DEF BankruptUser, t

(* Depositors share a loss; a marked user has no deposit, and its balances *)
(* stay as they are.                                                       *)
LEMMA LowerDepositsSound ==
  ASSUME NEW s, Sound(s), NEW in_market \in SpotMarkets, NEW loss
  PROVE  Sound(LowerDeposits(s, in_market, loss))
<1> DEFINE Left(deposit) == calculate_cumulative_deposit_interest_delta_to_resolve_bankruptcy(
                              deposit, loss, DepositsOf(s, in_market))
           t == LowerDeposits(s, in_market, loss)
<1>1. Shaped(t)
  BY DEF Sound, Shaped, LowerDeposits, SpotMarkets
<1>2. /\ t.positions = s.positions
      /\ t.orders = s.orders
      /\ t.status = s.status
  BY DEF Sound, Shaped, LowerDeposits
<1>3. t.spot = [u \in Users |-> [s.spot[u] EXCEPT ![in_market] = Left(s.spot[u][in_market])]]
  BY DEF Sound, Shaped, LowerDeposits
<1>4. \A v \in Users : /\ t.spot[v][in_market] = Left(s.spot[v][in_market])
                      /\ \A other \in SpotMarkets \ {in_market} :
                           t.spot[v][other] = s.spot[v][other]
  <2> HIDE DEF Left, t
  <2> QED BY <1>3 DEF Sound, Shaped, SpotMarkets
<1>5. \A v \in Users : ~(s.spot[v][in_market] > 0)
                        => Left(s.spot[v][in_market]) = s.spot[v][in_market]
  BY DEF calculate_cumulative_deposit_interest_delta_to_resolve_bankruptcy
<1> HIDE DEF t, Left
<1>6. \A v \in Users : MarkedRightly(t, v)
  <2> SUFFICES ASSUME NEW v \in Users, Marked(t, v)
               PROVE  ~Liquidated(t, v) /\ is_user_bankrupt(t, v)
    BY DEF MarkedRightly
  <2>1. ~Liquidated(t, v) /\ is_user_bankrupt(s, v)
    BY <1>2 DEF Sound, MarkedRightly, Marked, Liquidated
  <2>2. ~(s.spot[v][in_market] > 0)
    BY <2>1 DEF is_user_bankrupt, HasAsset
  <2>3. SameHoldings(s, t, v)
    BY <1>2, <1>4, <1>5, <2>2 DEF SameHoldings, SpotMarkets
  <2> QED
    BY <2>1, <2>3, BankruptByHoldings
<1> QED
  BY <1>1, <1>6 DEF Sound, t

----------------------------------------------------------------------------
(* The handlers.                                                           *)

(* A handler that writes a sound state leaves one.                         *)
LEMMA WriteSound ==
  ASSUME NEW s, Sound(s), Write(s)
  PROVE  Sound(s0)'
<1>1. Shaped(s0)'
  BY DEF Sound, Shaped, Write, s0
<1>2. ASSUME NEW v \in Users, Marked(s0, v)'
      PROVE  (~Liquidated(s0, v) /\ is_user_bankrupt(s0, v))'
  <2>1. Marked(s, v)
    BY <1>2 DEF Marked, Write, s0
  <2>2. ~Liquidated(s, v) /\ is_user_bankrupt(s, v)
    BY <2>1 DEF Sound, MarkedRightly
  <2>3. ~Liquidated(s0, v)'
    BY <2>2 DEF Liquidated, Write, s0
  <2>4. is_user_bankrupt(s0, v)'
    BY <2>2 DEF is_user_bankrupt, HasLiability, HasAsset, Write, s0
  <2> QED
    BY <2>3, <2>4
<1> QED
  BY <1>1, <1>2 DEF Sound, MarkedRightly

(* A takeover: the liquidator keeps its mark, the user is looked at.       *)
LEMMA SettleSound ==
  ASSUME NEW A \in SUBSET Users, Sound(s0), Unmarked(s0, A), NEW s, Works(s0, s, A),
         NEW user \in A, NEW liquidator, NEW shortage, NEW taken, NEW to_cover,
         Settle(s, user, liquidator, shortage, taken, to_cover)
  PROVE  Sound(s0)'
<1>1. PICK margin_freed, counted :
        /\ counted = increment_margin_freed(s, user, margin_freed)
        /\ Takeover(AfterTakeover(counted, user, taken, to_cover), user, margin_freed)
  BY DEF Settle
<1>2. Sound(s) /\ Unmarked(s, A)
  BY WorksSound
<1>3. Works(s, counted, A)
  BY <1>1, <1>2, IncrementWorks DEF Sound
<1>4. Sound(counted) /\ Unmarked(counted, A)
  BY <1>2, <1>3, WorksSound
<1>5. Sound(AfterTakeover(counted, user, taken, to_cover))
  BY <1>4, AfterTakeoverSound DEF Unmarked
<1>6. Write(AfterTakeover(counted, user, taken, to_cover))
  BY <1>1 DEF Takeover
<1> QED
  BY <1>5, <1>6, WriteSound

(* A handler that changes no mark and only what unmarked users hold.       *)
LEMMA DoneSound ==
  ASSUME NEW A \in SUBSET Users, Sound(s0), Unmarked(s0, A), NEW s, Works(s0, s, A), Done(s)
  PROVE  Sound(s0)'
<1>1. Sound(s)
  BY WorksSound
<1> QED
  BY <1>1, WriteSound DEF Done

LEMMA LiquidatePerpSound ==
  ASSUME Sound(s0), NEW user \in Users, NEW liquidator \in Users, NEW max_base,
         LiquidatePerp(user, liquidator, max_base)
  PROVE  Sound(s0)'
<1> DEFINE A == {user, liquidator}
<1>1. PICK start, before :
        /\ start = FundingSettled(user, liquidator)
        /\ MayLiquidate(start, user, liquidator, before)
        /\ \E l \in {Liquidate(start, WithoutShares(update_amm(Entered(start, user)), user),
                              user, before)} :
             IF l.over THEN Done(l.s) ELSE TakeOverBase(l.s, l.calc, user, liquidator, max_base)
  BY DEF LiquidatePerp
<1> DEFINE entered == Entered(start, user)
           updated == update_amm(entered)
           released == WithoutShares(updated, user)
           l == Liquidate(start, released, user, before)
<1>2. A \in SUBSET Users /\ Unmarked(s0, A)
  BY <1>1 DEF MayLiquidate, Unmarked, Marked, s0
<1>3. Works(s0, start, A)
  BY <1>1, FundingSettledWorks DEF Sound
<1>4. Shaped(start) /\ ~Marked(start, user)
  BY <1>2, <1>3 DEF Works, Unmarked
<1>5. Works(start, entered, A)
  BY <1>4, EnteredWorks
<1> HIDE DEF entered
<1>6. Works(entered, updated, A)
  BY <1>5, UpdateAmmWorks DEF Works
<1> HIDE DEF updated
<1>7. Works(updated, released, A)
  BY <1>6, WithoutSharesWorks DEF Works
<1> HIDE DEF released
<1>8. Works(start, released, A)
  BY <1>5, <1>6, <1>7, WorksTwice
<1>9. Works(start, l.s, A)
  BY <1>4, <1>8, LiquidateWorks
<1>10. IF l.over THEN Done(l.s) ELSE TakeOverBase(l.s, l.calc, user, liquidator, max_base)
  BY <1>1 DEF released, updated, entered
<1> HIDE DEF l
<1>11. Works(s0, l.s, A)
  BY <1>3, <1>9, WorksTwice
<1>12. ASSUME Done(l.s) PROVE Sound(s0)'
  BY <1>2, <1>11, <1>12, DoneSound
<1>13. ASSUME TakeOverBase(l.s, l.calc, user, liquidator, max_base), ~Done(l.s) PROVE Sound(s0)'
  <2>1. PICK to_cover, base, if_fee :
          Settle(BaseTransferred(l.s, user, liquidator, base, if_fee), user, liquidator,
                 margin_shortage(l.calc), base, to_cover)
    BY <1>13 DEF TakeOverBase
  <2> DEFINE t == BaseTransferred(l.s, user, liquidator, base, if_fee)
  <2>2. Works(l.s, t, A)
    BY <1>11, BaseTransferredWorks DEF Works
  <2> HIDE DEF t
  <2>3. Works(s0, t, A)
    BY <1>11, <2>2, WorksTwice
  <2>4. Settle(t, user, liquidator, margin_shortage(l.calc), base, to_cover)
    BY <2>1 DEF t
  <2> QED
    BY <1>2, <2>3, <2>4, SettleSound
<1> QED
  BY <1>10, <1>12, <1>13

(* The takeovers of a liability for an asset have the same end.            *)
LEMMA TakeOverSound ==
  ASSUME NEW A \in SUBSET Users, Sound(s0), Unmarked(s0, A), NEW user \in A, NEW liquidator,
         NEW s, Works(s0, s, A), NEW moved, Works(s0, moved, A), NEW transfers,
         TakeOver(s, moved, transfers, user, liquidator)
  PROVE  Sound(s0)'
<1>1. Done(s) \/ Settle(moved, user, liquidator, transfers.shortage, transfers.liability,
                        transfers.to_cover)
  BY DEF TakeOver
<1> QED
  BY <1>1, DoneSound, SettleSound

(* Their start, without shares to give up.                                 *)
LEMMA LiquidateWithoutSharesWorks ==
  ASSUME NEW A \in SUBSET Users, NEW start, Works(s0, start, A), Unmarked(s0, A), NEW user \in A,
         NEW before
  PROVE  Works(s0, LiquidateWithoutShares(start, user, before).s, A)
<1> DEFINE released == Entered(start, user)
<1>1. Shaped(start) /\ ~Marked(start, user)
  BY DEF Works, Unmarked
<1>2. Works(start, released, A)
  BY <1>1, EnteredWorks
<1> HIDE DEF released
<1>3. Works(start, Liquidate(start, released, user, before).s, A)
  BY <1>1, <1>2, LiquidateWorks
<1> QED
  BY <1>3, WorksTwice DEF LiquidateWithoutShares, released

(* Nobody who takes part in a liquidation is marked.                       *)
LEMMA MayLiquidateUnmarked ==
  ASSUME NEW start, NEW user \in Users, NEW liquidator \in Users, NEW before,
         MayLiquidate(start, user, liquidator, before)
  PROVE  /\ {user, liquidator} \in SUBSET Users
         /\ Unmarked(s0, {user, liquidator})
BY DEF MayLiquidate, Unmarked, Marked, s0

LEMMA LiquidateSpotSound ==
  ASSUME Sound(s0), NEW user \in Users, NEW liquidator \in Users, NEW asset_market,
         NEW liability_market, NEW max_transfer,
         LiquidateSpot(user, liquidator, asset_market, liability_market, max_transfer)
  PROVE  Sound(s0)'
<1> DEFINE A == {user, liquidator}
<1>1. PICK before, l :
        /\ MayLiquidate(s0, user, liquidator, before)
        /\ l = LiquidateWithoutShares(s0, user, before)
        /\ IF l.over THEN Done(l.s)
           ELSE TakeOverBorrow(l.s, l.calc, user, liquidator, asset_market, liability_market,
                               max_transfer)
  BY DEF LiquidateSpot
<1>2. A \in SUBSET Users /\ Unmarked(s0, A)
  BY <1>1, MayLiquidateUnmarked
<1>3. Works(s0, s0, A)
  BY WorksIdle DEF Sound
<1>4. Works(s0, l.s, A)
  BY <1>1, <1>2, <1>3, LiquidateWithoutSharesWorks
<1>5. ASSUME TakeOverBorrow(l.s, l.calc, user, liquidator, asset_market, liability_market,
                            max_transfer)
      PROVE  Sound(s0)'
  <2>1. PICK t, repaid, if_fee :
          /\ repaid = BorrowTakenOver(l.s, user, liquidator, liability_market, t.liability, if_fee)
          /\ TakeOver(l.s, GiveTokens(repaid, user, liquidator, asset_market, t.asset), t,
                      user, liquidator)
    BY <1>5 DEF TakeOverBorrow
  <2> DEFINE moved == GiveTokens(repaid, user, liquidator, asset_market, t.asset)
  <2>2. Shaped(l.s)
    BY <1>4 DEF Works
  <2>3. Works(l.s, repaid, A)
    BY <2>1, <2>2, BorrowTakenOverWorks
  <2>4. Shaped(repaid)
    BY <2>3 DEF Works
  <2>5. Works(repaid, moved, A)
    BY <2>4, GiveTokensWorks
  <2> HIDE DEF moved
  <2>6. Works(s0, moved, A)
    BY <1>4, <2>3, <2>5, WorksTwice
  <2>7. TakeOver(l.s, moved, t, user, liquidator)
    BY <2>1 DEF moved
  <2> QED
    BY <1>2, <1>4, <2>6, <2>7, TakeOverSound
<1>6. ASSUME Done(l.s) PROVE Sound(s0)'
  BY <1>2, <1>4, <1>6, DoneSound
<1> QED
  BY <1>1, <1>5, <1>6

LEMMA LiquidateBorrowForPerpPnlSound ==
  ASSUME Sound(s0), NEW user \in Users, NEW liquidator \in Users, NEW in_market, NEW max_transfer,
         LiquidateBorrowForPerpPnl(user, liquidator, in_market, max_transfer)
  PROVE  Sound(s0)'
<1> DEFINE A == {user, liquidator}
<1>1. PICK start, before, l :
        /\ start = FundingSettled(user, liquidator)
        /\ MayLiquidate(start, user, liquidator, before)
        /\ l = LiquidateWithoutShares(start, user, before)
        /\ IF l.over THEN Done(l.s)
           ELSE TakeOverBorrowForPnl(l.s, l.calc, user, liquidator, in_market, max_transfer)
  BY DEF LiquidateBorrowForPerpPnl
<1>2. A \in SUBSET Users /\ Unmarked(s0, A)
  BY <1>1, MayLiquidateUnmarked
<1>3. Works(s0, start, A)
  BY <1>1, FundingSettledWorks DEF Sound
<1>4. Works(s0, l.s, A)
  BY <1>1, <1>2, <1>3, LiquidateWithoutSharesWorks
<1>5. ASSUME TakeOverBorrowForPnl(l.s, l.calc, user, liquidator, in_market, max_transfer)
      PROVE  Sound(s0)'
  <2>1. PICK t, repaid :
          /\ repaid = GiveTokens(l.s, liquidator, user, in_market, t.liability)
          /\ TakeOver(l.s, GivePnl(repaid, user, liquidator, t.asset), t, user, liquidator)
    BY <1>5 DEF TakeOverBorrowForPnl
  <2> DEFINE moved == GivePnl(repaid, user, liquidator, t.asset)
  <2>2. Shaped(l.s)
    BY <1>4 DEF Works
  <2>3. Works(l.s, repaid, A)
    BY <2>1, <2>2, GiveTokensWorks
  <2>4. Shaped(repaid)
    BY <2>3 DEF Works
  <2>5. Works(repaid, moved, A)
    BY <2>4, GivePnlWorks
  <2> HIDE DEF moved
  <2>6. Works(s0, moved, A)
    BY <1>4, <2>3, <2>5, WorksTwice
  <2>7. TakeOver(l.s, moved, t, user, liquidator)
    BY <2>1 DEF moved
  <2> QED
    BY <1>2, <1>4, <2>6, <2>7, TakeOverSound
<1>6. ASSUME Done(l.s) PROVE Sound(s0)'
  BY <1>2, <1>4, <1>6, DoneSound
<1> QED
  BY <1>1, <1>5, <1>6

LEMMA LiquidatePerpPnlForDepositSound ==
  ASSUME Sound(s0), NEW user \in Users, NEW liquidator \in Users, NEW in_market, NEW max_transfer,
         LiquidatePerpPnlForDeposit(user, liquidator, in_market, max_transfer)
  PROVE  Sound(s0)'
<1> DEFINE A == {user, liquidator}
<1>1. PICK start, before, l :
        /\ start = FundingSettled(user, liquidator)
        /\ MayLiquidate(start, user, liquidator, before)
        /\ l = LiquidateWithoutShares(start, user, before)
        /\ IF l.over THEN Done(l.s)
           ELSE TakeOverLoss(l.s, l.calc, user, liquidator, in_market, max_transfer)
  BY DEF LiquidatePerpPnlForDeposit
<1>2. A \in SUBSET Users /\ Unmarked(s0, A)
  BY <1>1, MayLiquidateUnmarked
<1>3. Works(s0, start, A)
  BY <1>1, FundingSettledWorks DEF Sound
<1>4. Works(s0, l.s, A)
  BY <1>1, <1>2, <1>3, LiquidateWithoutSharesWorks
<1>5. ASSUME TakeOverLoss(l.s, l.calc, user, liquidator, in_market, max_transfer), ~Done(l.s)
      PROVE  Sound(s0)'
  <2>1. PICK t, paid :
          /\ paid = GiveTokens(l.s, user, liquidator, in_market, t.asset)
          /\ TakeOver(l.s, GivePnl(paid, liquidator, user, t.liability), t, user, liquidator)
    BY <1>5 DEF TakeOverLoss
  <2> DEFINE moved == GivePnl(paid, liquidator, user, t.liability)
  <2>2. Shaped(l.s)
    BY <1>4 DEF Works
  <2>3. Works(l.s, paid, A)
    BY <2>1, <2>2, GiveTokensWorks
  <2>4. Shaped(paid)
    BY <2>3 DEF Works
  <2>5. Works(paid, moved, A)
    BY <2>4, GivePnlWorks
  <2> HIDE DEF moved
  <2>6. Works(s0, moved, A)
    BY <1>4, <2>3, <2>5, WorksTwice
  <2>7. TakeOver(l.s, moved, t, user, liquidator)
    BY <2>1 DEF moved
  <2> QED
    BY <1>2, <1>4, <2>6, <2>7, TakeOverSound
<1>6. ASSUME Done(l.s) PROVE Sound(s0)'
  BY <1>2, <1>4, <1>6, DoneSound
<1> QED
  BY <1>1, <1>5, <1>6

(* The resolution of a bankruptcy changes what the bankrupt user holds.    *)
LEMMA PerpLossPaidWorks ==
  ASSUME NEW s, Shaped(s), NEW u \in Users, NEW loss, NEW from_insurance, NEW from_fee_pool
  PROVE  Works(s, PerpLossPaid(s, u, loss, from_insurance, from_fee_pool), {u})
<1> DEFINE insured == InsurePnl(s, from_insurance)
           charged == [insured EXCEPT !.m.fee_pool = @ - from_fee_pool]
           shared == [charged EXCEPT !.m = Socialize(@, loss - from_insurance - from_fee_pool)]
<1>1. Works(s, insured, {u})
  BY DEF Works, Shaped, SameHoldings, Marked, Liquidated, InsurePnl, PayFromInsurance
<1> HIDE DEF insured
<1>2. Works(insured, charged, {u})
  BY <1>1 DEF Works, Shaped, SameHoldings, Marked, Liquidated
<1> HIDE DEF charged
<1>3. Works(charged, shared, {u})
  BY <1>2 DEF Works, Shaped, SameHoldings, Marked, Liquidated
<1> HIDE DEF shared
<1>4. Shaped(shared)
  BY <1>3 DEF Works
<1>5. Works(shared, On(shared, u, update_quote_asset_amount(shared.m, shared.positions[u], loss)), {u})
  BY <1>4, OnWorks
<1>6. Works(s, On(shared, u, update_quote_asset_amount(shared.m, shared.positions[u], loss)), {u})
  BY <1>1, <1>2, <1>3, <1>5, WorksTwice
<1> QED
  BY <1>6 DEF PerpLossPaid, shared, charged, insured

LEMMA ResolvePerpBankruptcySound ==
  ASSUME Sound(s0), NEW user \in Users, NEW liquidator, ResolvePerpBankruptcy(user, liquidator)
  PROVE  Sound(s0)'
<1> DEFINE s == BankruptUser(s0, user)
<1>1. PICK loss, from_insurance, from_fee_pool :
        Write(ExitIfSolvent(PerpLossPaid(s, user, loss, from_insurance, from_fee_pool), user))
  BY DEF ResolvePerpBankruptcy
<1> DEFINE paid == PerpLossPaid(s, user, loss, from_insurance, from_fee_pool)
<1>2. Sound(s)
  BY BankruptUserSound
<1> HIDE DEF s
<1>3. Works(s, paid, {user})
  BY <1>2, PerpLossPaidWorks DEF Sound
<1> HIDE DEF paid
<1>4. Sound(ExitIfSolvent(paid, user))
  BY <1>2, <1>3, ExitIfSolventSound
<1>5. Write(ExitIfSolvent(paid, user))
  BY <1>1 DEF paid
<1> QED
  BY <1>4, <1>5, WriteSound

LEMMA ResolveSpotBankruptcySound ==
  ASSUME Sound(s0), NEW user \in Users, NEW liquidator, NEW in_market \in SpotMarkets,
         ResolveSpotBankruptcy(user, liquidator, in_market)
  PROVE  Sound(s0)'
<1> DEFINE s == BankruptUser(s0, user)
           borrow == -spot[user][in_market]
           if_payment == Least(borrow, Insurance(s, in_market))
           insured == PayFromInsurance(s, in_market, if_payment)
           shared == LowerDeposits(insured, in_market, borrow - if_payment)
           paid == [shared EXCEPT !.spot[user][in_market] = 0]
<1>1. Done(ExitIfSolvent(paid, user))
  BY DEF ResolveSpotBankruptcy
<1>2. Sound(s)
  BY BankruptUserSound
<1> HIDE DEF s, borrow, if_payment
<1>3. Works(s, insured, {})
  BY <1>2, PayFromInsuranceWorks DEF Sound
<1> HIDE DEF insured
<1>4. Sound(insured)
  BY <1>2, <1>3, WorksSound DEF Unmarked
<1>5. Sound(shared)
  BY <1>4, LowerDepositsSound
<1> HIDE DEF shared
<1>6. Works(shared, paid, {user})
  BY <1>5 DEF Sound, Works, Shaped, SameHoldings, Marked, Liquidated
<1> HIDE DEF paid
<1>7. Sound(ExitIfSolvent(paid, user))
  BY <1>5, <1>6, ExitIfSolventSound
<1> QED
  BY <1>1, <1>7, WriteSound DEF Done

(* The market draws on the insurance fund: nobody's holdings change.       *)
LEMMA ResolvePerpPnlDeficitSound ==
  ASSUME Sound(s0), ResolvePerpPnlDeficit
  PROVE  Sound(s0)'
<1>1. PICK s, amount :
        /\ s = update_amm(s0)
        /\ Done([InsurePnl(s, amount)
                   EXCEPT !.m.total_fee_minus_distributions = @ + amount,
                          !.m.revenue_withdraw_since_last_settle = @ + amount,
                          !.m.last_revenue_withdraw_ts = slot])
  BY DEF ResolvePerpPnlDeficit
<1> DEFINE insured == InsurePnl(s, amount)
           t == [insured EXCEPT !.m.total_fee_minus_distributions = @ + amount,
                                !.m.revenue_withdraw_since_last_settle = @ + amount,
                                !.m.last_revenue_withdraw_ts = slot]
<1>2. Works(s0, s, {})
  BY <1>1, UpdateAmmWorks DEF Sound
<1>3. Works(s, insured, {})
  BY <1>2 DEF Works, Shaped, SameHoldings, Marked, Liquidated, InsurePnl, PayFromInsurance
<1> HIDE DEF insured
<1>4. Works(insured, t, {})
  BY <1>3 DEF Works, Shaped, SameHoldings, Marked, Liquidated
<1>5. Done(t)
  BY <1>1 DEF insured
<1> HIDE DEF t
<1>6. Works(s0, t, {})
  BY <1>2, <1>3, <1>4, WorksTwice
<1> QED
  BY <1>5, <1>6, DoneSound DEF Unmarked

(* Instructions of an unmarked user about itself.                          *)
LEMMA LeaveIfMarginMetWorks ==
  ASSUME NEW A, NEW s, Shaped(s), NEW u \in Users, ~Marked(s, u)
  PROVE  Works(s, LeaveIfMarginMet(s, u), A)
BY ExitWorks, WorksIdle DEF LeaveIfMarginMet

LEMMA OwnInstructionSound ==
  ASSUME Sound(s0), NEW u \in Users, ~Marked(s0, u), NEW s, Works(s0, s, {u}),
         Done(update_last_active_slot(s, u))
  PROVE  Sound(s0)'
<1> DEFINE t == update_last_active_slot(s, u)
<1>1. Shaped(s)
  BY DEF Works
<1>2. Works(s, t, {u})
  BY <1>1, ActiveWorks
<1>3. Done(t)
  OBVIOUS
<1> HIDE DEF t
<1>4. Works(s0, t, {u}) /\ Unmarked(s0, {u})
  BY <1>2, WorksTwice DEF Unmarked
<1> QED
  BY <1>3, <1>4, DoneSound

LEMMA DepositSound ==
  ASSUME Sound(s0), NEW u \in Users, NEW in_market, NEW amount, Deposit(u, in_market, amount)
  PROVE  Sound(s0)'
<1>1. PICK s : s = Credit(s0, u, in_market, amount)
                 /\ Done(update_last_active_slot(LeaveIfMarginMet(s, u), u))
  BY DEF Deposit
<1>2. ~Marked(s0, u)
  BY DEF Deposit, Marked, s0
<1>3. Works(s0, s, {u})
  BY <1>1, CreditWorks DEF Sound
<1>4. Shaped(s) /\ ~Marked(s, u)
  BY <1>2, <1>3 DEF Works
<1>5. Works(s, LeaveIfMarginMet(s, u), {u})
  BY <1>4, LeaveIfMarginMetWorks
<1>6. Works(s0, LeaveIfMarginMet(s, u), {u})
  BY <1>3, <1>5, WorksTwice
<1> QED
  BY <1>1, <1>2, <1>6, OwnInstructionSound

LEMMA WithdrawSound ==
  ASSUME Sound(s0), NEW u \in Users, NEW in_market, NEW amount, Withdraw(u, in_market, amount)
  PROVE  Sound(s0)'
<1>1. PICK s, t : /\ s = Credit(s0, u, in_market, -amount)
                  /\ t = s \/ t = exit_liquidation(s, u)
                  /\ Done(update_last_active_slot(t, u))
  BY DEF Withdraw
<1>2. ~Marked(s0, u)
  BY DEF Withdraw, Marked, s0
<1>3. Works(s0, s, {u})
  BY <1>1, CreditWorks DEF Sound
<1>4. Shaped(s) /\ ~Marked(s, u)
  BY <1>2, <1>3 DEF Works
<1>5. Works(s, t, {u})
  BY <1>1, <1>4, ExitWorks, WorksIdle
<1>6. Works(s0, t, {u})
  BY <1>3, <1>5, WorksTwice
<1> QED
  BY <1>1, <1>2, <1>6, OwnInstructionSound

LEMMA WithOrderWorks ==
  ASSUME NEW s, Shaped(s), NEW u \in Users, ~Marked(s, u), NEW base, NEW direction
  PROVE  Works(s, WithOrder(s, u, base, direction), {u})
<1> DEFINE left == LeaveIfMarginMet(s, u)
           bids == IF direction = "Long" THEN base ELSE 0
           asks == IF direction = "Short" THEN base ELSE 0
           t == [left EXCEPT !.orders[u] = [open_orders |-> @.open_orders + 1,
                                            open_bids |-> @.open_bids + bids,
                                            open_asks |-> @.open_asks - asks]]
<1>1. Works(s, left, {u})
  BY LeaveIfMarginMetWorks
<1>2. WithOrder(s, u, base, direction) = t
  BY DEF WithOrder
<1> HIDE DEF left, bids, asks
<1>3. Works(left, t, {u})
  BY <1>1 DEF Works, Shaped, SameHoldings, Marked, Liquidated
<1> HIDE DEF t
<1> QED
  BY <1>1, <1>2, <1>3, WorksTwice

LEMMA PlacePerpOrderSound ==
  ASSUME Sound(s0), NEW u \in Users, NEW base, NEW direction, PlacePerpOrder(u, base, direction)
  PROVE  Sound(s0)'
<1>1. ~Marked(s0, u)
  BY DEF PlacePerpOrder, PlaceOrderValid, Marked
<1>2. Works(s0, WithOrder(s0, u, base, direction), {u})
  BY <1>1, WithOrderWorks DEF Sound
<1>3. Done(update_last_active_slot(WithOrder(s0, u, base, direction), u))
  BY DEF PlacePerpOrder
<1> QED
  BY <1>1, <1>2, <1>3, OwnInstructionSound

LEMMA AttemptBurnWorks ==
  ASSUME NEW s, Shaped(s), NEW u \in Users, ~Marked(s, u), NEW burn
  PROVE  Works(s, attempt_burn_user_lp_shares_for_risk_reduction(s, u, burn), {u})
<1> DEFINE on == On(s, u, burn_lp_shares(s.m, s.positions[u], burn.shares, Price(s)))
           burnt == LpBurnt(s, u, burn)
           direction == CloseDirection(burnt, u)
<1>1. Works(s, on, {u})
  BY OnWorks
<1>2. Works(on, burnt, {u})
  <2> HIDE DEF on
  <2>1. burnt = [on EXCEPT !.status[u].last_add_perp_lp_shares_ts = slot]
    BY DEF LpBurnt, on
  <2> HIDE DEF burnt
  <2> QED
    BY <1>1, <2>1 DEF Works, Shaped, SameHoldings, Marked, Liquidated
<1> HIDE DEF on
<1>3. Works(s, burnt, {u})
  BY <1>1, <1>2, WorksTwice
<1>4. attempt_burn_user_lp_shares_for_risk_reduction(s, u, burn)
        \in {s, burnt, WithOrder(burnt, u, burn.close, direction)}
  BY DEF attempt_burn_user_lp_shares_for_risk_reduction, burn_user_lp_shares_for_risk_reduction
<1> HIDE DEF burnt, direction
<1>5. Shaped(burnt) /\ ~Marked(burnt, u)
  BY <1>3 DEF Works
<1>6. Works(burnt, WithOrder(burnt, u, burn.close, direction), {u})
  BY <1>5, WithOrderWorks
<1>7. Works(s, WithOrder(burnt, u, burn.close, direction), {u})
  BY <1>3, <1>6, WorksTwice
<1>8. Works(s, s, {u})
  BY WorksIdle
<1> QED
  BY <1>3, <1>4, <1>7, <1>8

LEMMA PnlSettledWorks ==
  ASSUME NEW s, Shaped(s), NEW u \in Users
  PROVE  Works(s, PnlSettled(s, u), {u})
<1>1. ASSUME NEW settled PROVE Works(s, PnlPaid(s, u, settled), {u})
  <2> DEFINE on == On(s, u, update_quote_asset_amount(settled.q.m, s.positions[u], -settled.pnl))
             t == [on EXCEPT !.pools["quote"].revenue = settled.q.revenue_pool,
                             !.spot[u]["quote"] = @ + settled.pnl]
  <2>1. Works(s, on, {u})
    BY OnWorks
  <2> HIDE DEF on
  <2>2. Works(on, t, {u})
    BY <2>1 DEF Works, Shaped, SameHoldings, Marked, Liquidated
  <2> HIDE DEF t
  <2>3. Works(s, t, {u})
    BY <2>1, <2>2, WorksTwice
  <2> QED
    BY <2>3 DEF PnlPaid, t, on
<1> QED
  BY <1>1 DEF PnlSettled

LEMMA SettlePnlSound ==
  ASSUME Sound(s0), NEW u \in Users, SettlePnl(u)
  PROVE  Sound(s0)'
<1>1. PICK start, s, burn, after, is_lp, burnt, pnl :
        /\ start = update_amm(s0)
        /\ s = On(start, u, settle_funding_payment_then_lp(start.m, positions[u]))
        /\ after = s \/ after = attempt_burn_user_lp_shares_for_risk_reduction(s, u, burn)
        /\ SettleUnlessShort(after, u, is_lp, burnt, pnl)
  BY DEF SettlePnl
<1>2. ~Marked(s0, u)
  BY DEF SettlePnl, Marked, s0
<1>3. Works(s0, start, {u})
  BY <1>1, UpdateAmmWorks DEF Sound
<1>4. Shaped(start)
  BY <1>3 DEF Works
<1>5. Works(start, s, {u})
  BY <1>1, <1>4, OnWorks
<1>6. Works(s0, s, {u})
  BY <1>3, <1>5, WorksTwice
<1>7. Shaped(s) /\ ~Marked(s, u)
  BY <1>2, <1>6 DEF Works
<1>8. Works(s, after, {u})
  BY <1>1, <1>7, AttemptBurnWorks, WorksIdle
<1>9. Works(s0, after, {u})
  BY <1>6, <1>8, WorksTwice
<1>10. Shaped(after)
  BY <1>9 DEF Works
<1>11. Works(s0, PnlSettled(after, u), {u})
  BY <1>9, <1>10, PnlSettledWorks, WorksTwice
<1>12. PICK t : /\ t = after \/ t = PnlSettled(after, u)
                /\ Done(update_last_active_slot(t, u))
  BY <1>1 DEF SettleUnlessShort
<1>13. Works(s0, t, {u})
  BY <1>9, <1>11, <1>12
<1> QED
  BY <1>2, <1>12, <1>13, OwnInstructionSound

(* What moves without anybody's instruction: no holdings, no marks.        *)
LEMMA EnvironmentSound ==
  ASSUME Sound(s0), UNCHANGED <<market, positions, spot, orders, status, pools>>
  PROVE  Sound(s0)'
<1>1. Shaped(s0)'
  BY DEF Sound, Shaped, s0
<1>2. \A v \in Users : MarkedRightly(s0, v)'
  BY DEF Sound, MarkedRightly, Marked, Liquidated, is_user_bankrupt, HasLiability, HasAsset, s0
<1> QED
  BY <1>1, <1>2 DEF Sound

----------------------------------------------------------------------------
(* The start.                                                              *)

(* What users did before left each of them a position.                     *)
HasPositions(s) ==
  "m" \in DOMAIN s /\ "positions" \in DOMAIN s /\ DOMAIN s.positions = Users

LEMMA WithPositions ==
  ASSUME NEW s, HasPositions(s), NEW u, NEW r
  PROVE  HasPositions(With(s, u, r))
BY DEF HasPositions, With

LEMMA FillPositions ==
  ASSUME NEW s, HasPositions(s), NEW f
  PROVE  HasPositions(fulfill_perp_order_with_amm(s, f))
<1> DEFINE delta == FillDelta(s.m, f)
           fees == AmmFees(s.m, f)
           filled == update_position_with_base_asset_amount(s, f)
           earned == [filled EXCEPT !.m = EarnFees(ShareWithLps(@, delta, fees, f.split),
                                                   fees.fee_to_market, fees.user_fee)]
           referred == Reward(earned, f.referrer, fees.referrer_reward)
           charged == PayAndBreakEven(referred, f.taker, -fees.user_fee)
           rebated == PayAndBreakEven(charged, f.taker, fees.maker_rebate)
<1>1. FillWithFees(s, f, delta, fees) = Reward(rebated, f.filler, fees.filler_reward)
  BY DEF FillWithFees
<1> HIDE DEF delta, fees
<1>2. HasPositions(filled)
  BY DEF update_position_with_base_asset_amount, HasPositions, With
<1> HIDE DEF filled
<1>3. HasPositions(earned)
  BY <1>2 DEF HasPositions
<1> HIDE DEF earned
<1>4. HasPositions(referred)
  BY <1>3, WithPositions DEF Reward, Pay
<1> HIDE DEF referred
<1>5. HasPositions(charged)
  BY <1>4, WithPositions DEF PayAndBreakEven
<1> HIDE DEF charged
<1>6. HasPositions(rebated)
  BY <1>5, WithPositions DEF PayAndBreakEven
<1> HIDE DEF rebated
<1>7. HasPositions(Reward(rebated, f.filler, fees.filler_reward))
  BY <1>6, WithPositions DEF Reward, Pay
<1> QED
  BY <1>1, <1>7 DEF fulfill_perp_order_with_amm, delta, fees

LEMMA PreparedPositions ==
  ASSUME NEW setup, NEW u, NEW other
  PROVE  HasPositions(Prepared(setup, u, other))
<1>1. HasPositions(Opened(setup, u))
  BY DEF HasPositions, Opened
<1>2. ASSUME NEW s, HasPositions(s), NEW v, NEW base
      PROVE  HasPositions(Bought(s, v, base))
  <2>1. HasPositions(SettleFundingThenLp(s, v))
    BY <1>2, WithPositions DEF SettleFundingThenLp
  <2> QED
    BY <1>2, <2>1, FillPositions DEF Bought
<1>3. ASSUME NEW s, HasPositions(s), NEW v, NEW w, NEW pnl
      PROVE  HasPositions(Traded(s, v, w, pnl))
  <2>1. HasPositions(Pay(s, v, pnl))
    BY <1>3, WithPositions DEF Pay
  <2>2. HasPositions(Pay(Pay(s, v, pnl), w, -pnl))
    BY <2>1, WithPositions DEF Pay
  <2> QED
    BY <1>3, <2>2 DEF Traded
<1>4. ASSUME NEW s, HasPositions(s), NEW price
      PROVE  HasPositions(Revalued(s, price))
  BY <1>4 DEF HasPositions, Revalued
<1> QED
  BY <1>1, <1>2, <1>3, <1>4 DEF Prepared

LEMMA InitSound ==
  ASSUME Init
  PROVE  Sound(s0)
<1>1. PICK setup \in Setups, u \in Users, other \in Users :
        /\ market = Starts(setup, u, other).m
        /\ positions = Starts(setup, u, other).positions
        /\ spot = Starts(setup, u, other).spot
        /\ orders = Starts(setup, u, other).orders
        /\ status = Starts(setup, u, other).status
  BY DEF Init
<1>2. DOMAIN positions = Users
  BY <1>1, PreparedPositions DEF Starts, StartsWith, HasPositions
<1>3. spot = [v \in Users |-> IF v = u THEN setup.u ELSE setup.other]
  BY <1>1 DEF Starts, StartsWith
<1>4. orders = [v \in Users |-> NoOrders] /\ status = [v \in Users |-> HealthyUser]
  BY <1>1 DEF Starts, StartsWith
<1>5. {setup.u, setup.other} \subseteq [SpotMarkets -> Int]
  BY SetupsAssumption
<1>6. \A v \in Users : "quote" \in DOMAIN spot[v] /\ "asset" \in DOMAIN spot[v]
  BY <1>3, <1>5 DEF SpotMarkets
<1>7. Shaped(s0)
  BY <1>2, <1>3, <1>4, <1>6 DEF Shaped, s0, HealthyUser
<1>8. \A v \in Users : ~Marked(s0, v)
  BY <1>4 DEF Marked, s0, HealthyUser
<1> QED
  BY <1>7, <1>8 DEF Sound, MarkedRightly

----------------------------------------------------------------------------
(* However many liquidators, depositors and traders there are, in          *)
(* whatever order they act and however prices move: a user is never both   *)
(* being liquidated and bankrupt, and one that is marked bankrupt owes and *)
(* has nothing (state/user.rs enter_bankruptcy, exit_bankruptcy).          *)
THEOREM StatusAlwaysCoherent == Spec => []StatusCoherent
<1>1. Init => Sound(s0)
  BY InitSound
<1>2. ASSUME Sound(s0), [Next]_vars
      PROVE  Sound(s0)'
  <2>1. CASE UNCHANGED vars
    BY <1>2, <2>1, EnvironmentSound DEF vars
  <2>2. CASE \E user, liquidator \in Users, max_base \in MaxBases :
               LiquidatePerp(user, liquidator, max_base)
    BY <1>2, <2>2, LiquidatePerpSound
  <2>3. CASE \E user, liquidator \in Users, asset_market, liability_market \in SpotMarkets,
                max_transfer \in MaxTransfers :
               LiquidateSpot(user, liquidator, asset_market, liability_market, max_transfer)
    BY <1>2, <2>3, LiquidateSpotSound
  <2>4. CASE \E user, liquidator \in Users, in_market \in SpotMarkets,
                max_transfer \in MaxTransfers :
               LiquidateBorrowForPerpPnl(user, liquidator, in_market, max_transfer)
    BY <1>2, <2>4, LiquidateBorrowForPerpPnlSound
  <2>5. CASE \E user, liquidator \in Users, in_market \in SpotMarkets,
                max_transfer \in MaxTransfers :
               LiquidatePerpPnlForDeposit(user, liquidator, in_market, max_transfer)
    BY <1>2, <2>5, LiquidatePerpPnlForDepositSound
  <2>6. CASE \E user, liquidator \in Users : ResolvePerpBankruptcy(user, liquidator)
    BY <1>2, <2>6, ResolvePerpBankruptcySound
  <2>7. CASE \E user, liquidator \in Users, in_market \in SpotMarkets :
               ResolveSpotBankruptcy(user, liquidator, in_market)
    BY <1>2, <2>7, ResolveSpotBankruptcySound
  <2>8. CASE ResolvePerpPnlDeficit
    BY <1>2, <2>8, ResolvePerpPnlDeficitSound
  <2>9. CASE \E u \in Users, d \in Deposits : Deposit(u, d.in_market, d.amount)
    BY <1>2, <2>9, DepositSound
  <2>10. CASE \E u \in Users, w \in Withdrawals : Withdraw(u, w.in_market, w.amount)
    BY <1>2, <2>10, WithdrawSound
  <2>11. CASE \E u \in Users, o \in NewOrders : PlacePerpOrder(u, o.base, o.direction)
    BY <1>2, <2>11, PlacePerpOrderSound
  <2>12. CASE \E u \in Users : SettlePnl(u)
    BY <1>2, <2>12, SettlePnlSound
  <2>13. CASE \E p \in Prices : PricesMove(p.perp, p.asset)
    BY <1>2, <2>13, EnvironmentSound DEF PricesMove, OthersUnchanged
  <2>14. CASE SlotPasses
    BY <1>2, <2>14, EnvironmentSound DEF SlotPasses, OthersUnchanged
  <2> QED
    BY <1>2, <2>1, <2>2, <2>3, <2>4, <2>5, <2>6, <2>7, <2>8, <2>9, <2>10, <2>11, <2>12, <2>13,
       <2>14 DEF Next
<1>3. Sound(s0) => StatusCoherent
  BY DEF Sound, MarkedRightly, Marked, Liquidated, StatusCoherent, s0
<1> QED
  BY <1>1, <1>2, <1>3, PTL DEF Spec
=============================================================================
