--------------------------- MODULE SpotMarketProofs ---------------------------
(***************************************************************************)
(* What holds of a spot market for any number of users and pools, any      *)
(* precisions, rates and amounts: its ledger is conserved and its deposits *)
(* are covered.                                                            *)
(***************************************************************************)
EXTENDS SpotMarket, SumsProofs

(***************************************************************************)
(* Arithmetic.                                                             *)
(***************************************************************************)

(* Products and quotients of natural numbers are natural numbers.          *)
LEMMA MulNat ==
  ASSUME NEW a \in Nat, NEW b \in Nat
  PROVE  a * b \in Nat
OBVIOUS

LEMMA DivNat ==
  ASSUME NEW a \in Nat, NEW b \in Nat \ {0}
  PROVE  a \div b \in Nat
OBVIOUS

LEMMA CeilDivNat ==
  ASSUME NEW a \in Nat, NEW b \in Nat \ {0}
  PROVE  /\ CeilDiv(a, b) \in Nat
         /\ a > 0 => CeilDiv(a, b) > 0
<1>1. a \div b \in Nat
  BY DivNat
<1>2. CeilDiv(a, b) \in Nat
  BY <1>1 DEF CeilDiv
<1>3. ASSUME a > 0, CeilDiv(a, b) = 0
      PROVE  FALSE
  <2>1. a % b = 0 /\ a \div b = 0
    BY <1>1, <1>3 DEF CeilDiv
  <2>2. a = b * (a \div b) + (a % b)
    OBVIOUS
  <2> QED
    BY <1>3, <2>1, <2>2
<1> QED
  BY <1>2, <1>3

(***************************************************************************)
(* The conversions between tokens and balances.                            *)
(***************************************************************************)

LEMMA InterestType ==
  ASSUME NEW m \in Markets, NEW type \in SpotBalanceType
  PROVE  CumulativeInterest(m, type) \in Nat
BY DEF Markets, CumulativeInterest

LEMMA SpotBalanceNat ==
  ASSUME NEW m \in Markets, NEW type \in SpotBalanceType, NEW tokens \in Nat,
         NEW round_up \in BOOLEAN, CumulativeInterest(m, type) > 0
  PROVE  get_spot_balance(tokens, m, type, round_up) \in Nat
<1> DEFINE interest == CumulativeInterest(m, type)
<1>1. interest \in Nat \ {0}
  BY InterestType
<1>2. tokens * TokenPrecision \in Nat
  BY PrecisionAssumption, MulNat
<1> HIDE DEF interest
<1>3. (tokens * TokenPrecision) \div interest \in Nat
  BY <1>1, <1>2, DivNat
<1> QED
  BY <1>3 DEF get_spot_balance, interest

(* A debt of at least one unit is worth at least one token.                *)
LEMMA TokenAmountNat ==
  ASSUME NEW m \in Markets, NEW type \in SpotBalanceType, NEW balance \in Nat
  PROVE  /\ get_token_amount(balance, m, type) \in Nat
         /\ /\ type = "Borrow"
            /\ m.cumulative_borrow_interest > 0
            /\ get_token_amount(balance, m, type) = 0
            => balance = 0
<1>1. /\ m.cumulative_deposit_interest \in Nat
      /\ m.cumulative_borrow_interest \in Nat
  BY DEF Markets
<1>2. /\ balance * m.cumulative_deposit_interest \in Nat
      /\ balance * m.cumulative_borrow_interest \in Nat
  BY <1>1, MulNat
<1>3. (balance * m.cumulative_deposit_interest) \div TokenPrecision \in Nat
  BY <1>2, PrecisionAssumption, DivNat
<1>4. /\ CeilDiv(balance * m.cumulative_borrow_interest, TokenPrecision) \in Nat
      /\ balance * m.cumulative_borrow_interest > 0
         => CeilDiv(balance * m.cumulative_borrow_interest, TokenPrecision) > 0
  BY <1>2, PrecisionAssumption, CeilDivNat
<1>5. balance > 0 /\ m.cumulative_borrow_interest > 0
      => balance * m.cumulative_borrow_interest > 0
  BY <1>1
<1> QED
  BY <1>3, <1>4, <1>5 DEF get_token_amount, SpotBalanceType

LEMMA TokensOfNat ==
  ASSUME NEW m \in Markets, NEW h \in Holders
  PROVE  /\ TokensOf(m, h) \in Nat
         /\ m.scaled_balance[h] \in Nat
         /\ m.balance_type[h] \in SpotBalanceType
         /\ /\ m.balance_type[h] = "Borrow"
            /\ m.cumulative_borrow_interest > 0
            /\ TokensOf(m, h) = 0
            => m.scaled_balance[h] = 0
<1>1. m.scaled_balance[h] \in Nat /\ m.balance_type[h] \in SpotBalanceType
  BY DEF Markets
<1> QED
  BY <1>1, TokenAmountNat DEF TokensOf

(***************************************************************************)
(* update_spot_balances.                                                   *)
(***************************************************************************)

(* The ledger invariant of a market value.  The totals agree with the      *)
(* holders' balances, deposits are covered, and two facts make that        *)
(* inductive: pools never borrow, and a borrower who owes no token has no  *)
(* balance (which needs a borrow index above zero), so that turning it     *)
(* into a depositor does not turn an old debt into a deposit.              *)
SoundLedger(m) ==
  /\ m \in Markets
  /\ m.cumulative_borrow_interest > 0
  /\ m.deposit_balance + m.borrow_balance = SumOfBalances(m)
  /\ SumOfType(m, "Deposit") <= m.deposit_balance
  /\ \A pool \in Pools : m.balance_type[pool] = "Deposit"

LEMMA ChangeFacts ==
  ASSUME NEW m \in Markets, NEW h \in Holders, NEW tokens \in Nat,
         NEW direction \in SpotBalanceType, NEW leaving \in BOOLEAN,
         m.cumulative_borrow_interest > 0,
         CanUpdate(m, h, tokens, direction, leaving)
  PROVE  LET change == BalanceChange(m, h, tokens, direction, leaving)
         IN  /\ change.removed \in Nat
             /\ change.added \in Nat
             /\ change.flips \in BOOLEAN
             /\ change.removed <= m.scaled_balance[h]
             /\ change.removed <= Total(m, m.balance_type[h])
             /\ change.flips => h \notin Pools
             /\ direction = m.balance_type[h] => change.removed = 0 /\ ~change.flips
             /\ direction # m.balance_type[h] /\ ~change.flips => change.added = 0
             /\ change.flips /\ m.balance_type[h] = "Borrow"
                => change.removed = m.scaled_balance[h]
<1> DEFINE type == m.balance_type[h]
           current == TokensOf(m, h)
           change == BalanceChange(m, h, tokens, direction, leaving)
<1>1. /\ current \in Nat
      /\ m.scaled_balance[h] \in Nat
      /\ type \in SpotBalanceType
      /\ type = "Borrow" /\ current = 0 => m.scaled_balance[h] = 0
  BY TokensOfNat
<1>2. /\ change.removed <= m.scaled_balance[h]
      /\ change.removed <= Total(m, type)
      /\ change.flips => h \notin Pools
  BY DEF CanUpdate
<1>3. CASE direction = type
  <2>1. CumulativeInterest(m, direction) > 0
    BY <1>3 DEF CanUpdate
  <2>2. get_spot_balance(tokens, m, direction, type = "Borrow") \in Nat
    BY <2>1, SpotBalanceNat
  <2>3. change = [ removed |-> 0,
                   added |-> get_spot_balance(tokens, m, direction, type = "Borrow"),
                   flips |-> FALSE ]
    BY <1>3 DEF BalanceChange
  <2> QED
    BY <1>2, <1>3, <2>2, <2>3
<1>4. CASE direction # type
  <2> DEFINE remaining == SaturatingSub(tokens, current)
             partial == get_spot_balance(tokens, m, type, leaving \/ type = "Borrow")
             fresh == get_spot_balance(remaining, m, direction, direction = "Borrow")
  <2>1. remaining \in Nat /\ (remaining > 0 <=> tokens > current)
    BY <1>1 DEF SaturatingSub
  <2>2. current > tokens => partial \in Nat
    <3>1. current > tokens => CumulativeInterest(m, type) > 0
      BY <1>1, <1>4 DEF CanUpdate
    <3> QED
      BY <1>1, <3>1, SpotBalanceNat
  <2>3. remaining > 0 => fresh \in Nat
    <3>1. remaining > 0 => CumulativeInterest(m, direction) > 0
      BY <1>1, <1>4, <2>1 DEF CanUpdate
    <3> QED
      BY <2>1, <3>1, SpotBalanceNat
  <2>4. change = [ removed |-> IF current = 0 THEN 0
                               ELSE IF current > tokens THEN partial
                               ELSE m.scaled_balance[h],
                   added |-> IF remaining > 0 THEN fresh ELSE 0,
                   flips |-> remaining > 0 ]
    BY <1>4 DEF BalanceChange
  <2> HIDE DEF remaining, partial, fresh, change, current, type
  <2>5. /\ change.removed = IF current = 0 THEN 0
                            ELSE IF current > tokens THEN partial
                            ELSE m.scaled_balance[h]
        /\ change.added = IF remaining > 0 THEN fresh ELSE 0
        /\ change.flips = (remaining > 0)
    BY <2>4
  <2>6. change.flips \in BOOLEAN
    BY <2>1, <2>5
  <2>7. change.removed \in Nat
    BY <1>1, <2>2, <2>5
  <2>8. change.added \in Nat /\ (~(remaining > 0) => change.added = 0)
    BY <2>3, <2>5
  <2>9. remaining > 0 /\ type = "Borrow" => change.removed = m.scaled_balance[h]
    BY <1>1, <2>1, <2>5
  <2> QED
    BY <1>2, <1>4, <2>5, <2>6, <2>7, <2>8, <2>9 DEF change, type
<1> QED
  BY <1>3, <1>4

(* update_spot_balances, field by field.                                   *)
LEMMA UpdateFields ==
  ASSUME NEW m \in Markets, NEW h \in Holders, NEW tokens,
         NEW direction, NEW leaving
  PROVE  LET change == BalanceChange(m, h, tokens, direction, leaving)
             type == m.balance_type[h]
             new == update_spot_balances(m, h, tokens, direction, leaving)
         IN  /\ new.scaled_balance = [m.scaled_balance EXCEPT ![h] = (@ - change.removed) + change.added]
             /\ new.balance_type = [m.balance_type EXCEPT ![h] = IF change.flips THEN direction ELSE @]
             /\ new.deposit_balance = m.deposit_balance
                  + ((IF "Deposit" = direction THEN change.added ELSE 0)
                     - (IF "Deposit" = type THEN change.removed ELSE 0))
             /\ new.borrow_balance = m.borrow_balance
                  + ((IF "Borrow" = direction THEN change.added ELSE 0)
                     - (IF "Borrow" = type THEN change.removed ELSE 0))
             /\ new.cumulative_deposit_interest = m.cumulative_deposit_interest
             /\ new.cumulative_borrow_interest = m.cumulative_borrow_interest
             /\ new.deposit_token_twap = m.deposit_token_twap
             /\ new.borrow_token_twap = m.borrow_token_twap
             /\ new.utilization_twap = m.utilization_twap
             /\ new.last_interest_ts = m.last_interest_ts
             /\ new.last_twap_ts = m.last_twap_ts
             /\ /\ new.scaled_balance \in [Holders -> Nat]
                /\ new.balance_type \in [Holders -> SpotBalanceType]
                /\ new.deposit_balance \in Nat
                /\ new.borrow_balance \in Nat
                => new \in Markets
<1> DEFINE change == BalanceChange(m, h, tokens, direction, leaving)
           type == m.balance_type[h]
           A == [m.scaled_balance EXCEPT ![h] = (@ - change.removed) + change.added]
           B == [m.balance_type EXCEPT ![h] = IF change.flips THEN direction ELSE @]
           C == m.deposit_balance + ((IF "Deposit" = direction THEN change.added ELSE 0)
                     - (IF "Deposit" = type THEN change.removed ELSE 0))
           D == m.borrow_balance + ((IF "Borrow" = direction THEN change.added ELSE 0)
                     - (IF "Borrow" = type THEN change.removed ELSE 0))
           new == update_spot_balances(m, h, tokens, direction, leaving)
<1>1. new = [m EXCEPT !.scaled_balance = A, !.balance_type = B,
                      !.deposit_balance = C, !.borrow_balance = D]
  BY DEF update_spot_balances, Markets
<1> HIDE DEF A, B, C, D, new
<1>2. /\ new.scaled_balance = A
      /\ new.balance_type = B
      /\ new.deposit_balance = C
      /\ new.borrow_balance = D
      /\ new.cumulative_deposit_interest = m.cumulative_deposit_interest
      /\ new.cumulative_borrow_interest = m.cumulative_borrow_interest
      /\ new.deposit_token_twap = m.deposit_token_twap
      /\ new.borrow_token_twap = m.borrow_token_twap
      /\ new.utilization_twap = m.utilization_twap
      /\ new.last_interest_ts = m.last_interest_ts
      /\ new.last_twap_ts = m.last_twap_ts
  BY <1>1 DEF Markets
<1>3. /\ A \in [Holders -> Nat]
      /\ B \in [Holders -> SpotBalanceType]
      /\ C \in Nat
      /\ D \in Nat
      => new \in Markets
  BY <1>1 DEF Markets
<1> QED
  BY <1>2, <1>3 DEF A, B, C, D, new, change, type

LEMMA UpdateKeepsIndex ==
  ASSUME NEW m \in Markets, NEW h \in Holders, NEW tokens \in Nat,
         NEW direction \in SpotBalanceType, NEW leaving \in BOOLEAN
  PROVE  update_spot_balances(m, h, tokens, direction, leaving).cumulative_deposit_interest
           = m.cumulative_deposit_interest
BY DEF update_spot_balances, Markets

LEMMA HoldersFinite ==
  /\ IsFiniteSet(Holders)
  /\ RevenuePool \in Holders
  /\ Users \subseteq Holders
  /\ Pools \subseteq Holders
BY HoldersAssumption, FS_Union DEF Holders

LEMMA BalancesOfTypeType ==
  ASSUME NEW m \in Markets
  PROVE  BalancesOfType(m, "Deposit") \in [Holders -> Nat]
BY DEF BalancesOfType, Markets

(* An update keeps the ledger sound.                                       *)
LEMMA UpdatePreserves ==
  ASSUME NEW m, SoundLedger(m), NEW h \in Holders, NEW tokens \in Nat,
         NEW direction \in SpotBalanceType, NEW leaving \in BOOLEAN,
         CanUpdate(m, h, tokens, direction, leaving)
  PROVE  LET new == update_spot_balances(m, h, tokens, direction, leaving)
         IN  /\ SoundLedger(new)
             /\ new.last_interest_ts = m.last_interest_ts
             /\ new.last_twap_ts = m.last_twap_ts
<1> DEFINE change == BalanceChange(m, h, tokens, direction, leaving)
           removed == change.removed
           added == change.added
           flips == change.flips
           type == m.balance_type[h]
           scaled == m.scaled_balance[h]
           new == update_spot_balances(m, h, tokens, direction, leaving)
<1>1. /\ m \in Markets
      /\ m.cumulative_borrow_interest > 0
      /\ m.deposit_balance + m.borrow_balance = SumOf(m.scaled_balance)
      /\ SumOf(BalancesOfType(m, "Deposit")) <= m.deposit_balance
      /\ \A pool \in Pools : m.balance_type[pool] = "Deposit"
  BY DEF SoundLedger, SumOfBalances, SumOfType
<1>2. /\ m.scaled_balance \in [Holders -> Nat]
      /\ m.balance_type \in [Holders -> SpotBalanceType]
      /\ m.deposit_balance \in Nat
      /\ m.borrow_balance \in Nat
      /\ scaled \in Nat
      /\ type \in SpotBalanceType
  BY <1>1 DEF Markets
<1>3. /\ removed \in Nat
      /\ added \in Nat
      /\ flips \in BOOLEAN
      /\ removed <= scaled
      /\ removed <= Total(m, type)
      /\ flips => h \notin Pools
      /\ direction = type => removed = 0 /\ ~flips
      /\ direction # type /\ ~flips => added = 0
      /\ flips /\ type = "Borrow" => removed = scaled
  BY <1>1, ChangeFacts
<1>4. /\ new.scaled_balance = [m.scaled_balance EXCEPT ![h] = (scaled - removed) + added]
      /\ new.balance_type = [m.balance_type EXCEPT ![h] = IF flips THEN direction ELSE type]
      /\ new.deposit_balance = m.deposit_balance + ((IF "Deposit" = direction THEN added ELSE 0)
                                                   - (IF "Deposit" = type THEN removed ELSE 0))
      /\ new.borrow_balance = m.borrow_balance + ((IF "Borrow" = direction THEN added ELSE 0)
                                                 - (IF "Borrow" = type THEN removed ELSE 0))
      /\ new.cumulative_borrow_interest = m.cumulative_borrow_interest
      /\ new.last_interest_ts = m.last_interest_ts
      /\ new.last_twap_ts = m.last_twap_ts
      /\ /\ new.scaled_balance \in [Holders -> Nat]
         /\ new.balance_type \in [Holders -> SpotBalanceType]
         /\ new.deposit_balance \in Nat
         /\ new.borrow_balance \in Nat
         => new \in Markets
  BY <1>1, UpdateFields
<1> HIDE DEF new, change
<1> HIDE DEF removed, added, flips, type, scaled
<1>5. (scaled - removed) + added \in Nat
  BY <1>2, <1>3
<1>6. new.scaled_balance \in [Holders -> Nat] /\ new.balance_type \in [Holders -> SpotBalanceType]
  BY <1>2, <1>3, <1>4, <1>5
<1>7. new.deposit_balance \in Nat /\ new.borrow_balance \in Nat
  BY <1>2, <1>3, <1>4 DEF Total, SpotBalanceType
<1>8. new \in Markets
  BY <1>4, <1>6, <1>7
<1>9. SumOf(new.scaled_balance) = (SumOf(m.scaled_balance) - scaled) + ((scaled - removed) + added)
  BY <1>2, <1>4, <1>5, HoldersFinite, SumUpdate DEF scaled
<1>10. SumOf(m.scaled_balance) \in Nat
  BY <1>2, HoldersFinite, SumType
<1>11. new.deposit_balance + new.borrow_balance = SumOf(new.scaled_balance)
  BY <1>1, <1>2, <1>3, <1>4, <1>9, <1>10 DEF SpotBalanceType
<1> DEFINE f == BalancesOfType(m, "Deposit")
           v == IF new.balance_type[h] = "Deposit" THEN (scaled - removed) + added ELSE 0
<1>12. f \in [Holders -> Nat] /\ v \in Nat /\ f[h] = IF type = "Deposit" THEN scaled ELSE 0
  BY <1>1, <1>5, BalancesOfTypeType DEF BalancesOfType, type, scaled
<1>13. BalancesOfType(new, "Deposit") = [f EXCEPT ![h] = v]
  BY <1>2, <1>4 DEF BalancesOfType
<1>14. new.balance_type[h] = IF flips THEN direction ELSE type
  BY <1>2, <1>4
<1>15. SumOf(f) \in Nat
  BY <1>12, HoldersFinite, SumType
<1>16. SumOf(BalancesOfType(new, "Deposit")) = (SumOf(f) - f[h]) + v
  <2> HIDE DEF f, v
  <2> QED BY <1>12, <1>13, HoldersFinite, SumUpdate
<1>17. SumOf(f) <= m.deposit_balance
  BY <1>1
<1>18. SumOf(BalancesOfType(new, "Deposit")) <= new.deposit_balance
  <2>1. v = IF (IF flips THEN direction ELSE type) = "Deposit" THEN (scaled - removed) + added ELSE 0
    BY <1>14
  <2> HIDE DEF f, v
  <2>2. CASE flips
    BY <1>2, <1>3, <1>4, <1>12, <1>15, <1>16, <1>17, <2>1, <2>2 DEF SpotBalanceType
  <2>3. CASE ~flips
    BY <1>2, <1>3, <1>4, <1>12, <1>15, <1>16, <1>17, <2>1, <2>3 DEF SpotBalanceType
  <2> QED
    BY <1>3, <2>2, <2>3
<1>19. \A pool \in Pools : new.balance_type[pool] = "Deposit"
  BY <1>1, <1>2, <1>3, <1>4, HoldersFinite DEF type
<1> QED
  BY <1>1, <1>4, <1>8, <1>11, <1>18, <1>19 DEF SoundLedger, SumOfBalances, SumOfType, new

(***************************************************************************)
(* The moving averages.                                                    *)
(***************************************************************************)

(* No clock of the market runs ahead.                                      *)
Timely(m, time) ==
  /\ m.last_interest_ts <= time
  /\ m.last_twap_ts <= time

LEMMA WeightedAverageNat ==
  ASSUME NEW a \in Nat, NEW b \in Nat, NEW v \in Nat, NEW w \in Nat
  PROVE  calculate_weighted_average(a, b, v, w) \in Nat
<1> DEFINE bias == IF w <= 1 \/ b * w = a * v THEN 0
                   ELSE IF b * w < a * v THEN -1 ELSE 1
           twap == (a * v + b * w) \div (v + w)
<1>1. bias \in {-1, 0, 1}
  OBVIOUS
<1>2. ASSUME v # 0 PROVE twap \in Nat
  <2>1. a * v \in Nat /\ b * w \in Nat
    BY MulNat
  <2>2. a * v + b * w \in Nat /\ v + w \in Nat \ {0}
    BY <1>2, <2>1
  <2> QED
    BY <2>2, DivNat
<1>3. calculate_weighted_average(a, b, v, w)
        = IF v = 0 THEN b
          ELSE IF w = 0 THEN a
          ELSE IF twap = 0 /\ bias < 0 THEN 0 ELSE twap + bias
  BY DEF calculate_weighted_average
<1> HIDE DEF bias, twap
<1> QED
  BY <1>1, <1>2, <1>3

LEMMA UtilizationNat ==
  ASSUME NEW m \in Markets
  PROVE  /\ DepositTokens(m) \in Nat
         /\ BorrowTokens(m) \in Nat
         /\ Utilization(m) \in Nat
<1>1. m.deposit_balance \in Nat /\ m.borrow_balance \in Nat
  BY DEF Markets
<1>2. DepositTokens(m) \in Nat /\ BorrowTokens(m) \in Nat
  BY <1>1, TokenAmountNat DEF DepositTokens, BorrowTokens, SpotBalanceType
<1>3. BorrowTokens(m) * SPOT_UTILIZATION_PRECISION \in Nat
  BY <1>2, PrecisionAssumption, MulNat
<1>4. DepositTokens(m) # 0
      => (BorrowTokens(m) * SPOT_UTILIZATION_PRECISION) \div DepositTokens(m) \in Nat
  BY <1>2, <1>3, DivNat
<1> QED
  BY <1>2, <1>4, PrecisionAssumption DEF Utilization, calculate_utilization

(* What a change of the indices, averages and clocks keeps of the ledger.  *)
LEMMA LedgerIsBalances ==
  ASSUME NEW m, SoundLedger(m), NEW new \in Markets,
         new.scaled_balance = m.scaled_balance,
         new.balance_type = m.balance_type,
         new.deposit_balance = m.deposit_balance,
         new.borrow_balance = m.borrow_balance,
         new.cumulative_borrow_interest > 0
  PROVE  SoundLedger(new)
<1>1. SumOfBalances(new) = SumOfBalances(m)
  BY DEF SumOfBalances
<1>2. BalancesOfType(new, "Deposit") = BalancesOfType(m, "Deposit")
  BY DEF BalancesOfType
<1> QED
  BY <1>1, <1>2 DEF SoundLedger, SumOfType

LEMMA TwapPreserves ==
  ASSUME NEW m, SoundLedger(m), NEW time \in Nat, Timely(m, time)
  PROVE  LET new == update_spot_market_twap_stats(m, time)
         IN  /\ SoundLedger(new)
             /\ Timely(new, time)
<1> DEFINE since == time - m.last_twap_ts
           start == Larger(1, TwapWindow - since)
           A == calculate_weighted_average(DepositTokens(m), m.deposit_token_twap, since, start)
           B == calculate_weighted_average(BorrowTokens(m), m.borrow_token_twap, since, start)
           C == calculate_weighted_average(Utilization(m), m.utilization_twap, since, start)
           new == update_spot_market_twap_stats(m, time)
<1>1. m \in Markets /\ m.cumulative_borrow_interest > 0
  BY DEF SoundLedger
<1>2. /\ m.last_twap_ts \in Nat
      /\ m.last_interest_ts \in Nat
      /\ m.deposit_token_twap \in Nat
      /\ m.borrow_token_twap \in Nat
      /\ m.utilization_twap \in Nat
  BY <1>1 DEF Markets
<1>3. since \in Nat
  BY <1>2 DEF Timely
<1>4. start \in Nat
  BY <1>3, PrecisionAssumption DEF Larger
<1>5. DepositTokens(m) \in Nat /\ BorrowTokens(m) \in Nat /\ Utilization(m) \in Nat
  BY <1>1, UtilizationNat
<1>6. A \in Nat /\ B \in Nat /\ C \in Nat
  <2> HIDE DEF since, start
  <2> QED BY <1>2, <1>3, <1>4, <1>5, WeightedAverageNat
<1>7. new = [m EXCEPT !.deposit_token_twap = A, !.borrow_token_twap = B,
                      !.utilization_twap = C, !.last_twap_ts = time]
  BY DEF update_spot_market_twap_stats
<1> HIDE DEF A, B, C, new
<1>8. new \in Markets
  BY <1>1, <1>6, <1>7 DEF Markets
<1>9. /\ new.scaled_balance = m.scaled_balance
      /\ new.balance_type = m.balance_type
      /\ new.deposit_balance = m.deposit_balance
      /\ new.borrow_balance = m.borrow_balance
      /\ new.cumulative_borrow_interest = m.cumulative_borrow_interest
      /\ new.last_interest_ts = m.last_interest_ts
      /\ new.last_twap_ts = time
  BY <1>1, <1>7 DEF Markets
<1>10. SoundLedger(new)
  BY <1>1, <1>8, <1>9, LedgerIsBalances
<1> QED
  BY <1>9, <1>10 DEF Timely, new

(***************************************************************************)
(* Interest.                                                               *)
(***************************************************************************)

LEMMA BorrowRateNat ==
  ASSUME NEW u \in Nat
  PROVE  BorrowRate(u) \in Nat
<1> DEFINE P == SPOT_UTILIZATION_PRECISION
           slope == ((max_borrow_rate - optimal_borrow_rate) * P) \div (P - optimal_utilization)
           base == (optimal_borrow_rate * P) \div optimal_utilization
<1>1. /\ P \in Nat \ {0}
      /\ P - optimal_utilization \in Nat \ {0}
      /\ optimal_utilization \in Nat \ {0}
      /\ max_borrow_rate - optimal_borrow_rate \in Nat
      /\ optimal_borrow_rate \in Nat
  BY PrecisionAssumption, RateAssumption
<1>2. /\ (max_borrow_rate - optimal_borrow_rate) * P \in Nat
      /\ optimal_borrow_rate * P \in Nat
  BY <1>1, MulNat
<1>3. slope \in Nat /\ base \in Nat
  BY <1>1, <1>2, DivNat
<1> HIDE DEF slope, base
<1>4. u * base \in Nat
  BY <1>3, MulNat
<1>5. u > optimal_utilization => (u - optimal_utilization) * slope \in Nat
  <2>1. u > optimal_utilization => u - optimal_utilization \in Nat
    BY <1>1
  <2> QED
    BY <2>1, <1>3, MulNat
<1>6. (u * base) \div P \in Nat
  BY <1>1, <1>4, DivNat
<1>7. u > optimal_utilization => ((u - optimal_utilization) * slope) \div P \in Nat
  BY <1>1, <1>5, DivNat
<1>8. BorrowRate(u) = IF u > optimal_utilization
                        THEN optimal_borrow_rate + ((u - optimal_utilization) * slope) \div P
                        ELSE (u * base) \div P
  BY DEF BorrowRate, slope, base
<1> QED
  BY <1>1, <1>6, <1>7, <1>8

LEMMA AccumulatedInterestNat ==
  ASSUME NEW m \in Markets, NEW time \in Nat, Timely(m, time)
  PROVE  LET interest == calculate_accumulated_interest(m, time)
         IN  /\ interest.borrow \in Nat
             /\ interest.deposit \in Nat
             /\ InterestForStakers(interest) \in Nat
<1> DEFINE rate == BorrowRate(Utilization(m)) * (time - m.last_interest_ts)
           lent == (rate * Utilization(m)) \div SPOT_UTILIZATION_PRECISION
           b == (m.cumulative_borrow_interest * rate) \div RatePeriod
           d == (m.cumulative_deposit_interest * lent) \div RatePeriod
           interest == calculate_accumulated_interest(m, time)
<1>1. /\ time - m.last_interest_ts \in Nat
      /\ m.cumulative_borrow_interest \in Nat
      /\ m.cumulative_deposit_interest \in Nat
  BY DEF Markets, Timely
<1>2. Utilization(m) \in Nat /\ BorrowRate(Utilization(m)) \in Nat
  BY UtilizationNat, BorrowRateNat
<1>3. rate \in Nat
  BY <1>1, <1>2, MulNat
<1>4. interest = IF Utilization(m) = 0 THEN [borrow |-> 0, deposit |-> 0]
                                       ELSE [borrow |-> b + 1, deposit |-> d]
  BY DEF calculate_accumulated_interest
<1> HIDE DEF rate, interest
<1>5. rate * Utilization(m) \in Nat
  BY <1>2, <1>3, MulNat
<1>6. lent \in Nat
  BY <1>5, PrecisionAssumption, DivNat
<1> HIDE DEF lent
<1>7. /\ m.cumulative_borrow_interest * rate \in Nat
      /\ m.cumulative_deposit_interest * lent \in Nat
  BY <1>1, <1>3, <1>6, MulNat
<1>8. b \in Nat /\ d \in Nat
  BY <1>7, PrecisionAssumption, DivNat
<1> HIDE DEF b, d
<1>9. interest.borrow \in Nat /\ interest.deposit \in Nat
  BY <1>4, <1>8
<1>10. interest.deposit * total_factor \in Nat
  BY <1>9, RateAssumption, PrecisionAssumption, MulNat
<1>11. InterestForStakers(interest) \in Nat
  BY <1>10, PrecisionAssumption, DivNat DEF InterestForStakers
<1> QED
  BY <1>9, <1>11 DEF interest

(* A deposit is never refused by the ledger: nothing is taken out.         *)
LEMMA CanAdd ==
  ASSUME NEW m \in Markets, NEW h \in Holders, NEW tokens \in Nat,
         m.balance_type[h] = "Deposit", m.cumulative_deposit_interest > 0
  PROVE  CanUpdate(m, h, tokens, "Deposit", FALSE)
<1> DEFINE change == BalanceChange(m, h, tokens, "Deposit", FALSE)
<1>1. change.removed = 0 /\ ~change.flips
  BY DEF BalanceChange
<1>2. m.scaled_balance[h] \in Nat /\ Total(m, "Deposit") \in Nat
  BY DEF Markets, Total
<1> HIDE DEF change
<1>3. change.removed <= m.scaled_balance[h] /\ change.removed <= Total(m, "Deposit")
  BY <1>1, <1>2
<1> QED
  BY <1>1, <1>3 DEF CanUpdate, change, CumulativeInterest

LEMMA AccruePreserves ==
  ASSUME NEW m, SoundLedger(m), NEW time \in Nat, Timely(m, time),
         AccruesInterest(m, time)
  PROVE  LET new == AccrueInterest(m, time)
         IN  /\ SoundLedger(new)
             /\ Timely(new, time)
<1> DEFINE interest == calculate_accumulated_interest(m, time)
           stakers == InterestForStakers(interest)
           grown == [m EXCEPT
                      !.cumulative_deposit_interest = @ + (interest.deposit - stakers),
                      !.cumulative_borrow_interest = @ + interest.borrow,
                      !.last_interest_ts = time]
           revenue == (m.deposit_balance * stakers) \div TokenPrecision
           new == AccrueInterest(m, time)
<1>1. m \in Markets
  BY DEF SoundLedger
<1>2. /\ interest.borrow \in Nat
      /\ interest.deposit \in Nat
      /\ stakers \in Nat
  BY <1>1, AccumulatedInterestNat
<1>3. interest.deposit > stakers
  BY DEF AccruesInterest
<1>4. new = update_spot_balances(grown, RevenuePool, revenue, "Deposit", FALSE)
  BY DEF AccrueInterest
<1>5. /\ m.deposit_balance \in Nat
      /\ m.cumulative_deposit_interest \in Nat
      /\ m.cumulative_borrow_interest \in Nat
      /\ m.cumulative_borrow_interest > 0
      /\ m.balance_type[RevenuePool] = "Deposit"
      /\ m.last_twap_ts <= time
  BY HoldersAssumption DEF SoundLedger, Markets, Timely
<1> HIDE DEF interest, stakers, new
<1>6. m.deposit_balance * stakers \in Nat
  BY <1>2, <1>5, MulNat
<1>7. revenue \in Nat
  BY <1>6, PrecisionAssumption, DivNat
<1>8. /\ m.cumulative_deposit_interest + (interest.deposit - stakers) \in Nat
      /\ m.cumulative_deposit_interest + (interest.deposit - stakers) > 0
      /\ m.cumulative_borrow_interest + interest.borrow \in Nat
      /\ m.cumulative_borrow_interest + interest.borrow > 0
  BY <1>2, <1>3, <1>5
<1>9. /\ grown \in Markets
      /\ grown.scaled_balance = m.scaled_balance
      /\ grown.balance_type = m.balance_type
      /\ grown.deposit_balance = m.deposit_balance
      /\ grown.borrow_balance = m.borrow_balance
      /\ grown.cumulative_borrow_interest > 0
      /\ grown.cumulative_deposit_interest > 0
      /\ grown.last_interest_ts = time
      /\ grown.last_twap_ts = m.last_twap_ts
  BY <1>1, <1>8 DEF Markets
<1> HIDE DEF grown, revenue
<1>10. SoundLedger(grown)
  BY <1>9, LedgerIsBalances
<1>11. CanUpdate(grown, RevenuePool, revenue, "Deposit", FALSE)
  BY <1>5, <1>7, <1>9, CanAdd, HoldersFinite
<1>12. /\ SoundLedger(new)
       /\ new.last_interest_ts = grown.last_interest_ts
       /\ new.last_twap_ts = grown.last_twap_ts
  BY <1>4, <1>7, <1>10, <1>11, UpdatePreserves, HoldersFinite DEF SpotBalanceType
<1> QED
  BY <1>5, <1>9, <1>12 DEF Timely, new

LEMMA InterestPreserves ==
  ASSUME NEW m, SoundLedger(m), NEW time \in Nat, Timely(m, time)
  PROVE  LET new == update_spot_market_cumulative_interest(m, time)
         IN  /\ SoundLedger(new)
             /\ Timely(new, time)
<1> DEFINE accrued == IF AccruesInterest(m, time) THEN AccrueInterest(m, time) ELSE m
<1>1. SoundLedger(accrued) /\ Timely(accrued, time)
  BY AccruePreserves
<1> HIDE DEF accrued
<1>2. LET new == update_spot_market_twap_stats(accrued, time)
      IN  SoundLedger(new) /\ Timely(new, time)
  BY <1>1, TwapPreserves
<1> QED
  BY <1>2 DEF update_spot_market_cumulative_interest, accrued

(***************************************************************************)
(* The operations again, with the clocks: what every instruction is made   *)
(* of keeps the market sound.                                              *)
(***************************************************************************)

Sound(m, time) == SoundLedger(m) /\ Timely(m, time)

LEMMA InterestSound ==
  ASSUME NEW m, NEW time \in Nat, Sound(m, time)
  PROVE  Sound(update_spot_market_cumulative_interest(m, time), time)
BY InterestPreserves DEF Sound

LEMMA UpdateSound ==
  ASSUME NEW m, NEW time, Sound(m, time), NEW h \in Holders, NEW tokens \in Nat,
         NEW direction \in SpotBalanceType, NEW leaving \in BOOLEAN,
         CanUpdate(m, h, tokens, direction, leaving)
  PROVE  Sound(update_spot_balances(m, h, tokens, direction, leaving), time)
BY UpdatePreserves DEF Sound, Timely

LEMMA SoundMarket ==
  ASSUME NEW m, NEW time, Sound(m, time)
  PROVE  m \in Markets
BY DEF Sound, SoundLedger

LEMMA SoundTokens ==
  ASSUME NEW m, NEW time, Sound(m, time), NEW h \in Holders
  PROVE  TokensOf(m, h) \in Nat
BY TokensOfNat DEF Sound, SoundLedger

LEMMA TransferSound ==
  ASSUME NEW m, NEW time, Sound(m, time), NEW from \in Holders, NEW to \in Holders,
         NEW tokens \in Nat, NEW direction \in SpotBalanceType,
         CanTransfer(m, from, to, tokens, direction)
  PROVE  Sound(transfer_spot_balances(m, from, to, tokens, direction), time)
<1> DEFINE first == update_spot_balances(m, from, tokens, direction, FALSE)
<1>1. Opposite(direction) \in SpotBalanceType
  BY DEF Opposite, SpotBalanceType
<1>2. /\ CanUpdate(m, from, tokens, direction, FALSE)
      /\ CanUpdate(first, to, tokens, Opposite(direction), FALSE)
  BY DEF CanTransfer
<1>3. Sound(first, time)
  BY <1>2, UpdateSound
<1> HIDE DEF first
<1>4. Sound(update_spot_balances(first, to, tokens, Opposite(direction), FALSE), time)
  BY <1>1, <1>2, <1>3, UpdateSound
<1> QED
  BY <1>4 DEF transfer_spot_balances, first

LEMMA FeeSound ==
  ASSUME NEW m, NEW time, Sound(m, time), NEW u \in Users, NEW fee \in Nat,
         CanChargeFee(m, u, fee)
  PROVE  Sound(charge_withdraw_fee(m, u, fee), time)
<1> DEFINE first == update_spot_balances(m, RevenuePool, fee, "Deposit", FALSE)
<1>1. /\ CanUpdate(m, RevenuePool, fee, "Deposit", FALSE)
      /\ CanUpdate(first, u, fee, "Borrow", FALSE)
  BY DEF CanChargeFee
<1>2. Sound(first, time)
  BY <1>1, UpdateSound, HoldersFinite DEF SpotBalanceType
<1> HIDE DEF first
<1>3. Sound(update_spot_balances(first, u, fee, "Borrow", FALSE), time)
  BY <1>1, <1>2, UpdateSound, HoldersFinite DEF SpotBalanceType
<1> QED
  BY <1>3 DEF charge_withdraw_fee, first

LEMMA UnitTokensNat ==
  ASSUME NEW m \in Markets, NEW type
  PROVE  UnitTokens(m, type) \in Nat
<1>1. CumulativeInterest(m, type) \in Nat
  BY DEF Markets, CumulativeInterest
<1> QED
  BY <1>1, CeilDivNat, PrecisionAssumption DEF UnitTokens

LEMMA RoundsNat ==
  ASSUME NEW m \in Markets, NEW h, NEW tokens, NEW direction
  PROVE  Rounds(m, h, tokens, direction) \in Nat
BY UnitTokensNat DEF Rounds

LEMMA InterestRoundsNat ==
  ASSUME Sound(mk, now), now \in Nat
  PROVE  /\ InterestRounds \in Nat
         /\ DepositorsClaim(mk) \in Int
         /\ DepositorsClaim(update_spot_market_cumulative_interest(mk, now)) \in Int
         /\ DepositorsClaim(update_spot_market_cumulative_interest(mk, now))
              <= DepositorsClaim(mk) + InterestRounds
<1> DEFINE m == update_spot_market_cumulative_interest(mk, now)
<1>1. mk \in Markets
  BY DEF Sound, SoundLedger
<1>2. m \in Markets
  BY InterestSound DEF Sound, SoundLedger
<1> HIDE DEF m
<1>3. DepositorsClaim(mk) \in Int /\ DepositorsClaim(m) \in Int
  BY <1>1, <1>2, UtilizationNat DEF DepositorsClaim
<1>4. InterestRounds = Larger(0, DepositorsClaim(m) - DepositorsClaim(mk))
  BY DEF InterestRounds, m
<1>5. InterestRounds \in Nat /\ DepositorsClaim(m) <= DepositorsClaim(mk) + InterestRounds
  BY <1>3, <1>4 DEF Larger
<1> QED
  BY <1>3, <1>5 DEF m

LEMMA RevenueNat ==
  ASSUME NEW m \in Markets, NEW has_stakers \in BOOLEAN, insurance_vault \in Nat
  PROVE  RevenueToSettle(m, has_stakers) \in Nat
<1> DEFINE claim == Larger(DepositorsClaim(m), 0)
           available == IF DepositorsClaim(m) < RevenueTokens(m) THEN claim \div 2
                                                                 ELSE RevenueTokens(m)
<1>1. DepositorsClaim(m) \in Int
  BY UtilizationNat DEF DepositorsClaim
<1>2. claim \in Nat
  BY <1>1 DEF Larger
<1>3. m.scaled_balance[RevenuePool] \in Nat
  BY HoldersFinite DEF Markets
<1>4. RevenueTokens(m) \in Nat
  BY <1>3, TokenAmountNat DEF RevenueTokens, SpotBalanceType
<1> HIDE DEF claim
<1>5. claim \div 2 \in Nat
  BY <1>2, DivNat
<1>6. available \in Nat
  BY <1>4, <1>5
<1>7. RevenueToSettle(m, has_stakers)
        = IF has_stakers THEN Smaller(available \div 10, insurance_vault \div APR_PRECISION)
                         ELSE available
  BY DEF RevenueToSettle, claim
<1> HIDE DEF available
<1>8. available \div 10 \in Nat
  BY <1>6, DivNat
<1>9. insurance_vault \div APR_PRECISION \in Nat
  BY MarketAssumption, DivNat
<1> QED
  BY <1>6, <1>7, <1>8, <1>9 DEF Smaller

LEMMA RevenueSound ==
  ASSUME NEW m, NEW time, Sound(m, time), NEW has_stakers \in BOOLEAN,
         insurance_vault \in Nat, CanSettleRevenue(m, has_stakers)
  PROVE  /\ RevenueToSettle(m, has_stakers) \in Nat
         /\ RevenueToSettle(m, has_stakers) <= vault
         /\ Sound(settle_revenue(m, has_stakers), time)
<1>1. RevenueToSettle(m, has_stakers) \in Nat
  BY RevenueNat DEF Sound, SoundLedger
<1>2. /\ CanUpdate(m, RevenuePool, RevenueToSettle(m, has_stakers), "Borrow", FALSE)
      /\ RevenueToSettle(m, has_stakers) <= vault
  BY DEF CanSettleRevenue
<1>3. Sound(settle_revenue(m, has_stakers), time)
  BY <1>1, <1>2, UpdateSound, HoldersFinite DEF settle_revenue, SpotBalanceType
<1> QED
  BY <1>1, <1>2, <1>3

(***************************************************************************)
(* The inductive invariant.                                                *)
(***************************************************************************)

Inv == TypeOK /\ Sound(mk, now)

(* What the instructions have to show of the market: the rest of the type  *)
(* invariant is about the other variables.                                 *)
OthersOK ==
  /\ vault \in Nat
  /\ insurance_vault \in Nat
  /\ now \in Nat
  /\ last_revenue_settle_ts \in Nat
  /\ status \in {"Active", "ReduceOnly", "Settlement"}
  /\ roundings \in Nat
  /\ transactions \in Nat

LEMMA InvParts == Inv => Sound(mk, now) /\ OthersOK
BY DEF Inv, TypeOK, OthersOK

LEMMA InvFromParts == Sound(mk', now') /\ OthersOK' => Inv'
<1> SUFFICES ASSUME Sound(mk', now'), OthersOK'
             PROVE  Inv'
  OBVIOUS
<1>1. mk' \in Markets
  BY SoundMarket
<1>2. TypeOK'
  BY <1>1 DEF TypeOK, OthersOK
<1> QED
  BY <1>2 DEF Inv

LEMMA InitInv == Init => Inv
<1> SUFFICES ASSUME Init PROVE Inv
  OBVIOUS
<1>1. EmptyMarket \in Markets
  BY PrecisionAssumption DEF EmptyMarket, Markets, SpotBalanceType
<1>2. SumOfBalances(EmptyMarket) = 0
  BY SumZero DEF SumOfBalances, EmptyMarket
<1>3. BalancesOfType(EmptyMarket, "Deposit") = [h \in Holders |-> 0]
  BY DEF BalancesOfType, EmptyMarket
<1>4. SumOfType(EmptyMarket, "Deposit") = 0
  BY <1>3, SumZero DEF SumOfType
<1>5. SoundLedger(EmptyMarket)
  BY <1>1, <1>2, <1>4, PrecisionAssumption, HoldersFinite DEF SoundLedger, EmptyMarket
<1>6. Timely(EmptyMarket, 0)
  BY DEF Timely, EmptyMarket
<1> QED
  BY <1>1, <1>5, <1>6, MarketAssumption DEF Init, Inv, TypeOK, Sound

LEMMA DepositInv ==
  ASSUME Inv, NEW u \in Users, NEW amount \in Amounts, NEW reduce_only \in BOOLEAN,
         Deposit(u, amount, reduce_only)
  PROVE  Inv'
<1> DEFINE m == update_spot_market_cumulative_interest(mk, now)
           capped == (status = "ReduceOnly" \/ reduce_only) /\ m.balance_type[u] = "Borrow"
           tokens == IF capped THEN Smaller(TokensOf(m, u), amount) ELSE amount
           after == update_spot_balances(m, u, tokens, "Deposit", FALSE)
<1>0. Sound(mk, now) /\ OthersOK
  BY InvParts
<1>1. Sound(m, now)
  BY <1>0, InterestSound DEF OthersOK
<1>2. /\ CanUpdate(m, u, tokens, "Deposit", FALSE)
      /\ mk' = after
      /\ vault' = vault + tokens
      /\ roundings' = roundings + InterestRounds + Rounds(m, u, tokens, "Deposit")
      /\ transactions' = transactions + 1
      /\ UNCHANGED <<insurance_vault, now, last_revenue_settle_ts, status>>
  BY DEF Deposit, CountTransaction
<1>3. amount \in Nat
  BY MarketAssumption
<1> HIDE DEF m
<1>4. TokensOf(m, u) \in Nat
  BY <1>1, SoundTokens, HoldersFinite
<1>5. tokens \in Nat
  BY <1>3, <1>4 DEF Smaller
<1> HIDE DEF tokens
<1>6. Sound(after, now)
  BY <1>1, <1>2, <1>5, UpdateSound, HoldersFinite DEF SpotBalanceType
<1>7. Rounds(m, u, tokens, "Deposit") \in Nat /\ InterestRounds \in Nat
  BY <1>0, <1>1, SoundMarket, RoundsNat, InterestRoundsNat DEF OthersOK
<1>8. Sound(mk', now')
  BY <1>2, <1>6
<1>9. OthersOK'
  BY <1>0, <1>2, <1>5, <1>7 DEF OthersOK
<1> QED
  BY <1>8, <1>9, InvFromParts

LEMMA WithdrawInv ==
  ASSUME Inv, NEW u \in Users, NEW amount \in Amounts, NEW reduce_only \in BOOLEAN,
         NEW pays_fee \in BOOLEAN, NEW net \in BOOLEAN,
         Withdraw(u, amount, reduce_only, pays_fee, net)
  PROVE  Inv'
<1> DEFINE m == update_spot_market_cumulative_interest(mk, now)
           is_reduce_only == reduce_only \/ status = "ReduceOnly"
           asked == IF is_reduce_only THEN Smaller(amount, TokensOf(m, u)) ELSE amount
           fee == IF pays_fee THEN WithdrawFee ELSE 0
           charged == IF pays_fee THEN charge_withdraw_fee(m, u, fee) ELSE m
           tokens == asked - fee
           after == update_spot_balances(charged, u, tokens, "Borrow", TRUE)
<1>0. Sound(mk, now) /\ OthersOK
  BY InvParts
<1>1. Sound(m, now)
  BY <1>0, InterestSound DEF OthersOK
<1>2. /\ pays_fee => CanChargeFee(m, u, fee)
      /\ tokens >= 0
      /\ CanWithdraw(charged, u, tokens, net)
      /\ tokens <= vault
      /\ mk' = after
      /\ vault' = vault - tokens
      /\ transactions' = transactions + 1
      /\ UNCHANGED <<insurance_vault, now, last_revenue_settle_ts, status, roundings>>
  BY DEF Withdraw, CountTransaction
<1>3. CanUpdate(charged, u, tokens, "Borrow", TRUE)
  BY <1>2 DEF CanWithdraw
<1>4. amount \in Nat /\ fee \in Nat
  BY MarketAssumption
<1> HIDE DEF m, fee
<1>5. TokensOf(m, u) \in Nat
  BY <1>1, SoundTokens, HoldersFinite
<1>6. tokens \in Nat
  BY <1>2, <1>4, <1>5 DEF Smaller
<1>7. Sound(charged, now)
  BY <1>1, <1>2, <1>4, FeeSound
<1> HIDE DEF charged, tokens
<1>8. Sound(after, now)
  BY <1>3, <1>6, <1>7, UpdateSound, HoldersFinite DEF SpotBalanceType
<1>9. Sound(mk', now')
  BY <1>2, <1>8
<1>10. OthersOK'
  BY <1>0, <1>2, <1>6 DEF OthersOK
<1> QED
  BY <1>9, <1>10, InvFromParts

LEMMA TransferDepositInv ==
  ASSUME Inv, NEW from \in Users, NEW to \in Users, NEW amount \in Amounts,
         NEW net \in BOOLEAN, TransferDeposit(from, to, amount, net)
  PROVE  Inv'
<1> DEFINE m == update_spot_market_cumulative_interest(mk, now)
           taken == update_spot_balances(m, from, amount, "Borrow", TRUE)
           after == update_spot_balances(taken, to, amount, "Deposit", FALSE)
<1>0. Sound(mk, now) /\ OthersOK
  BY InvParts
<1>1. Sound(m, now)
  BY <1>0, InterestSound DEF OthersOK
<1>2. /\ CanWithdraw(m, from, amount, net)
      /\ CanUpdate(taken, to, amount, "Deposit", FALSE)
      /\ mk' = after
      /\ transactions' = transactions + 1
      /\ UNCHANGED <<vault, insurance_vault, now, last_revenue_settle_ts, status, roundings>>
  BY DEF TransferDeposit, CountTransaction
<1>3. CanUpdate(m, from, amount, "Borrow", TRUE)
  BY <1>2 DEF CanWithdraw
<1>4. amount \in Nat
  BY MarketAssumption
<1> HIDE DEF m
<1>5. Sound(taken, now)
  BY <1>1, <1>3, <1>4, UpdateSound, HoldersFinite DEF SpotBalanceType
<1> HIDE DEF taken
<1>6. Sound(after, now)
  BY <1>2, <1>4, <1>5, UpdateSound, HoldersFinite DEF SpotBalanceType
<1>7. Sound(mk', now')
  BY <1>2, <1>6
<1>8. OthersOK'
  BY <1>0, <1>2 DEF OthersOK
<1> QED
  BY <1>7, <1>8, InvFromParts

LEMMA DepositIntoRevenuePoolInv ==
  ASSUME Inv, NEW amount \in Amounts, DepositIntoRevenuePool(amount)
  PROVE  Inv'
<1> DEFINE after == update_spot_balances(mk, RevenuePool, amount, "Deposit", FALSE)
<1>0. Sound(mk, now) /\ OthersOK
  BY InvParts
<1>1. /\ CanUpdate(mk, RevenuePool, amount, "Deposit", FALSE)
      /\ mk' = after
      /\ vault' = vault + amount
      /\ transactions' = transactions + 1
      /\ UNCHANGED <<insurance_vault, now, last_revenue_settle_ts, status, roundings>>
  BY DEF DepositIntoRevenuePool, CountTransaction
<1>2. amount \in Nat
  BY MarketAssumption
<1>3. Sound(after, now)
  BY <1>1, <1>2, <1>0, UpdateSound, HoldersFinite DEF SpotBalanceType
<1>4. Sound(mk', now')
  BY <1>1, <1>3
<1>5. OthersOK'
  BY <1>0, <1>1, <1>2, <1>4 DEF OthersOK
<1> QED
  BY <1>4, <1>5, InvFromParts

LEMMA ReuseSpotPositionInv ==
  ASSUME Inv, NEW u \in Users, ReuseSpotPosition(u)
  PROVE  Inv'
<1>0. Sound(mk, now) /\ OthersOK
  BY InvParts
<1>1. /\ mk.scaled_balance[u] = 0
      /\ mk' = [mk EXCEPT !.balance_type[u] = "Deposit"]
      /\ transactions' = transactions + 1
      /\ UNCHANGED <<vault, insurance_vault, now, last_revenue_settle_ts, status, roundings>>
  BY DEF ReuseSpotPosition, CountTransaction
<1>2. /\ mk \in Markets
      /\ mk.cumulative_borrow_interest > 0
      /\ mk.deposit_balance + mk.borrow_balance = SumOfBalances(mk)
      /\ SumOfType(mk, "Deposit") <= mk.deposit_balance
      /\ \A pool \in Pools : mk.balance_type[pool] = "Deposit"
      /\ Timely(mk, now)
  BY <1>0 DEF Sound, SoundLedger
<1>3. /\ mk'.scaled_balance = mk.scaled_balance
      /\ mk'.balance_type = [mk.balance_type EXCEPT ![u] = "Deposit"]
      /\ mk'.deposit_balance = mk.deposit_balance
      /\ mk'.borrow_balance = mk.borrow_balance
      /\ mk'.cumulative_borrow_interest = mk.cumulative_borrow_interest
      /\ mk'.last_interest_ts = mk.last_interest_ts
      /\ mk'.last_twap_ts = mk.last_twap_ts
  BY <1>1, <1>2 DEF Markets
<1>4. mk' \in Markets
  BY <1>1, <1>2 DEF Markets, SpotBalanceType
<1>5. SumOfBalances(mk') = SumOfBalances(mk)
  BY <1>3 DEF SumOfBalances
<1>6. BalancesOfType(mk', "Deposit") = BalancesOfType(mk, "Deposit")
  <2>1. mk.balance_type \in [Holders -> SpotBalanceType]
    BY <1>2 DEF Markets
  <2> QED
    BY <1>1, <1>3, <2>1 DEF BalancesOfType
<1>7. \A pool \in Pools : mk'.balance_type[pool] = "Deposit"
  <2>1. mk.balance_type \in [Holders -> SpotBalanceType]
    BY <1>2 DEF Markets
  <2> QED
    BY <1>2, <1>3, <2>1, HoldersFinite
<1>8. SoundLedger(mk')
  BY <1>2, <1>3, <1>4, <1>5, <1>6, <1>7 DEF SoundLedger, SumOfType
<1>9. Timely(mk', now')
  BY <1>1, <1>2, <1>3 DEF Timely
<1>10. Sound(mk', now')
  BY <1>8, <1>9 DEF Sound
<1>11. OthersOK'
  BY <1>0, <1>1 DEF OthersOK
<1> QED
  BY <1>10, <1>11, InvFromParts

LEMMA SettlePnlInv ==
  ASSUME Inv, NEW u \in Users, NEW pool \in Pools, NEW amount \in Amounts,
         NEW direction \in SpotBalanceType, SettlePnl(u, pool, amount, direction)
  PROVE  Inv'
<1> DEFINE m == update_spot_market_cumulative_interest(mk, now)
           paid == update_spot_balances(m, pool, amount, direction, FALSE)
<1>0. Sound(mk, now) /\ OthersOK
  BY InvParts
<1>1. Sound(m, now)
  BY <1>0, InterestSound DEF OthersOK
<1>2. /\ CanTransfer(m, pool, u, amount, direction)
      /\ mk' = transfer_spot_balances(m, pool, u, amount, direction)
      /\ roundings' = roundings + InterestRounds + Rounds(m, pool, amount, direction)
                                 + Rounds(paid, u, amount, Opposite(direction))
      /\ transactions' = transactions + 1
      /\ UNCHANGED <<vault, insurance_vault, now, last_revenue_settle_ts, status>>
  BY DEF SettlePnl, CountTransaction
<1>3. amount \in Nat
  BY MarketAssumption
<1> HIDE DEF m
<1>4. Sound(transfer_spot_balances(m, pool, u, amount, direction), now)
  BY <1>1, <1>2, <1>3, TransferSound, HoldersFinite
<1>5. Sound(paid, now)
  BY <1>1, <1>2, <1>3, UpdateSound, HoldersFinite DEF CanTransfer
<1>6. /\ Rounds(paid, u, amount, Opposite(direction)) \in Nat
      /\ Rounds(m, pool, amount, direction) \in Nat
      /\ InterestRounds \in Nat
  BY <1>0, <1>1, <1>5, SoundMarket, RoundsNat, InterestRoundsNat DEF OthersOK
<1> HIDE DEF paid
<1>7. Sound(mk', now')
  BY <1>2, <1>4
<1>8. OthersOK'
  BY <1>0, <1>2, <1>6 DEF OthersOK
<1> QED
  BY <1>7, <1>8, InvFromParts

LEMMA LiquidateLiabilityInv ==
  ASSUME Inv, NEW u \in Users, NEW liquidator \in Users, NEW amount \in Amounts,
         LiquidateLiability(u, liquidator, amount)
  PROVE  Inv'
<1> DEFINE m == update_spot_market_cumulative_interest(mk, now)
           fee == Smaller(LiquidationFee, amount)
           repaid == update_spot_balances(m, u, amount - fee, "Deposit", FALSE)
           charged == update_spot_balances(repaid, RevenuePool, fee, "Deposit", FALSE)
           after == update_spot_balances(charged, liquidator, amount, "Borrow", FALSE)
<1>0. Sound(mk, now) /\ OthersOK
  BY InvParts
<1>1. Sound(m, now)
  BY <1>0, InterestSound DEF OthersOK
<1>2. /\ CanUpdate(m, u, amount - fee, "Deposit", FALSE)
      /\ CanUpdate(repaid, RevenuePool, fee, "Deposit", FALSE)
      /\ CanUpdate(charged, liquidator, amount, "Borrow", FALSE)
      /\ mk' = after
      /\ roundings' = roundings + InterestRounds + Rounds(m, u, amount - fee, "Deposit")
                                 + Rounds(repaid, RevenuePool, fee, "Deposit")
                                 + Rounds(charged, liquidator, amount, "Borrow")
      /\ transactions' = transactions + 1
      /\ UNCHANGED <<vault, insurance_vault, now, last_revenue_settle_ts, status>>
  BY DEF LiquidateLiability, CountTransaction
<1>3. amount \in Nat /\ fee \in Nat /\ amount - fee \in Nat
  BY MarketAssumption DEF Smaller
<1> HIDE DEF m, fee
<1>4. Sound(repaid, now)
  BY <1>1, <1>2, <1>3, UpdateSound, HoldersFinite DEF SpotBalanceType
<1> HIDE DEF repaid
<1>5. Sound(charged, now)
  BY <1>2, <1>3, <1>4, UpdateSound, HoldersFinite DEF SpotBalanceType
<1> HIDE DEF charged
<1>6. Sound(after, now)
  BY <1>2, <1>3, <1>5, UpdateSound, HoldersFinite DEF SpotBalanceType
<1>7. /\ Rounds(m, u, amount - fee, "Deposit") \in Nat
      /\ Rounds(repaid, RevenuePool, fee, "Deposit") \in Nat
      /\ Rounds(charged, liquidator, amount, "Borrow") \in Nat
      /\ InterestRounds \in Nat
  BY <1>0, <1>1, <1>4, <1>5, SoundMarket, RoundsNat, InterestRoundsNat DEF OthersOK
<1>8. Sound(mk', now')
  BY <1>2, <1>6
<1>9. OthersOK'
  BY <1>0, <1>2, <1>7 DEF OthersOK
<1> QED
  BY <1>8, <1>9, InvFromParts

LEMMA LiquidateAssetInv ==
  ASSUME Inv, NEW u \in Users, NEW liquidator \in Users, NEW amount \in Amounts,
         LiquidateAsset(u, liquidator, amount)
  PROVE  Inv'
<1> DEFINE m == update_spot_market_cumulative_interest(mk, now)
           given == update_spot_balances(m, liquidator, amount, "Deposit", FALSE)
           after == update_spot_balances(given, u, amount, "Borrow", FALSE)
<1>0. Sound(mk, now) /\ OthersOK
  BY InvParts
<1>1. Sound(m, now)
  BY <1>0, InterestSound DEF OthersOK
<1>2. /\ CanUpdate(m, liquidator, amount, "Deposit", FALSE)
      /\ CanUpdate(given, u, amount, "Borrow", FALSE)
      /\ mk' = after
      /\ roundings' = roundings + InterestRounds + Rounds(m, liquidator, amount, "Deposit")
                                 + Rounds(given, u, amount, "Borrow")
      /\ transactions' = transactions + 1
      /\ UNCHANGED <<vault, insurance_vault, now, last_revenue_settle_ts, status>>
  BY DEF LiquidateAsset, CountTransaction
<1>3. amount \in Nat
  BY MarketAssumption
<1> HIDE DEF m
<1>4. Sound(given, now)
  BY <1>1, <1>2, <1>3, UpdateSound, HoldersFinite DEF SpotBalanceType
<1> HIDE DEF given
<1>5. Sound(after, now)
  BY <1>2, <1>3, <1>4, UpdateSound, HoldersFinite DEF SpotBalanceType
<1>6. /\ Rounds(m, liquidator, amount, "Deposit") \in Nat
      /\ Rounds(given, u, amount, "Borrow") \in Nat
      /\ InterestRounds \in Nat
  BY <1>0, <1>1, <1>4, SoundMarket, RoundsNat, InterestRoundsNat DEF OthersOK
<1>7. Sound(mk', now')
  BY <1>2, <1>5
<1>8. OthersOK'
  BY <1>0, <1>2, <1>6 DEF OthersOK
<1> QED
  BY <1>7, <1>8, InvFromParts

LEMMA UpdateCumulativeInterestInv ==
  ASSUME Inv, NEW funding_paused \in BOOLEAN, UpdateCumulativeInterest(funding_paused)
  PROVE  Inv'
<1>0. Sound(mk, now) /\ OthersOK
  BY InvParts
<1>1. /\ Sound(update_spot_market_cumulative_interest(mk, now), now)
      /\ Sound(update_spot_market_twap_stats(mk, now), now)
  BY <1>0, InterestSound, TwapPreserves DEF OthersOK, Sound
<1>2. /\ \/ mk' = update_spot_market_cumulative_interest(mk, now)
         \/ mk' = update_spot_market_twap_stats(mk, now)
      /\ transactions' = transactions + 1
      /\ UNCHANGED <<vault, insurance_vault, now, last_revenue_settle_ts, status, roundings>>
  BY DEF UpdateCumulativeInterest, CountTransaction
<1>3. Sound(mk', now')
  BY <1>1, <1>2
<1>4. OthersOK'
  BY <1>0, <1>2 DEF OthersOK
<1> QED
  BY <1>3, <1>4, InvFromParts

LEMMA SettleRevenueToInsuranceFundInv ==
  ASSUME Inv, NEW has_stakers \in BOOLEAN, SettleRevenueToInsuranceFund(has_stakers)
  PROVE  Inv'
<1> DEFINE m == update_spot_market_cumulative_interest(mk, now)
           settled == RevenueToSettle(m, has_stakers)
<1>0. Sound(mk, now) /\ OthersOK
  BY InvParts
<1>1. Sound(m, now)
  BY <1>0, InterestSound DEF OthersOK
<1>2. /\ CanSettleRevenue(m, has_stakers)
      /\ mk' = settle_revenue(m, has_stakers)
      /\ vault' = vault - settled
      /\ insurance_vault' = insurance_vault + settled
      /\ last_revenue_settle_ts' = now
      /\ transactions' = transactions + 1
      /\ UNCHANGED <<now, status, roundings>>
  BY DEF SettleRevenueToInsuranceFund, CountTransaction
<1> HIDE DEF m
<1>3. /\ settled \in Nat
      /\ settled <= vault
      /\ Sound(settle_revenue(m, has_stakers), now)
  BY <1>0, <1>1, <1>2, RevenueSound DEF OthersOK
<1> HIDE DEF settled
<1>4. Sound(mk', now')
  BY <1>2, <1>3
<1>5. OthersOK'
  BY <1>0, <1>2, <1>3 DEF OthersOK
<1> QED
  BY <1>4, <1>5, InvFromParts

(* Taking a loss out of the deposit index leaves the ledger as it is.      *)
LEMMA SocializedLossSound ==
  ASSUME NEW m, NEW time, Sound(m, time), NEW delta \in Nat,
         delta <= m.cumulative_deposit_interest
  PROVE  Sound([m EXCEPT !.cumulative_deposit_interest = @ - delta], time)
<1> DEFINE new == [m EXCEPT !.cumulative_deposit_interest = @ - delta]
<1>1. m \in Markets /\ SoundLedger(m) /\ Timely(m, time) /\ m.cumulative_borrow_interest > 0
  BY DEF Sound, SoundLedger
<1>2. m.cumulative_deposit_interest - delta \in Nat
  BY <1>1 DEF Markets
<1>3. /\ new \in Markets
      /\ new.scaled_balance = m.scaled_balance
      /\ new.balance_type = m.balance_type
      /\ new.deposit_balance = m.deposit_balance
      /\ new.borrow_balance = m.borrow_balance
      /\ new.cumulative_borrow_interest = m.cumulative_borrow_interest
      /\ new.last_interest_ts = m.last_interest_ts
      /\ new.last_twap_ts = m.last_twap_ts
  BY <1>1, <1>2 DEF Markets
<1> HIDE DEF new
<1>4. SoundLedger(new)
  BY <1>1, <1>3, LedgerIsBalances
<1>5. Timely(new, time)
  BY <1>1, <1>3 DEF Timely
<1> QED
  BY <1>4, <1>5 DEF Sound, new

LEMMA DeltaNat ==
  ASSUME NEW m \in Markets, NEW loss \in Nat
  PROVE  DepositInterestDelta(m, loss) \in Nat
<1>1. DepositTokens(m) \in Nat
  BY UtilizationNat
<1>2. m.cumulative_deposit_interest * loss \in Nat
  BY MulNat DEF Markets
<1>3. DepositTokens(m) # 0
      => CeilDiv(m.cumulative_deposit_interest * loss, DepositTokens(m)) \in Nat
  BY <1>1, <1>2, CeilDivNat
<1> QED
  BY <1>3 DEF DepositInterestDelta

LEMMA ResolveSpotBankruptcyInv ==
  ASSUME Inv, NEW u \in Users, NEW has_stakers \in BOOLEAN,
         ResolveSpotBankruptcy(u, has_stakers)
  PROVE  Inv'
<1> DEFINE accrued == update_spot_market_cumulative_interest(mk, now)
           settled == IF RevenueIsDue THEN RevenueToSettle(accrued, has_stakers) ELSE 0
           m == IF RevenueIsDue THEN settle_revenue(accrued, has_stakers) ELSE mk
           borrow == TokensOf(m, u)
           insurance == insurance_vault + settled
           if_payment == InsurancePayment(borrow, insurance)
           delta == DepositInterestDelta(m, borrow - if_payment)
           closed == update_spot_balances(m, u, borrow, "Deposit", FALSE)
<1>0. Sound(mk, now) /\ OthersOK
  BY InvParts
<1>1. Sound(accrued, now)
  BY <1>0, InterestSound DEF OthersOK
<1>2. /\ RevenueIsDue => CanSettleRevenue(accrued, has_stakers)
      /\ CanUpdate(m, u, borrow, "Deposit", FALSE)
      /\ delta <= m.cumulative_deposit_interest
      /\ mk' = [closed EXCEPT !.cumulative_deposit_interest = @ - delta]
      /\ vault' = (vault - settled) + if_payment
      /\ insurance_vault' = insurance - if_payment
      /\ last_revenue_settle_ts' = IF RevenueIsDue THEN now ELSE last_revenue_settle_ts
      /\ transactions' = transactions + 1
      /\ UNCHANGED <<now, status, roundings>>
  BY DEF ResolveSpotBankruptcy, CountTransaction
<1> HIDE DEF accrued
<1>3. /\ settled \in Nat
      /\ settled <= vault
      /\ Sound(m, now)
  <2>1. CASE RevenueIsDue
    BY <1>0, <1>1, <1>2, <2>1, RevenueSound DEF OthersOK
  <2>2. CASE ~RevenueIsDue
    <3>1. settled = 0 /\ m = mk
      BY <2>2
    <3> HIDE DEF settled, m
    <3> QED
      BY <1>0, <3>1 DEF OthersOK
  <2> QED
    BY <2>1, <2>2
<1> HIDE DEF settled, m
<1>4. borrow \in Nat /\ m \in Markets
  BY <1>3, SoundTokens, SoundMarket, HoldersFinite
<1>5. insurance \in Nat
  BY <1>0, <1>3 DEF OthersOK
<1> HIDE DEF borrow, insurance
<1>6. if_payment \in Nat /\ if_payment <= borrow /\ if_payment <= insurance
  BY <1>4, <1>5 DEF InsurancePayment, Smaller, SaturatingSub
<1> HIDE DEF if_payment
<1>7. borrow - if_payment \in Nat
  BY <1>4, <1>6
<1>8. delta \in Nat
  BY <1>4, <1>7, DeltaNat
<1> HIDE DEF delta
<1>9. Sound(closed, now)
  BY <1>2, <1>3, <1>4, UpdateSound, HoldersFinite DEF SpotBalanceType
<1>10. closed.cumulative_deposit_interest = m.cumulative_deposit_interest
  BY <1>4, UpdateKeepsIndex, HoldersFinite DEF SpotBalanceType
<1> HIDE DEF closed
<1>11. Sound([closed EXCEPT !.cumulative_deposit_interest = @ - delta], now)
  BY <1>2, <1>8, <1>9, <1>10, SocializedLossSound
<1>12. Sound(mk', now')
  BY <1>2, <1>11
<1>13. OthersOK'
  <2>1. vault' \in Nat /\ insurance_vault' \in Nat
    BY <1>0, <1>2, <1>3, <1>5, <1>6 DEF OthersOK
  <2>2. last_revenue_settle_ts' \in Nat
    BY <1>0, <1>2 DEF OthersOK
  <2> QED
    BY <1>0, <1>2, <2>1, <2>2 DEF OthersOK
<1> QED
  BY <1>12, <1>13, InvFromParts

LEMMA TickInv ==
  ASSUME Inv, Tick
  PROVE  Inv'
<1>0. Sound(mk, now) /\ OthersOK
  BY InvParts
<1>1. /\ now' = now + 1
      /\ mk' = mk
      /\ UNCHANGED <<vault, insurance_vault, last_revenue_settle_ts, status, roundings, transactions>>
  BY DEF Tick
<1>2. Timely(mk, now + 1)
  <2>1. mk \in Markets /\ Timely(mk, now)
    BY <1>0 DEF Sound, SoundLedger
  <2>2. mk.last_interest_ts \in Nat /\ mk.last_twap_ts \in Nat
    BY <2>1 DEF Markets
  <2>3. now \in Nat
    BY <1>0 DEF OthersOK
  <2> QED
    BY <2>1, <2>2, <2>3 DEF Timely
<1>3. Sound(mk, now + 1)
  BY <1>0, <1>2 DEF Sound
<1>4. Sound(mk', now')
  BY <1>1, <1>3
<1>5. OthersOK'
  BY <1>0, <1>1 DEF OthersOK
<1> QED
  BY <1>4, <1>5, InvFromParts

LEMMA UpdateStatusInv ==
  ASSUME Inv, NEW new_status \in Statuses, UpdateStatus(new_status)
  PROVE  Inv'
<1>0. Sound(mk, now) /\ OthersOK
  BY InvParts
<1>1. /\ status' = new_status
      /\ transactions' = transactions + 1
      /\ mk' = mk
      /\ now' = now
      /\ UNCHANGED <<vault, insurance_vault, last_revenue_settle_ts, roundings>>
  BY DEF UpdateStatus, CountTransaction
<1>2. Sound(mk', now')
  BY <1>0, <1>1
<1>3. OthersOK'
  BY <1>0, <1>1, MarketAssumption DEF OthersOK
<1> QED
  BY <1>2, <1>3, InvFromParts

LEMMA StutterInv ==
  ASSUME Inv, UNCHANGED vars
  PROVE  Inv'
<1>0. Sound(mk, now) /\ OthersOK
  BY InvParts
<1>1. Sound(mk', now')
  BY <1>0 DEF vars
<1>2. OthersOK'
  BY <1>0 DEF OthersOK, vars
<1> QED
  BY <1>1, <1>2, InvFromParts

(* Every step keeps the invariant: one case for each action.               *)
LEMMA NextInv ==
  ASSUME Inv, [Next]_vars
  PROVE  Inv'
<1>1. CASE Tick
  BY <1>1, TickInv
<1>2. CASE \E u \in Users, amount \in Amounts, reduce_only \in BOOLEAN :
             Deposit(u, amount, reduce_only)
  BY <1>2, DepositInv
<1>3. CASE \E u \in Users, amount \in Amounts, reduce_only, pays_fee, net \in BOOLEAN :
             Withdraw(u, amount, reduce_only, pays_fee, net)
  BY <1>3, WithdrawInv
<1>4. CASE \E from, to \in Users, amount \in Amounts, net \in BOOLEAN :
             TransferDeposit(from, to, amount, net)
  BY <1>4, TransferDepositInv
<1>5. CASE \E amount \in Amounts : DepositIntoRevenuePool(amount)
  BY <1>5, DepositIntoRevenuePoolInv
<1>6. CASE \E u \in Users : ReuseSpotPosition(u)
  BY <1>6, ReuseSpotPositionInv
<1>7. CASE \E u \in Users, pool \in Pools \ {RevenuePool}, amount \in Amounts,
              direction \in SpotBalanceType : SettlePnl(u, pool, amount, direction)
  BY <1>7, SettlePnlInv
<1>8. CASE \E u, liquidator \in Users, amount \in Amounts :
             LiquidateLiability(u, liquidator, amount)
  BY <1>8, LiquidateLiabilityInv
<1>9. CASE \E u, liquidator \in Users, amount \in Amounts :
             LiquidateAsset(u, liquidator, amount)
  BY <1>9, LiquidateAssetInv
<1>10. CASE \E funding_paused \in BOOLEAN : UpdateCumulativeInterest(funding_paused)
  BY <1>10, UpdateCumulativeInterestInv
<1>11. CASE \E has_stakers \in BOOLEAN : SettleRevenueToInsuranceFund(has_stakers)
  BY <1>11, SettleRevenueToInsuranceFundInv
<1>12. CASE \E u \in Users, has_stakers \in BOOLEAN : ResolveSpotBankruptcy(u, has_stakers)
  BY <1>12, ResolveSpotBankruptcyInv
<1>13. CASE \E new_status \in Statuses : UpdateStatus(new_status)
  BY <1>13, UpdateStatusInv
<1>14. CASE UNCHANGED vars
  BY <1>14, StutterInv
<1> QED
  BY <1>1, <1>2, <1>3, <1>4, <1>5, <1>6, <1>7, <1>8, <1>9, <1>10, <1>11, <1>12, <1>13,
     <1>14 DEF Next

(***************************************************************************)
(* The theorems.                                                           *)
(***************************************************************************)

(* The inductive invariant holds in every reachable state.                 *)
THEOREM Invariance == Spec => []Inv
<1>1. Init => Inv
  BY InitInv
<1>2. Inv /\ [Next]_vars => Inv'
  BY NextInv
<1> QED
  BY <1>1, <1>2, PTL DEF Spec

(* No balance, total, average or vault ever becomes negative, whatever     *)
(* instructions are executed in whatever order: every unsigned subtraction *)
(* of the ledger that is reached has passed its check.                     *)
THEOREM TypeCorrect == Spec => []TypeOK
<1>1. Inv => TypeOK
  BY DEF Inv
<1> QED
  BY <1>1, Invariance, PTL

(* The market's totals and the holders' balances always add up to the      *)
(* same: no instruction creates or loses a unit of balance, for any number *)
(* of users and pools (update_spot_balances).                              *)
THEOREM LedgerIsConserved == Spec => []LedgerConserved
<1>1. Inv => LedgerConserved
  BY DEF Inv, Sound, SoundLedger, LedgerConserved
<1> QED
  BY <1>1, Invariance, PTL

(* deposit_balance is never less than what the depositors own together, so *)
(* decrease_spot_balance cannot underflow for one of them.                 *)
THEOREM DepositsAreCovered == Spec => []DepositsCovered
<1>1. Inv => DepositsCovered
  BY DEF Inv, Sound, SoundLedger, DepositsCovered
<1> QED
  BY <1>1, Invariance, PTL

(***************************************************************************)
(* What depositors may claim: how far the conversions are from exact.      *)
(***************************************************************************)

(* What the division that rounds up comes to.                              *)
LEMMA CeilDivBounds ==
  ASSUME NEW a \in Nat, NEW d \in Nat \ {0}
  PROVE  /\ CeilDiv(a, d) \in Nat
         /\ a <= CeilDiv(a, d) * d
         /\ CeilDiv(a, d) * d < a + d
<1> DEFINE q == a \div d
<1>1. q \in Nat /\ q * d <= a /\ a < q * d + d /\ a = q * d + (a % d) /\ a % d \in Nat
  BY DivBounds
<1>2. CeilDiv(a, d) = IF a % d = 0 THEN q ELSE q + 1
  BY DEF CeilDiv
<1> HIDE DEF q
<1>3. (q + 1) * d = q * d + d /\ q * d \in Nat
  BY <1>1
<1>4. CASE a % d = 0
  BY <1>1, <1>2, <1>3, <1>4
<1>5. CASE a % d # 0
  BY <1>1, <1>2, <1>3, <1>5
<1> QED
  BY <1>4, <1>5

(* An amount that grows by at most n divisors has a quotient that grows by *)
(* at most n.                                                              *)
LEMMA FloorMove ==
  ASSUME NEW a \in Nat, NEW b \in Nat, NEW d \in Nat \ {0}, NEW n \in Int, b <= a + n * d
  PROVE  b \div d <= a \div d + n
<1> DEFINE p == a \div d
           q == b \div d
<1>1. p \in Nat /\ a < p * d + d /\ q \in Nat /\ q * d <= b
  BY DivBounds
<1> HIDE DEF p, q
<1>2. ~ p + n + 1 <= q
  <2> SUFFICES ASSUME p + n + 1 <= q PROVE FALSE
    OBVIOUS
  <2>1. (p + n + 1) * d <= q * d
    BY <1>1
  <2>2. (p + n + 1) * d = p * d + n * d + d /\ p * d \in Int /\ n * d \in Int /\ q * d \in Int
    BY <1>1
  <2> QED
    BY <1>1, <2>1, <2>2
<1>3. q <= p + n
  BY <1>1, <1>2
<1> QED
  BY <1>3 DEF p, q

(* One that does not fall by more than that does not fall more when it is  *)
(* rounded up.                                                             *)
LEMMA CeilMove ==
  ASSUME NEW a \in Nat, NEW b \in Nat, NEW d \in Nat \ {0}, NEW n \in Int, a + n * d <= b
  PROVE  CeilDiv(a, d) + n <= CeilDiv(b, d)
<1> DEFINE p == CeilDiv(a, d)
           q == CeilDiv(b, d)
<1>1. p \in Nat /\ p * d < a + d /\ q \in Nat /\ b <= q * d
  BY CeilDivBounds
<1> HIDE DEF p, q
<1>2. ~ q + 1 <= p + n
  <2> SUFFICES ASSUME q + 1 <= p + n PROVE FALSE
    OBVIOUS
  <2>1. (q + 1) * d <= (p + n) * d
    BY <1>1
  <2>2. /\ (q + 1) * d = q * d + d /\ (p + n) * d = p * d + n * d
        /\ p * d \in Int /\ n * d \in Int /\ q * d \in Int
    BY <1>1
  <2> QED
    BY <1>1, <2>1, <2>2
<1>3. p + n <= q
  BY <1>1, <1>2
<1> QED
  BY <1>3 DEF p, q

(* Tokens to units: rounded down, or to more units than the tokens need,   *)
(* unless they do not make one unit.                                       *)
LEMMA UnitsOfTokens ==
  ASSUME NEW m \in Markets, NEW type \in SpotBalanceType, NEW tokens \in Nat,
         CumulativeInterest(m, type) > 0
  PROVE  LET index == CumulativeInterest(m, type)
             down == get_spot_balance(tokens, m, type, FALSE)
             up == get_spot_balance(tokens, m, type, TRUE)
         IN  /\ down \in Nat /\ up \in Nat
             /\ down * index <= tokens * TokenPrecision
             /\ tokens * TokenPrecision < down * index + index
             /\ up # 0 => tokens * TokenPrecision <= up * index
             /\ up = 0 => tokens * TokenPrecision < index
             /\ up * index <= tokens * TokenPrecision + index
<1> DEFINE index == CumulativeInterest(m, type)
           a == tokens * TokenPrecision
           q == a \div index
<1>1. index \in Nat \ {0}
  BY InterestType
<1>2. a \in Nat
  BY PrecisionAssumption, MulNat
<1>3. q \in Nat /\ q * index <= a /\ a < q * index + index
  <2> HIDE DEF index, a
  <2> QED
    BY <1>1, <1>2, DivBounds
<1>4. /\ get_spot_balance(tokens, m, type, FALSE) = q
      /\ get_spot_balance(tokens, m, type, TRUE) = IF q # 0 THEN q + 1 ELSE q
  BY DEF get_spot_balance
<1> HIDE DEF index, a, q
<1>5. (q + 1) * index = q * index + index /\ q * index \in Nat
  BY <1>1, <1>3
<1>6. 0 * index = 0
  BY <1>1
<1> DEFINE up == IF q # 0 THEN q + 1 ELSE q
<1>7. /\ up \in Nat
      /\ up # 0 => a <= up * index
      /\ up = 0 => a < index
      /\ up * index <= a + index
  BY <1>1, <1>2, <1>3, <1>5, <1>6
<1>8. get_spot_balance(tokens, m, type, TRUE) = up /\ get_spot_balance(tokens, m, type, FALSE) = q
  BY <1>4
<1> HIDE DEF up
<1>9. /\ get_spot_balance(tokens, m, type, TRUE) # 0 => a <= get_spot_balance(tokens, m, type, TRUE) * index
      /\ get_spot_balance(tokens, m, type, TRUE) = 0 => a < index
      /\ get_spot_balance(tokens, m, type, TRUE) * index <= a + index
      /\ get_spot_balance(tokens, m, type, TRUE) \in Nat
  BY <1>7, <1>8
<1>10. /\ get_spot_balance(tokens, m, type, FALSE) * index <= a
       /\ a < get_spot_balance(tokens, m, type, FALSE) * index + index
       /\ get_spot_balance(tokens, m, type, FALSE) \in Nat
  BY <1>3, <1>8
<1> QED
  BY <1>9, <1>10, Zenon DEF index, a

(* The worth of a balance in tokens.                                       *)
LEMMA TokensOfBounds ==
  ASSUME NEW m \in Markets, NEW h \in Holders
  PROVE  /\ m.balance_type[h] = "Deposit"
            => TokensOf(m, h) * TokenPrecision
                 <= m.scaled_balance[h] * m.cumulative_deposit_interest
         /\ m.balance_type[h] = "Borrow"
            => m.scaled_balance[h] * m.cumulative_borrow_interest
                 <= TokensOf(m, h) * TokenPrecision
<1> DEFINE x == m.scaled_balance[h] * m.cumulative_deposit_interest
           y == m.scaled_balance[h] * m.cumulative_borrow_interest
<1>1. x \in Nat /\ y \in Nat
  <2>1. /\ m.scaled_balance[h] \in Nat
        /\ m.cumulative_deposit_interest \in Nat
        /\ m.cumulative_borrow_interest \in Nat
    BY DEF Markets
  <2> QED
    BY <2>1, MulNat
<1>2. /\ m.balance_type[h] = "Deposit" => TokensOf(m, h) = x \div TokenPrecision
      /\ m.balance_type[h] = "Borrow" => TokensOf(m, h) = CeilDiv(y, TokenPrecision)
  BY DEF TokensOf, get_token_amount
<1> HIDE DEF x, y
<1>3. (x \div TokenPrecision) * TokenPrecision <= x
  BY <1>1, DivBounds, PrecisionAssumption
<1>4. y <= CeilDiv(y, TokenPrecision) * TokenPrecision
  BY <1>1, CeilDivBounds, PrecisionAssumption
<1> QED
  BY <1>2, <1>3, <1>4 DEF x, y

LEMMA UnitTokensBound ==
  ASSUME NEW m \in Markets, NEW type \in SpotBalanceType
  PROVE  /\ UnitTokens(m, type) \in Nat
         /\ CumulativeInterest(m, type) <= UnitTokens(m, type) * TokenPrecision
BY InterestType, CeilDivBounds, PrecisionAssumption DEF UnitTokens

(* The claims of two markets with the same indices differ by no more       *)
(* tokens than their deposits and borrows do.                              *)
LEMMA ClaimMoves ==
  ASSUME NEW m \in Markets, NEW new \in Markets, NEW x \in Int, NEW y \in Int,
         new.cumulative_deposit_interest = m.cumulative_deposit_interest,
         new.cumulative_borrow_interest = m.cumulative_borrow_interest,
         new.deposit_balance * m.cumulative_deposit_interest
           <= m.deposit_balance * m.cumulative_deposit_interest + x * TokenPrecision,
         m.borrow_balance * m.cumulative_borrow_interest + y * TokenPrecision
           <= new.borrow_balance * m.cumulative_borrow_interest
  PROVE  DepositorsClaim(new) <= DepositorsClaim(m) + (x - y)
<1> DEFINE a == m.deposit_balance * m.cumulative_deposit_interest
           b == new.deposit_balance * m.cumulative_deposit_interest
           c == m.borrow_balance * m.cumulative_borrow_interest
           d == new.borrow_balance * m.cumulative_borrow_interest
<1>1. a \in Nat /\ b \in Nat /\ c \in Nat /\ d \in Nat
  <2>1. /\ m.deposit_balance \in Nat /\ m.borrow_balance \in Nat
        /\ new.deposit_balance \in Nat /\ new.borrow_balance \in Nat
        /\ m.cumulative_deposit_interest \in Nat /\ m.cumulative_borrow_interest \in Nat
    BY DEF Markets
  <2> QED
    BY <2>1, MulNat
<1>2. /\ DepositTokens(m) = a \div TokenPrecision
      /\ DepositTokens(new) = b \div TokenPrecision
      /\ BorrowTokens(m) = CeilDiv(c, TokenPrecision)
      /\ BorrowTokens(new) = CeilDiv(d, TokenPrecision)
  BY DEF DepositTokens, BorrowTokens, get_token_amount
<1>3. b <= a + x * TokenPrecision /\ c + y * TokenPrecision <= d
  OBVIOUS
<1> HIDE DEF a, b, c, d
<1>4. DepositTokens(new) <= DepositTokens(m) + x
  BY <1>1, <1>2, <1>3, FloorMove, PrecisionAssumption
<1>5. BorrowTokens(m) + y <= BorrowTokens(new)
  BY <1>1, <1>2, <1>3, CeilMove, PrecisionAssumption
<1>6. /\ DepositTokens(m) \in Nat /\ BorrowTokens(m) \in Nat
      /\ DepositTokens(new) \in Nat /\ BorrowTokens(new) \in Nat
  BY UtilizationNat
<1> QED
  BY <1>4, <1>5, <1>6 DEF DepositorsClaim

LEMMA UpdateTotals ==
  ASSUME NEW m \in Markets, NEW h \in Holders, NEW tokens, NEW direction, NEW leaving
  PROVE  LET change == BalanceChange(m, h, tokens, direction, leaving)
             type == m.balance_type[h]
             new == update_spot_balances(m, h, tokens, direction, leaving)
         IN  /\ new.deposit_balance = m.deposit_balance
                  + ((IF "Deposit" = direction THEN change.added ELSE 0)
                     - (IF "Deposit" = type THEN change.removed ELSE 0))
             /\ new.borrow_balance = m.borrow_balance
                  + ((IF "Borrow" = direction THEN change.added ELSE 0)
                     - (IF "Borrow" = type THEN change.removed ELSE 0))
             /\ new.cumulative_deposit_interest = m.cumulative_deposit_interest
             /\ new.cumulative_borrow_interest = m.cumulative_borrow_interest
BY DEF update_spot_balances, Markets

(* An update changes what depositors may claim by the tokens it moves, up  *)
(* to the rounding in the holder's favour.                                 *)
LEMMA ClaimUpdate ==
  ASSUME NEW m, SoundLedger(m), NEW h \in Holders, NEW tokens \in Nat,
         NEW direction \in SpotBalanceType, NEW leaving \in BOOLEAN, ~leaving,
         CanUpdate(m, h, tokens, direction, leaving)
  PROVE  DepositorsClaim(update_spot_balances(m, h, tokens, direction, leaving))
           <= DepositorsClaim(m) + (IF direction = "Deposit" THEN tokens ELSE -tokens)
                + Rounds(m, h, tokens, direction)
<1> DEFINE new == update_spot_balances(m, h, tokens, direction, leaving)
           change == BalanceChange(m, h, tokens, direction, leaving)
           type == m.balance_type[h]
           scaled == m.scaled_balance[h]
           current == TokensOf(m, h)
           remaining == SaturatingSub(tokens, current)
           c == m.cumulative_deposit_interest
           k == m.cumulative_borrow_interest
           T == TokenPrecision
           rounds == Rounds(m, h, tokens, direction)
           unit == UnitTokens(m, type)
           small == UnitTokens(m, "Borrow")
<1>1. m \in Markets /\ k > 0
  BY DEF SoundLedger
<1>2. new \in Markets
  BY UpdatePreserves DEF SoundLedger
<1>3. /\ new.deposit_balance = m.deposit_balance
           + ((IF "Deposit" = direction THEN change.added ELSE 0)
              - (IF "Deposit" = type THEN change.removed ELSE 0))
      /\ new.borrow_balance = m.borrow_balance
           + ((IF "Borrow" = direction THEN change.added ELSE 0)
              - (IF "Borrow" = type THEN change.removed ELSE 0))
      /\ new.cumulative_deposit_interest = c
      /\ new.cumulative_borrow_interest = k
  <2>1. m \in Markets
    BY <1>1
  <2> QED
    BY <2>1, UpdateTotals
<1>4. /\ m.deposit_balance \in Nat /\ m.borrow_balance \in Nat /\ c \in Nat /\ k \in Nat \ {0}
      /\ T \in Nat \ {0} /\ scaled \in Nat /\ type \in SpotBalanceType /\ current \in Nat
      /\ type = "Borrow" /\ current = 0 => scaled = 0
  BY <1>1, TokensOfNat, PrecisionAssumption DEF Markets
<1>5. /\ unit \in Nat /\ small \in Nat
      /\ CumulativeInterest(m, type) <= unit * T
      /\ k <= small * T
  BY <1>1, <1>4, UnitTokensBound DEF SpotBalanceType, CumulativeInterest
<1>6. /\ type = "Deposit" => current * T <= scaled * c
      /\ type = "Borrow" => scaled * k <= current * T
  BY <1>1, TokensOfBounds
<1>7. change.removed \in Nat /\ change.added \in Nat
  BY <1>1, ChangeFacts
<1>8. /\ CumulativeInterest(m, "Deposit") = c
      /\ CumulativeInterest(m, "Borrow") = k
  BY DEF CumulativeInterest
<1>9. ASSUME NEW x \in Int, NEW y \in Int,
             new.deposit_balance * c <= m.deposit_balance * c + x * T,
             m.borrow_balance * k + y * T <= new.borrow_balance * k
      PROVE  DepositorsClaim(new) <= DepositorsClaim(m) + (x - y)
  BY <1>1, <1>2, <1>3, <1>9, ClaimMoves
<1>10. /\ DepositorsClaim(m) \in Int /\ DepositorsClaim(new) \in Int
       /\ new.deposit_balance \in Nat /\ new.borrow_balance \in Nat
  <2> HIDE DEF new
  <2> QED
    BY <1>1, <1>2, UtilizationNat DEF DepositorsClaim, Markets
<1>11. remaining \in Nat /\ remaining = IF tokens >= current THEN tokens - current ELSE 0
  BY <1>4 DEF SaturatingSub
<1>12. CASE direction = type /\ type = "Deposit"
  <2>1. change.added = get_spot_balance(tokens, m, "Deposit", FALSE) /\ change.removed = 0
    BY <1>12 DEF BalanceChange
  <2>2. c > 0
    BY <1>8, <1>12 DEF CanUpdate
  <2>3. change.added * c <= tokens * T
    BY <1>1, <1>8, <2>1, <2>2, UnitsOfTokens DEF SpotBalanceType
  <2>4. rounds = 0
    BY <1>12 DEF Rounds
  <2>5. new.deposit_balance = m.deposit_balance + change.added /\ new.borrow_balance = m.borrow_balance
    <3>1. m.deposit_balance \in Nat /\ m.borrow_balance \in Nat /\ change.added \in Nat
      BY <1>4, <1>7
    <3>2. "Deposit" = direction /\ "Deposit" = type /\ ~ "Borrow" = direction /\ ~ "Borrow" = type
      BY <1>12
    <3>3. /\ (IF "Deposit" = direction THEN change.added ELSE 0) = change.added
          /\ (IF "Deposit" = type THEN change.removed ELSE 0) = 0
          /\ (IF "Borrow" = direction THEN change.added ELSE 0) = 0
          /\ (IF "Borrow" = type THEN change.removed ELSE 0) = 0
      BY <2>1, <3>2
    <3>4. /\ new.deposit_balance = m.deposit_balance + (change.added - 0)
          /\ new.borrow_balance = m.borrow_balance + (0 - 0)
      BY <1>3, <3>3
    <3> HIDE DEF new, change, type
    <3> QED
      BY <3>1, <3>4
  <2> HIDE DEF new, change, c, k, T
  <2>6. (m.deposit_balance + change.added) * c = m.deposit_balance * c + change.added * c
    BY <1>4, <1>7
  <2>7. /\ new.deposit_balance * c <= m.deposit_balance * c + tokens * T
        /\ m.borrow_balance * k + 0 * T <= new.borrow_balance * k
    BY <1>4, <1>7, <2>3, <2>5, <2>6
  <2>8. DepositorsClaim(new) <= DepositorsClaim(m) + (tokens - 0)
    BY <1>9, <2>7
  <2> HIDE DEF rounds
  <2>9. DepositorsClaim(new) <= DepositorsClaim(m) + tokens + rounds
    BY <1>10, <2>4, <2>8
  <2> QED
    BY <1>12, <2>9 DEF new, rounds
<1>13. CASE direction = type /\ type = "Borrow"
  <2>1. change.added = get_spot_balance(tokens, m, "Borrow", TRUE) /\ change.removed = 0
    BY <1>13 DEF BalanceChange
  <2>2. /\ change.added # 0 => tokens * T <= change.added * k
        /\ change.added = 0 => tokens * T < k
    BY <1>1, <1>8, <2>1, UnitsOfTokens DEF SpotBalanceType
  <2>3. rounds = IF tokens > 0 /\ change.added = 0 THEN small ELSE 0
    BY <1>13, <2>1 DEF Rounds
  <2>4. new.deposit_balance = m.deposit_balance /\ new.borrow_balance = m.borrow_balance + change.added
    <3>1. m.deposit_balance \in Nat /\ m.borrow_balance \in Nat /\ change.added \in Nat
      BY <1>4, <1>7
    <3>2. "Borrow" = direction /\ "Borrow" = type /\ ~ "Deposit" = direction /\ ~ "Deposit" = type
      BY <1>13
    <3>3. /\ (IF "Borrow" = direction THEN change.added ELSE 0) = change.added
          /\ (IF "Borrow" = type THEN change.removed ELSE 0) = 0
          /\ (IF "Deposit" = direction THEN change.added ELSE 0) = 0
          /\ (IF "Deposit" = type THEN change.removed ELSE 0) = 0
      BY <2>1, <3>2
    <3>4. /\ new.deposit_balance = m.deposit_balance + (0 - 0)
          /\ new.borrow_balance = m.borrow_balance + (change.added - 0)
      BY <1>3, <3>3
    <3> HIDE DEF new, change, type
    <3> QED
      BY <3>1, <3>4
  <2> HIDE DEF new, change, c, k, T, small, rounds
  <2>5. (m.borrow_balance + change.added) * k = m.borrow_balance * k + change.added * k
    BY <1>4, <1>7
  <2>6. new.deposit_balance * c <= m.deposit_balance * c + 0 * T
    BY <1>4, <2>4
  <2>7. CASE change.added # 0
    <3>1. m.borrow_balance * k + tokens * T <= new.borrow_balance * k
      BY <1>4, <1>7, <2>2, <2>4, <2>5, <2>7
    <3>2. DepositorsClaim(new) <= DepositorsClaim(m) + (0 - tokens)
      BY <1>9, <2>6, <3>1
    <3>3. DepositorsClaim(new) <= DepositorsClaim(m) + (-tokens) + rounds
      BY <1>10, <2>3, <2>7, <3>2
    <3> QED
      BY <1>13, <3>3 DEF new, rounds
  <2>8. CASE change.added = 0
    <3>1. m.borrow_balance * k + 0 * T <= new.borrow_balance * k
      BY <1>4, <2>4, <2>8
    <3>2. DepositorsClaim(new) <= DepositorsClaim(m) + (0 - 0)
      BY <1>9, <2>6, <3>1
    <3>3. tokens <= small
      <4>1. ~ small + 1 <= tokens
        <5> SUFFICES ASSUME small + 1 <= tokens PROVE FALSE
          OBVIOUS
        <5>1. (small + 1) * T <= tokens * T /\ (small + 1) * T = small * T + T
          BY <1>4, <1>5
        <5> QED
          BY <1>4, <1>5, <2>2, <2>8, <5>1
      <4> QED
        BY <1>5, <4>1
    <3>4. tokens <= rounds /\ rounds \in Int
      BY <1>5, <2>3, <2>8, <3>3
    <3>5. DepositorsClaim(new) <= DepositorsClaim(m) + (-tokens) + rounds
      BY <1>10, <3>2, <3>4
    <3> QED
      BY <1>13, <3>5 DEF new, rounds
  <2> QED
    BY <2>7, <2>8
<1>14. CASE direction = "Deposit" /\ type = "Borrow"
  <2>1. /\ change.removed = IF current = 0 THEN 0
                           ELSE IF current > tokens THEN get_spot_balance(tokens, m, "Borrow", TRUE)
                           ELSE scaled
        /\ change.added = IF remaining > 0 THEN get_spot_balance(remaining, m, "Deposit", FALSE) ELSE 0
    BY <1>14 DEF BalanceChange
  <2>2. rounds = IF current > tokens THEN small ELSE 0
    BY <1>14 DEF Rounds
  <2>3. /\ new.deposit_balance = m.deposit_balance + (change.added - 0)
        /\ new.borrow_balance = m.borrow_balance + (0 - change.removed)
    <3>1. /\ (IF "Deposit" = direction THEN change.added ELSE 0) = change.added
          /\ (IF "Deposit" = type THEN change.removed ELSE 0) = 0
          /\ (IF "Borrow" = direction THEN change.added ELSE 0) = 0
          /\ (IF "Borrow" = type THEN change.removed ELSE 0) = change.removed
      BY <1>14
    <3> QED
      BY <1>3, <3>1
  <2>4. remaining > 0 => change.added * c <= remaining * T
    <3>1. remaining > 0 => c > 0
      BY <1>4, <1>8, <1>11, <1>14 DEF CanUpdate
    <3> QED
      BY <1>1, <1>8, <1>11, <2>1, <3>1, UnitsOfTokens DEF SpotBalanceType
  <2>5. current > tokens => change.removed * k <= tokens * T + k
    <3>1. current > tokens => change.removed = get_spot_balance(tokens, m, "Borrow", TRUE)
      <4> SUFFICES ASSUME current > tokens
                   PROVE  change.removed = get_spot_balance(tokens, m, "Borrow", TRUE)
        OBVIOUS
      <4>1. current # 0
        BY <1>4
      <4> QED
        BY <2>1, <4>1, Zenon
    <3>2. get_spot_balance(tokens, m, "Borrow", TRUE) * k <= tokens * T + k
      BY <1>1, <1>8, UnitsOfTokens DEF SpotBalanceType
    <3> QED
      BY <3>1, <3>2
  <2>6. ~ current > tokens => change.removed = scaled
    BY <1>4, <1>14, <2>1
  <2>7. ~ remaining > 0 => change.added = 0
    BY <2>1
  <2>8. scaled * k <= current * T
    BY <1>6, <1>14
  <2> HIDE DEF new, change, c, k, T, small, rounds, remaining, current, scaled, type
  <2>9. /\ new.deposit_balance * c = m.deposit_balance * c + change.added * c
        /\ new.borrow_balance * k = m.borrow_balance * k - change.removed * k
        /\ m.deposit_balance * c \in Int /\ m.borrow_balance * k \in Int
        /\ change.added * c \in Int /\ change.removed * k \in Int
    BY <1>4, <1>7, <2>3
  <2>10. ASSUME current > tokens
        PROVE  DepositorsClaim(new) <= DepositorsClaim(m) + tokens + rounds
    <3>1. remaining = 0 /\ change.added = 0
      BY <1>4, <1>11, <2>7, <2>10
    <3>2. new.deposit_balance * c <= m.deposit_balance * c + 0 * T
      BY <1>4, <2>9, <3>1
    <3>3. (-(tokens + small)) * T = -(tokens * T) - small * T /\ tokens * T \in Int /\ small * T \in Int
      BY <1>4, <1>5
    <3>4. m.borrow_balance * k + (-(tokens + small)) * T <= new.borrow_balance * k
      BY <1>4, <1>5, <2>5, <2>9, <2>10, <3>3
    <3>5. -(tokens + small) \in Int
      BY <1>5
    <3>6. DepositorsClaim(new) <= DepositorsClaim(m) + (0 - (-(tokens + small)))
      BY <1>9, <3>2, <3>4, <3>5
    <3> QED
      BY <1>5, <1>10, <2>2, <2>10, <3>6
  <2>11. ASSUME ~ current > tokens
        PROVE  DepositorsClaim(new) <= DepositorsClaim(m) + tokens + rounds
    <3>1. new.deposit_balance * c <= m.deposit_balance * c + remaining * T
      BY <1>4, <1>7, <1>11, <2>4, <2>7, <2>9
    <3>2. (-current) * T = -(current * T) /\ current * T \in Int /\ -current \in Int
      BY <1>4
    <3>3. m.borrow_balance * k + (-current) * T <= new.borrow_balance * k
      BY <1>4, <2>6, <2>8, <2>9, <2>11, <3>2
    <3>4. DepositorsClaim(new) <= DepositorsClaim(m) + (remaining - (-current))
      BY <1>9, <1>11, <3>1, <3>2, <3>3
    <3> QED
      BY <1>4, <1>10, <1>11, <2>2, <2>11, <3>4
  <2>12. DepositorsClaim(new) <= DepositorsClaim(m) + tokens + rounds
    BY <2>10, <2>11
  <2> QED
    BY <1>14, <2>12 DEF new, rounds
<1>15. CASE direction = "Borrow" /\ type = "Deposit"
  <2> DEFINE recorded == get_spot_balance(remaining, m, "Borrow", TRUE)
  <2>1. /\ change.removed = IF current = 0 THEN 0
                           ELSE IF current > tokens THEN get_spot_balance(tokens, m, "Deposit", FALSE)
                           ELSE scaled
        /\ change.added = IF remaining > 0 THEN recorded ELSE 0
    BY <1>15 DEF BalanceChange
  <2>2. rounds = IF current > tokens THEN unit
                 ELSE IF remaining > 0 /\ recorded = 0 THEN small ELSE 0
    BY <1>15 DEF Rounds
  <2>3. /\ new.deposit_balance = m.deposit_balance + (0 - change.removed)
        /\ new.borrow_balance = m.borrow_balance + (change.added - 0)
    <3>1. /\ (IF "Deposit" = direction THEN change.added ELSE 0) = 0
          /\ (IF "Deposit" = type THEN change.removed ELSE 0) = change.removed
          /\ (IF "Borrow" = direction THEN change.added ELSE 0) = change.added
          /\ (IF "Borrow" = type THEN change.removed ELSE 0) = 0
      BY <1>15
    <3> QED
      BY <1>3, <3>1
  <2>4. /\ recorded # 0 => remaining * T <= recorded * k
        /\ recorded = 0 => remaining * T < k
        /\ recorded \in Nat
    BY <1>1, <1>8, <1>11, UnitsOfTokens DEF SpotBalanceType
  <2>5. current > tokens => tokens * T <= change.removed * c + c
    <3> SUFFICES ASSUME current > tokens
                 PROVE  tokens * T <= change.removed * c + c
      OBVIOUS
    <3>1. current # 0
      BY <1>4
    <3>2. change.removed = get_spot_balance(tokens, m, "Deposit", FALSE)
      BY <2>1, <3>1, Zenon
    <3>3. c > 0
      BY <1>4, <1>8, <1>15 DEF CanUpdate
    <3>4. tokens * T < get_spot_balance(tokens, m, "Deposit", FALSE) * c + c
      BY <1>1, <1>8, <3>3, UnitsOfTokens DEF SpotBalanceType
    <3>5. tokens * T \in Int /\ change.removed * c + c \in Int
      BY <1>4, <1>7
    <3>6. tokens * T < change.removed * c + c
      BY <3>2, <3>4, Zenon
    <3> HIDE DEF change, c, T
    <3> QED
      BY <3>5, <3>6
  <2>6. ~ current > tokens => current * T <= change.removed * c
    <3> SUFFICES ASSUME ~ current > tokens
                 PROVE  current * T <= change.removed * c
      OBVIOUS
    <3>1. CASE current = 0
      <4> HIDE DEF current, change, c, T
      <4> QED
        BY <1>4, <1>7, <3>1
    <3>2. CASE current # 0
      <4>1. change.removed = scaled
        BY <2>1, <3>2, Zenon
      <4> QED
        BY <1>6, <1>15, <4>1
    <3> QED
      BY <3>1, <3>2
  <2>7. c <= unit * T
    BY <1>5, <1>8, <1>15
  <2> HIDE DEF new, change, c, k, T, small, unit, rounds, remaining, current, scaled, type, recorded
  <2>8. /\ new.deposit_balance * c = m.deposit_balance * c - change.removed * c
        /\ new.borrow_balance * k = m.borrow_balance * k + change.added * k
        /\ m.deposit_balance * c \in Int /\ m.borrow_balance * k \in Int
        /\ change.added * k \in Int /\ change.removed * c \in Int
    BY <1>4, <1>7, <2>3
  <2>9. ASSUME current > tokens
        PROVE  DepositorsClaim(new) <= DepositorsClaim(m) + (-tokens) + rounds
    <3>1. remaining = 0 /\ change.added = 0
      BY <1>4, <1>11, <2>1, <2>9
    <3>2. m.borrow_balance * k + 0 * T <= new.borrow_balance * k
      BY <1>4, <2>8, <3>1
    <3>3. (unit - tokens) * T = unit * T - tokens * T /\ tokens * T \in Int /\ unit * T \in Int
      BY <1>4, <1>5
    <3>4. new.deposit_balance * c <= m.deposit_balance * c + (unit - tokens) * T
      BY <1>4, <1>5, <2>5, <2>7, <2>8, <2>9, <3>3
    <3>5. unit - tokens \in Int
      BY <1>5
    <3>6. DepositorsClaim(new) <= DepositorsClaim(m) + ((unit - tokens) - 0)
      BY <1>9, <3>2, <3>4, <3>5
    <3> QED
      BY <1>5, <1>10, <2>2, <2>9, <3>6
  <2>10. ASSUME ~ current > tokens
         PROVE  DepositorsClaim(new) <= DepositorsClaim(m) + (-tokens) + rounds
    <3>1. (-current) * T = -(current * T) /\ current * T \in Int /\ -current \in Int
      BY <1>4
    <3>2. new.deposit_balance * c <= m.deposit_balance * c + (-current) * T
      BY <1>4, <2>6, <2>8, <2>10, <3>1
    <3>3. tokens = remaining + current
      BY <1>4, <1>11, <2>10
    <3>4. CASE remaining > 0 /\ recorded = 0
      <4>1. m.borrow_balance * k + 0 * T <= new.borrow_balance * k
        BY <1>4, <2>1, <2>8, <3>4
      <4>2. DepositorsClaim(new) <= DepositorsClaim(m) + ((-current) - 0)
        BY <1>9, <3>1, <3>2, <4>1
      <4>3. remaining <= small
        <5>1. ~ small + 1 <= remaining
          <6> SUFFICES ASSUME small + 1 <= remaining PROVE FALSE
            OBVIOUS
          <6>1. (small + 1) * T <= remaining * T /\ (small + 1) * T = small * T + T
            BY <1>4, <1>5, <1>11
          <6>2. small * T \in Int /\ remaining * T \in Int
            BY <1>4, <1>5, <1>11
          <6> QED
            BY <1>4, <1>5, <2>4, <3>4, <6>1, <6>2
        <5> QED
          BY <1>5, <1>11, <5>1
      <4> QED
        BY <1>4, <1>5, <1>10, <1>11, <2>2, <2>10, <3>3, <3>4, <4>2, <4>3
    <3>5. CASE ~ (remaining > 0 /\ recorded = 0)
      <4>1. remaining * T <= change.added * k
        <5>1. CASE remaining > 0
          BY <2>1, <2>4, <3>5, <5>1
        <5>2. CASE ~ remaining > 0
          BY <1>4, <1>7, <1>11, <5>2
        <5> QED
          BY <5>1, <5>2
      <4>2. remaining * T \in Int
        BY <1>4, <1>11
      <4>3. m.borrow_balance * k + remaining * T <= new.borrow_balance * k
        BY <1>4, <2>8, <4>1, <4>2
      <4>4. DepositorsClaim(new) <= DepositorsClaim(m) + ((-current) - remaining)
        BY <1>9, <1>11, <3>1, <3>2, <4>3
      <4> QED
        BY <1>4, <1>10, <1>11, <2>2, <2>10, <3>3, <3>5, <4>4
    <3> QED
      BY <3>4, <3>5
  <2>11. DepositorsClaim(new) <= DepositorsClaim(m) + (-tokens) + rounds
    BY <2>9, <2>10
  <2> QED
    BY <1>15, <2>11 DEF new, rounds
<1> QED
  BY <1>4, <1>12, <1>13, <1>14, <1>15 DEF SpotBalanceType

(***************************************************************************)
(* The vault covers the claims.                                            *)
(***************************************************************************)

LEMMA ClaimInt ==
  ASSUME NEW m, NEW time, Sound(m, time)
  PROVE  DepositorsClaim(m) \in Int
BY SoundMarket, UtilizationNat DEF DepositorsClaim

(* An instruction that ends with the check of the vault.                   *)
LEMMA CheckedVault ==
  ASSUME Inv', validate_spot_market_vault_amount(mk', vault')
  PROVE  VaultCoversClaims'
<1>1. vault' \in Nat /\ roundings' \in Nat /\ DepositorsClaim(mk') \in Int
  BY ClaimInt DEF Inv, TypeOK
<1>2. vault' >= DepositorsClaim(mk')
  BY DEF validate_spot_market_vault_amount
<1> QED
  BY <1>1, <1>2 DEF VaultCoversClaims

LEMMA DepositVault ==
  ASSUME Inv, VaultCoversClaims, NEW u \in Users, NEW amount \in Amounts,
         NEW reduce_only \in BOOLEAN, Deposit(u, amount, reduce_only)
  PROVE  VaultCoversClaims'
<1> DEFINE m == update_spot_market_cumulative_interest(mk, now)
           capped == (status = "ReduceOnly" \/ reduce_only) /\ m.balance_type[u] = "Borrow"
           tokens == IF capped THEN Smaller(TokensOf(m, u), amount) ELSE amount
           after == update_spot_balances(m, u, tokens, "Deposit", FALSE)
<1>0. Sound(mk, now) /\ OthersOK
  BY InvParts
<1>1. Sound(m, now)
  BY <1>0, InterestSound DEF OthersOK
<1>2. /\ CanUpdate(m, u, tokens, "Deposit", FALSE)
      /\ mk' = after
      /\ vault' = vault + tokens
      /\ roundings' = roundings + InterestRounds + Rounds(m, u, tokens, "Deposit")
  BY DEF Deposit
<1>3. DepositorsClaim(m) <= DepositorsClaim(mk) + InterestRounds /\ InterestRounds \in Nat
  BY <1>0, InterestRoundsNat DEF OthersOK
<1> HIDE DEF m
<1>4. tokens \in Nat
  BY <1>1, SoundTokens, HoldersFinite, MarketAssumption DEF Smaller
<1> HIDE DEF tokens
<1>5. Rounds(m, u, tokens, "Deposit") \in Nat
  BY <1>1, SoundMarket, RoundsNat
<1>6. DepositorsClaim(after) <= DepositorsClaim(m) + tokens + Rounds(m, u, tokens, "Deposit")
  BY <1>1, <1>2, <1>4, ClaimUpdate, HoldersFinite DEF SpotBalanceType, Sound
<1>7. Sound(after, now)
  BY <1>1, <1>2, <1>4, UpdateSound, HoldersFinite DEF SpotBalanceType
<1>8. DepositorsClaim(mk) \in Int /\ DepositorsClaim(m) \in Int /\ DepositorsClaim(after) \in Int
  BY <1>0, <1>1, <1>7, ClaimInt
<1> HIDE DEF after
<1> QED
  BY <1>0, <1>2, <1>3, <1>4, <1>5, <1>6, <1>8 DEF VaultCoversClaims, OthersOK

(* What moves between two holders leaves the claims as they are.           *)
LEMMA SettlePnlVault ==
  ASSUME Inv, VaultCoversClaims, NEW u \in Users, NEW pool \in Pools, NEW amount \in Amounts,
         NEW direction \in SpotBalanceType, SettlePnl(u, pool, amount, direction)
  PROVE  VaultCoversClaims'
<1> DEFINE m == update_spot_market_cumulative_interest(mk, now)
           paid == update_spot_balances(m, pool, amount, direction, FALSE)
           opposite == Opposite(direction)
           after == update_spot_balances(paid, u, amount, opposite, FALSE)
           first == Rounds(m, pool, amount, direction)
           second == Rounds(paid, u, amount, opposite)
<1>0. Sound(mk, now) /\ OthersOK
  BY InvParts
<1>1. Sound(m, now)
  BY <1>0, InterestSound DEF OthersOK
<1>2. /\ CanUpdate(m, pool, amount, direction, FALSE)
      /\ CanUpdate(paid, u, amount, opposite, FALSE)
      /\ mk' = after
      /\ roundings' = roundings + InterestRounds + first + second
      /\ vault' = vault
  BY DEF SettlePnl, CanTransfer, transfer_spot_balances
<1>3. DepositorsClaim(m) <= DepositorsClaim(mk) + InterestRounds /\ InterestRounds \in Nat
  BY <1>0, InterestRoundsNat DEF OthersOK
<1>4. amount \in Nat /\ pool \in Holders /\ u \in Holders
  BY MarketAssumption, HoldersFinite
<1>5. /\ opposite \in SpotBalanceType
      /\ direction = "Deposit" <=> opposite = "Borrow"
      /\ direction = "Borrow" <=> opposite = "Deposit"
  BY DEF Opposite, SpotBalanceType
<1> HIDE DEF m, opposite
<1>6. Sound(paid, now)
  BY <1>1, <1>2, <1>4, UpdateSound
<1>7. DepositorsClaim(paid)
        <= DepositorsClaim(m) + (IF direction = "Deposit" THEN amount ELSE -amount) + first
  BY <1>1, <1>2, <1>4, ClaimUpdate DEF Sound
<1>8. first \in Nat
  BY <1>1, SoundMarket, RoundsNat
<1> HIDE DEF paid, first
<1>9. DepositorsClaim(after)
        <= DepositorsClaim(paid) + (IF opposite = "Deposit" THEN amount ELSE -amount) + second
  BY <1>2, <1>4, <1>5, <1>6, ClaimUpdate DEF Sound
<1>10. Sound(after, now)
  BY <1>2, <1>4, <1>5, <1>6, UpdateSound
<1>11. second \in Nat
  BY <1>6, SoundMarket, RoundsNat
<1>12. /\ DepositorsClaim(mk) \in Int /\ DepositorsClaim(m) \in Int
       /\ DepositorsClaim(paid) \in Int /\ DepositorsClaim(after) \in Int
  BY <1>0, <1>1, <1>6, <1>10, ClaimInt
<1> HIDE DEF after, second
<1>13. DepositorsClaim(after) <= DepositorsClaim(m) + first + second
  BY <1>4, <1>5, <1>7, <1>8, <1>9, <1>11, <1>12 DEF SpotBalanceType
<1> QED
  BY <1>0, <1>2, <1>3, <1>8, <1>11, <1>12, <1>13 DEF VaultCoversClaims, OthersOK

LEMMA LiquidateLiabilityVault ==
  ASSUME Inv, VaultCoversClaims, NEW u \in Users, NEW liquidator \in Users,
         NEW amount \in Amounts, LiquidateLiability(u, liquidator, amount)
  PROVE  VaultCoversClaims'
<1> DEFINE m == update_spot_market_cumulative_interest(mk, now)
           fee == Smaller(LiquidationFee, amount)
           rest == amount - fee
           repaid == update_spot_balances(m, u, rest, "Deposit", FALSE)
           charged == update_spot_balances(repaid, RevenuePool, fee, "Deposit", FALSE)
           after == update_spot_balances(charged, liquidator, amount, "Borrow", FALSE)
           first == Rounds(m, u, rest, "Deposit")
           second == Rounds(repaid, RevenuePool, fee, "Deposit")
           third == Rounds(charged, liquidator, amount, "Borrow")
<1>0. Sound(mk, now) /\ OthersOK
  BY InvParts
<1>1. Sound(m, now)
  BY <1>0, InterestSound DEF OthersOK
<1>2. /\ CanUpdate(m, u, rest, "Deposit", FALSE)
      /\ CanUpdate(repaid, RevenuePool, fee, "Deposit", FALSE)
      /\ CanUpdate(charged, liquidator, amount, "Borrow", FALSE)
      /\ mk' = after
      /\ roundings' = roundings + InterestRounds + first + second + third
      /\ vault' = vault
  BY DEF LiquidateLiability
<1>3. DepositorsClaim(m) <= DepositorsClaim(mk) + InterestRounds /\ InterestRounds \in Nat
  BY <1>0, InterestRoundsNat DEF OthersOK
<1>4. amount \in Nat /\ fee \in Nat /\ rest \in Nat /\ rest + fee = amount
  BY MarketAssumption DEF Smaller
<1>5. u \in Holders /\ liquidator \in Holders /\ RevenuePool \in Holders
  BY HoldersFinite
<1>6. {"Deposit", "Borrow"} \subseteq SpotBalanceType
  BY DEF SpotBalanceType
<1> HIDE DEF m, fee, rest
<1>7. Sound(repaid, now)
  BY <1>1, <1>2, <1>4, <1>5, <1>6, UpdateSound
<1>8. DepositorsClaim(repaid) <= DepositorsClaim(m) + rest + first
  BY <1>1, <1>2, <1>4, <1>5, <1>6, ClaimUpdate DEF Sound
<1>9. first \in Nat
  BY <1>1, SoundMarket, RoundsNat
<1> HIDE DEF repaid, first
<1>10. Sound(charged, now)
  BY <1>2, <1>4, <1>5, <1>6, <1>7, UpdateSound
<1>11. DepositorsClaim(charged) <= DepositorsClaim(repaid) + fee + second
  BY <1>2, <1>4, <1>5, <1>6, <1>7, ClaimUpdate DEF Sound
<1>12. second \in Nat
  BY <1>7, SoundMarket, RoundsNat
<1> HIDE DEF charged, second
<1>13. Sound(after, now)
  BY <1>2, <1>4, <1>5, <1>6, <1>10, UpdateSound
<1>14. DepositorsClaim(after) <= DepositorsClaim(charged) + (-amount) + third
  BY <1>2, <1>4, <1>5, <1>6, <1>10, ClaimUpdate DEF Sound
<1>15. third \in Nat
  BY <1>10, SoundMarket, RoundsNat
<1>16. /\ DepositorsClaim(mk) \in Int /\ DepositorsClaim(m) \in Int
       /\ DepositorsClaim(repaid) \in Int /\ DepositorsClaim(charged) \in Int
       /\ DepositorsClaim(after) \in Int
  BY <1>0, <1>1, <1>7, <1>10, <1>13, ClaimInt
<1> HIDE DEF after, third
<1>17. DepositorsClaim(after) <= DepositorsClaim(m) + first + second + third
  BY <1>4, <1>8, <1>9, <1>11, <1>12, <1>14, <1>15, <1>16
<1> QED
  BY <1>0, <1>2, <1>3, <1>9, <1>12, <1>15, <1>16, <1>17 DEF VaultCoversClaims, OthersOK

LEMMA LiquidateAssetVault ==
  ASSUME Inv, VaultCoversClaims, NEW u \in Users, NEW liquidator \in Users,
         NEW amount \in Amounts, LiquidateAsset(u, liquidator, amount)
  PROVE  VaultCoversClaims'
<1> DEFINE m == update_spot_market_cumulative_interest(mk, now)
           given == update_spot_balances(m, liquidator, amount, "Deposit", FALSE)
           after == update_spot_balances(given, u, amount, "Borrow", FALSE)
           first == Rounds(m, liquidator, amount, "Deposit")
           second == Rounds(given, u, amount, "Borrow")
<1>0. Sound(mk, now) /\ OthersOK
  BY InvParts
<1>1. Sound(m, now)
  BY <1>0, InterestSound DEF OthersOK
<1>2. /\ CanUpdate(m, liquidator, amount, "Deposit", FALSE)
      /\ CanUpdate(given, u, amount, "Borrow", FALSE)
      /\ mk' = after
      /\ roundings' = roundings + InterestRounds + first + second
      /\ vault' = vault
  BY DEF LiquidateAsset
<1>3. DepositorsClaim(m) <= DepositorsClaim(mk) + InterestRounds /\ InterestRounds \in Nat
  BY <1>0, InterestRoundsNat DEF OthersOK
<1>4. amount \in Nat /\ u \in Holders /\ liquidator \in Holders
  BY MarketAssumption, HoldersFinite
<1>5. {"Deposit", "Borrow"} \subseteq SpotBalanceType
  BY DEF SpotBalanceType
<1> HIDE DEF m
<1>6. Sound(given, now)
  BY <1>1, <1>2, <1>4, <1>5, UpdateSound
<1>7. DepositorsClaim(given) <= DepositorsClaim(m) + amount + first
  BY <1>1, <1>2, <1>4, <1>5, ClaimUpdate DEF Sound
<1>8. first \in Nat
  BY <1>1, SoundMarket, RoundsNat
<1> HIDE DEF given, first
<1>9. Sound(after, now)
  BY <1>2, <1>4, <1>5, <1>6, UpdateSound
<1>10. DepositorsClaim(after) <= DepositorsClaim(given) + (-amount) + second
  BY <1>2, <1>4, <1>5, <1>6, ClaimUpdate DEF Sound
<1>11. second \in Nat
  BY <1>6, SoundMarket, RoundsNat
<1>12. /\ DepositorsClaim(mk) \in Int /\ DepositorsClaim(m) \in Int
       /\ DepositorsClaim(given) \in Int /\ DepositorsClaim(after) \in Int
  BY <1>0, <1>1, <1>6, <1>9, ClaimInt
<1> HIDE DEF after, second
<1>13. DepositorsClaim(after) <= DepositorsClaim(m) + first + second
  BY <1>4, <1>7, <1>8, <1>10, <1>11, <1>12
<1> QED
  BY <1>0, <1>2, <1>3, <1>8, <1>11, <1>12, <1>13 DEF VaultCoversClaims, OthersOK

(* Steps that leave the vault and the claims alone.                        *)
LEMMA QuietVault ==
  ASSUME Inv, VaultCoversClaims,
         Tick \/ (\E u \in Users : ReuseSpotPosition(u)) \/ UNCHANGED vars
           \/ (\E new_status \in Statuses : UpdateStatus(new_status))
  PROVE  VaultCoversClaims'
<1>1. /\ vault' = vault
      /\ roundings' = roundings
      /\ mk' = mk \/ \E u \in Users : mk' = [mk EXCEPT !.balance_type[u] = "Deposit"]
  BY DEF Tick, ReuseSpotPosition, UpdateStatus, vars
<1>2. mk \in Markets
  BY SoundMarket DEF Inv
<1>3. DepositorsClaim(mk') = DepositorsClaim(mk)
  BY <1>1, <1>2 DEF DepositorsClaim, DepositTokens, BorrowTokens, get_token_amount, Markets
<1> QED
  BY <1>1, <1>3 DEF VaultCoversClaims

LEMMA NextVault ==
  ASSUME Inv, Inv', VaultCoversClaims, [Next]_vars
  PROVE  VaultCoversClaims'
<1>1. CASE Tick \/ (\E u \in Users : ReuseSpotPosition(u)) \/ UNCHANGED vars
             \/ (\E new_status \in Statuses : UpdateStatus(new_status))
  BY <1>1, QuietVault
<1>2. CASE \E u \in Users, amount \in Amounts, reduce_only \in BOOLEAN :
             Deposit(u, amount, reduce_only)
  BY <1>2, DepositVault
<1>3. CASE \E u \in Users, amount \in Amounts, reduce_only, pays_fee, net \in BOOLEAN :
             Withdraw(u, amount, reduce_only, pays_fee, net)
  BY <1>3, CheckedVault DEF Withdraw
<1>4. CASE \E from, to \in Users, amount \in Amounts, net \in BOOLEAN :
             TransferDeposit(from, to, amount, net)
  BY <1>4, CheckedVault DEF TransferDeposit
<1>5. CASE \E amount \in Amounts : DepositIntoRevenuePool(amount)
  BY <1>5, CheckedVault DEF DepositIntoRevenuePool
<1>6. CASE \E u \in Users, pool \in Pools \ {RevenuePool}, amount \in Amounts,
              direction \in SpotBalanceType : SettlePnl(u, pool, amount, direction)
  BY <1>6, SettlePnlVault
<1>7. CASE \E u, liquidator \in Users, amount \in Amounts :
             LiquidateLiability(u, liquidator, amount)
  BY <1>7, LiquidateLiabilityVault
<1>8. CASE \E u, liquidator \in Users, amount \in Amounts :
             LiquidateAsset(u, liquidator, amount)
  BY <1>8, LiquidateAssetVault
<1>9. CASE \E funding_paused \in BOOLEAN : UpdateCumulativeInterest(funding_paused)
  BY <1>9, CheckedVault DEF UpdateCumulativeInterest
<1>10. CASE \E has_stakers \in BOOLEAN : SettleRevenueToInsuranceFund(has_stakers)
  BY <1>10, CheckedVault DEF SettleRevenueToInsuranceFund
<1>11. CASE \E u \in Users, has_stakers \in BOOLEAN : ResolveSpotBankruptcy(u, has_stakers)
  BY <1>11, CheckedVault DEF ResolveSpotBankruptcy
<1> QED
  BY <1>1, <1>2, <1>3, <1>4, <1>5, <1>6, <1>7, <1>8, <1>9, <1>10, <1>11 DEF Next

LEMMA InitVault == Init => VaultCoversClaims
<1> SUFFICES ASSUME Init PROVE VaultCoversClaims
  OBVIOUS
<1>1. mk = EmptyMarket /\ vault = 0 /\ roundings = 0
  BY DEF Init
<1>2. /\ EmptyMarket.deposit_balance = 0 /\ EmptyMarket.borrow_balance = 0
      /\ EmptyMarket.cumulative_deposit_interest = InterestPrecision
      /\ EmptyMarket.cumulative_borrow_interest = InterestPrecision
  BY DEF EmptyMarket
<1>3. 0 * InterestPrecision = 0 /\ 0 \div TokenPrecision = 0 /\ CeilDiv(0, TokenPrecision) = 0
  BY PrecisionAssumption DEF CeilDiv
<1>4. DepositTokens(mk) = 0 /\ BorrowTokens(mk) = 0
  BY <1>1, <1>2, <1>3 DEF DepositTokens, BorrowTokens, get_token_amount
<1> QED
  BY <1>1, <1>4 DEF VaultCoversClaims, DepositorsClaim

(* The vault of a spot market holds what its depositors may claim, up to   *)
(* the worth of one unit for each conversion in a holder's favour, also    *)
(* after the instructions that do not check it: deposits, settled pnl and  *)
(* liquidations (math/spot_withdraw.rs validate_spot_market_vault_amount). *)
THEOREM VaultAlwaysCoversClaims == Spec => []VaultCoversClaims
<1>1. Spec => []Inv
  BY Invariance
<1>2. Init => VaultCoversClaims
  BY InitVault
<1>3. Inv /\ Inv' /\ VaultCoversClaims /\ [Next]_vars => VaultCoversClaims'
  BY NextVault
<1> QED
  BY <1>1, <1>2, <1>3, PTL DEF Spec

(***************************************************************************)
(* Interest is paid by borrowers.                                          *)
(***************************************************************************)

(* Inequalities may be multiplied, and divided by what is not zero.        *)
LEMMA MulMono ==
  ASSUME NEW a \in Int, NEW b \in Int, NEW n \in Nat, a <= b
  PROVE  a * n <= b * n
OBVIOUS

LEMMA MulCancel ==
  ASSUME NEW a \in Int, NEW b \in Int, NEW n \in Nat \ {0}, a * n <= b * n
  PROVE  a <= b
<1>1. ~ b + 1 <= a
  <2> SUFFICES ASSUME b + 1 <= a PROVE FALSE
    OBVIOUS
  <2>1. (b + 1) * n <= a * n /\ (b + 1) * n = b * n + n /\ b * n \in Int
    OBVIOUS
  <2> QED
    BY <2>1
<1> QED
  BY <1>1

(* The highest rate is reached when everything is lent.                    *)
LEMMA BorrowRateMax ==
  ASSUME NEW u \in Nat, u <= SPOT_UTILIZATION_PRECISION
  PROVE  BorrowRate(u) <= max_borrow_rate
<1> DEFINE P == SPOT_UTILIZATION_PRECISION
           o == optimal_utilization
           range == P - o
           gain == max_borrow_rate - optimal_borrow_rate
           slope == (gain * P) \div range
           base == (optimal_borrow_rate * P) \div o
<1>1. /\ P \in Nat \ {0} /\ o \in Nat \ {0} /\ range \in Nat \ {0} /\ gain \in Nat
      /\ optimal_borrow_rate \in Nat /\ max_borrow_rate \in Nat
      /\ optimal_borrow_rate <= max_borrow_rate
  BY PrecisionAssumption, RateAssumption
<1>2. BorrowRate(u) = IF u > o THEN optimal_borrow_rate + ((u - o) * slope) \div P
                               ELSE (u * base) \div P
  BY DEF BorrowRate
<1>3. u <= P
  OBVIOUS
<1>4. u > o => u - o \in Nat /\ u - o <= range
  BY <1>1, <1>3
<1>5. max_borrow_rate = optimal_borrow_rate + gain
  BY <1>1
<1> HIDE DEF P, o, range, gain
<1>6. slope \in Nat /\ slope * range <= gain * P
  BY <1>1, MulNat, DivBounds
<1>7. base \in Nat /\ base * o <= optimal_borrow_rate * P
  BY <1>1, MulNat, DivBounds
<1> HIDE DEF slope, base
<1>8. CASE u > o
  <2>1. (u - o) * slope <= range * slope /\ range * slope = slope * range /\ (u - o) * slope \in Nat
    BY <1>1, <1>4, <1>6, <1>8, MulMono, MulNat
  <2>2. (u - o) * slope <= 0 + gain * P
    BY <1>1, <1>6, <2>1
  <2>3. ((u - o) * slope) \div P <= 0 \div P + gain
    BY <1>1, <2>1, <2>2, FloorMove
  <2>4. 0 \div P = 0 /\ ((u - o) * slope) \div P \in Nat
    BY <1>1, <2>1, DivBounds
  <2> QED
    BY <1>1, <1>2, <1>5, <1>8, <2>3, <2>4
<1>9. CASE ~ u > o
  <2>1. u * base <= o * base /\ o * base = base * o /\ u * base \in Nat
    BY <1>1, <1>7, <1>9, MulMono, MulNat
  <2>2. u * base <= 0 + optimal_borrow_rate * P
    BY <1>1, <1>7, <2>1
  <2>3. (u * base) \div P <= 0 \div P + optimal_borrow_rate
    BY <1>1, <2>1, <2>2, FloorMove
  <2>4. 0 \div P = 0 /\ (u * base) \div P \in Nat
    BY <1>1, <2>1, DivBounds
  <2> QED
    BY <1>1, <1>2, <1>9, <2>3, <2>4
<1> QED
  BY <1>8, <1>9

(* The numbers behind an accrual: d units of deposits at the index c, e    *)
(* units of borrows at k, worth D and B tokens of T; the utilization u of  *)
(* U, the rate R of P for the time passed, and what the indices gain.      *)
(* Deposits gain at most a token's worth more than borrows.                *)
LEMMA InterestArithmetic ==
  ASSUME NEW T \in Nat \ {0}, NEW U \in Nat \ {0}, NEW P \in Nat \ {0},
         NEW c \in Nat, NEW k \in Nat, NEW d \in Nat, NEW e \in Nat,
         NEW D \in Nat \ {0}, NEW B \in Nat, NEW u \in Nat, NEW R \in Nat,
         NEW lent \in Nat, NEW dep \in Nat, NEW bor \in Nat,
         d * c < D * T + T, B * T < e * k + T, B <= D,
         u * D <= B * U, lent * U <= R * u, dep * P <= c * lent, k * R <= bor * P,
         2 * R <= P
  PROVE  d * dep <= e * bor + T
<1>1. dep * P * D <= c * R * B
  <2>1. (dep * P) * U <= (c * lent) * U
    BY MulMono
  <2>2. (lent * U) * c <= (R * u) * c
    BY MulMono
  <2>3. (dep * P) * U <= (R * u) * c
    <3>1. (c * lent) * U = (lent * U) * c /\ (dep * P) * U \in Int /\ (c * lent) * U \in Int
          /\ (R * u) * c \in Int
      OBVIOUS
    <3> QED
      BY <2>1, <2>2, <3>1
  <2>4. ((dep * P) * U) * D <= ((R * u) * c) * D
    BY <2>3, MulMono
  <2>5. (u * D) * (R * c) <= (B * U) * (R * c)
    BY MulMono
  <2>6. /\ ((R * u) * c) * D = (u * D) * (R * c)
        /\ (B * U) * (R * c) = (c * R * B) * U
        /\ ((dep * P) * U) * D = (dep * P * D) * U
        /\ dep * P * D \in Int /\ c * R * B \in Int
    OBVIOUS
  <2>7. (dep * P * D) * U <= (c * R * B) * U
    <3> DEFINE v == ((dep * P) * U) * D
               w == ((R * u) * c) * D
               x == (B * U) * (R * c)
    <3>1. v \in Int /\ w \in Int /\ x \in Int /\ v <= w /\ w <= x
      BY <2>4, <2>5, <2>6
    <3>2. v = (dep * P * D) * U /\ x = (c * R * B) * U
      BY <2>6
    <3> HIDE DEF v, w, x
    <3>3. v <= x
      BY <3>1
    <3> QED
      BY <3>2, <3>3
  <2> QED
    BY <2>6, <2>7, MulCancel
<1>2. (d * dep) * P <= T * R * (B + 1)
  <2>1. (dep * P * D) * d <= (c * R * B) * d
    BY <1>1, MulMono
  <2>2. (d * c) * (R * B) <= (D * T + T) * (R * B)
    BY MulMono
  <2>3. B * (T * R) <= D * (T * R)
    BY MulMono
  <2> DEFINE v == (dep * P * D) * d
             w == (c * R * B) * d
             x == (d * c) * (R * B)
             y == (D * T + T) * (R * B)
             z == (T * R * (B + 1)) * D
  <2>4. v \in Int /\ w \in Int /\ x \in Int /\ y \in Int /\ z \in Int
    OBVIOUS
  <2>5. w = x /\ v = ((d * dep) * P) * D
    OBVIOUS
  <2>6. y <= z
    <3>1. y = (T * R * B) * D + B * (T * R) /\ z = (T * R * B) * D + D * (T * R)
      OBVIOUS
    <3>2. (T * R * B) * D \in Int /\ B * (T * R) \in Int /\ D * (T * R) \in Int
      OBVIOUS
    <3> HIDE DEF y, z
    <3> QED
      BY <2>3, <3>1, <3>2
  <2>7. v <= w /\ x <= y
    BY <2>1, <2>2
  <2> HIDE DEF w, x, y
  <2>8. v <= z
    BY <2>4, <2>5, <2>6, <2>7
  <2>9. ((d * dep) * P) * D <= (T * R * (B + 1)) * D
    BY <2>5, <2>8
  <2>10. (d * dep) * P \in Int /\ T * R * (B + 1) \in Int
    OBVIOUS
  <2> QED
    BY <2>9, <2>10, MulCancel
<1>3. T * R * (B - 1) <= (e * bor) * P
  <2>1. B * T - T \in Int /\ e * k \in Int /\ B * T - T <= e * k
    OBVIOUS
  <2>2. (B * T - T) * R <= (e * k) * R
    BY <2>1, MulMono
  <2>3. (k * R) * e <= (bor * P) * e
    BY MulMono
  <2>4. /\ (B * T - T) * R = T * R * (B - 1)
        /\ (e * k) * R = (k * R) * e
        /\ (bor * P) * e = (e * bor) * P
        /\ T * R * (B - 1) \in Int /\ (e * k) * R \in Int /\ (e * bor) * P \in Int
    OBVIOUS
  <2> QED
    BY <2>2, <2>3, <2>4
<1>4. T * R * (B + 1) <= T * R * (B - 1) + T * P
  <2>1. (2 * R) * T <= P * T
    BY MulMono
  <2>2. T * R * (B + 1) = T * R * (B - 1) + (2 * R) * T /\ P * T = T * P
    OBVIOUS
  <2>3. T * R * (B - 1) \in Int /\ (2 * R) * T \in Int /\ T * P \in Int
    OBVIOUS
  <2> QED
    BY <2>1, <2>2, <2>3
<1>5. (d * dep) * P <= (e * bor + T) * P
  <2>1. (e * bor + T) * P = (e * bor) * P + T * P
    OBVIOUS
  <2>2. /\ (d * dep) * P \in Int /\ (e * bor) * P \in Int /\ T * P \in Int
        /\ T * R * (B + 1) \in Int /\ T * R * (B - 1) \in Int
    OBVIOUS
  <2> QED
    BY <1>2, <1>3, <1>4, <2>1, <2>2
<1>6. d * dep \in Int /\ e * bor + T \in Int
  OBVIOUS
<1> QED
  BY <1>5, <1>6, MulCancel

(* The averages are not part of what is claimed.                           *)
LEMMA TwapKeepsTotals ==
  ASSUME NEW m \in Markets, NEW time
  PROVE  LET new == update_spot_market_twap_stats(m, time)
         IN  /\ new.scaled_balance = m.scaled_balance
             /\ new.balance_type = m.balance_type
             /\ new.deposit_balance = m.deposit_balance
             /\ new.borrow_balance = m.borrow_balance
             /\ new.cumulative_deposit_interest = m.cumulative_deposit_interest
             /\ new.cumulative_borrow_interest = m.cumulative_borrow_interest
             /\ new.last_interest_ts = m.last_interest_ts
             /\ DepositorsClaim(new) = DepositorsClaim(m)
<1> DEFINE new == update_spot_market_twap_stats(m, time)
<1>1. /\ new.scaled_balance = m.scaled_balance
      /\ new.balance_type = m.balance_type
      /\ new.deposit_balance = m.deposit_balance
      /\ new.borrow_balance = m.borrow_balance
      /\ new.cumulative_deposit_interest = m.cumulative_deposit_interest
      /\ new.cumulative_borrow_interest = m.cumulative_borrow_interest
      /\ new.last_interest_ts = m.last_interest_ts
  BY DEF update_spot_market_twap_stats, Markets
<1> HIDE DEF new
<1>2. DepositorsClaim(new) = DepositorsClaim(m)
  BY <1>1 DEF DepositorsClaim, DepositTokens, BorrowTokens, get_token_amount
<1> QED
  BY <1>1, <1>2 DEF new

(* What an accrual does to the indices and to the totals.                  *)
LEMMA AccrueFields ==
  ASSUME NEW m, SoundLedger(m), NEW time \in Nat, Timely(m, time), AccruesInterest(m, time)
  PROVE  LET interest == calculate_accumulated_interest(m, time)
             new == AccrueInterest(m, time)
         IN  /\ interest.deposit \in Nat
             /\ interest.borrow \in Nat
             /\ interest.borrow > 1
             /\ new.borrow_balance = m.borrow_balance
             /\ new.cumulative_borrow_interest = m.cumulative_borrow_interest + interest.borrow
             /\ new.cumulative_deposit_interest > m.cumulative_deposit_interest
             /\ new.deposit_balance * new.cumulative_deposit_interest
                  <= m.deposit_balance * (m.cumulative_deposit_interest + interest.deposit)
<1> DEFINE interest == calculate_accumulated_interest(m, time)
           stakers == InterestForStakers(interest)
           index == m.cumulative_deposit_interest + (interest.deposit - stakers)
           grown == [m EXCEPT
                      !.cumulative_deposit_interest = index,
                      !.cumulative_borrow_interest = m.cumulative_borrow_interest + interest.borrow,
                      !.last_interest_ts = time]
           revenue == (m.deposit_balance * stakers) \div TokenPrecision
           new == AccrueInterest(m, time)
           change == BalanceChange(grown, RevenuePool, revenue, "Deposit", FALSE)
<1>1. m \in Markets
  BY DEF SoundLedger
<1>2. /\ interest.borrow \in Nat
      /\ interest.deposit \in Nat
      /\ stakers \in Nat
  BY <1>1, AccumulatedInterestNat
<1>3. interest.deposit > stakers /\ interest.borrow > 1
  BY DEF AccruesInterest
<1>4. new = update_spot_balances(grown, RevenuePool, revenue, "Deposit", FALSE)
  BY <1>1 DEF AccrueInterest, Markets
<1>5. /\ m.deposit_balance \in Nat
      /\ m.borrow_balance \in Nat
      /\ m.cumulative_deposit_interest \in Nat
      /\ m.cumulative_borrow_interest \in Nat
      /\ m.balance_type[RevenuePool] = "Deposit"
  BY HoldersAssumption DEF SoundLedger, Markets
<1> HIDE DEF interest, stakers, new
<1>6. index \in Nat \ {0} /\ m.cumulative_borrow_interest + interest.borrow \in Nat
  BY <1>2, <1>3, <1>5
<1>7. m.deposit_balance * stakers \in Nat
  BY <1>2, <1>5, MulNat
<1> DEFINE shared == m.deposit_balance * stakers
<1>8. revenue \in Nat /\ revenue * TokenPrecision <= shared
  <2> HIDE DEF shared
  <2> QED
    BY <1>7, PrecisionAssumption, DivBounds DEF shared
<1> HIDE DEF index, revenue
<1>9. /\ grown \in Markets
      /\ grown.balance_type = m.balance_type
      /\ grown.deposit_balance = m.deposit_balance
      /\ grown.borrow_balance = m.borrow_balance
      /\ grown.cumulative_borrow_interest = m.cumulative_borrow_interest + interest.borrow
      /\ grown.cumulative_deposit_interest = index
  BY <1>1, <1>6 DEF Markets
<1> HIDE DEF grown
<1>10. change.removed = 0 /\ change.added = get_spot_balance(revenue, grown, "Deposit", FALSE)
  BY <1>5, <1>9 DEF BalanceChange
<1> DEFINE priced == revenue * TokenPrecision
<1>11. /\ change.added \in Nat
       /\ change.added * index <= priced
  <2>1. CumulativeInterest(grown, "Deposit") = index
    BY <1>9 DEF CumulativeInterest
  <2>2. get_spot_balance(revenue, grown, "Deposit", FALSE) = priced \div index
    BY <2>1 DEF get_spot_balance
  <2>3. priced \in Nat
    BY <1>8, PrecisionAssumption, MulNat
  <2> HIDE DEF priced, change
  <2>4. priced \div index \in Nat /\ (priced \div index) * index <= priced
    BY <1>6, <2>3, DivBounds
  <2> QED
    BY <1>10, <2>2, <2>4
<1> HIDE DEF change
<1>12. /\ new.deposit_balance = m.deposit_balance + change.added
       /\ new.borrow_balance = m.borrow_balance
       /\ new.cumulative_deposit_interest = index
       /\ new.cumulative_borrow_interest = m.cumulative_borrow_interest + interest.borrow
  <2>1. grown.balance_type[RevenuePool] = "Deposit" /\ RevenuePool \in Holders
    BY <1>5, <1>9, HoldersAssumption DEF Holders
  <2>2. /\ new.deposit_balance = grown.deposit_balance + (change.added - change.removed)
        /\ new.borrow_balance = grown.borrow_balance + (0 - 0)
        /\ new.cumulative_deposit_interest = grown.cumulative_deposit_interest
        /\ new.cumulative_borrow_interest = grown.cumulative_borrow_interest
    BY <1>4, <1>9, <2>1 DEF update_spot_balances, Markets, change
  <2>3. /\ m.deposit_balance + (change.added - change.removed) = m.deposit_balance + change.added
        /\ m.borrow_balance + (0 - 0) = m.borrow_balance
    <3>1. change.added \in Nat /\ change.removed = 0
      BY <1>10, <1>11
    <3> QED
      BY <1>5, <3>1
  <2> QED
    BY <1>9, <2>2, <2>3, Zenon
<1>13. /\ (m.deposit_balance + change.added) * index = m.deposit_balance * index + change.added * index
       /\ m.deposit_balance * index \in Int /\ change.added * index \in Int
  BY <1>5, <1>6, <1>11
<1>14. m.deposit_balance * index + shared
         = m.deposit_balance * (m.cumulative_deposit_interest + interest.deposit)
  BY <1>2, <1>5 DEF index
<1>15. (m.deposit_balance + change.added) * index
         <= m.deposit_balance * (m.cumulative_deposit_interest + interest.deposit)
  <2> HIDE DEF shared
  <2>1. shared \in Nat /\ priced \in Int /\ priced <= shared
    BY <1>7, <1>8, PrecisionAssumption DEF shared
  <2> HIDE DEF priced
  <2> QED
    BY <1>8, <1>11, <1>13, <1>14, <2>1
<1>16. index > m.cumulative_deposit_interest
  BY <1>2, <1>3, <1>5 DEF index
<1> QED
  BY <1>2, <1>3, <1>12, <1>15, <1>16 DEF interest, new

(* Interest accrues only when somebody lends, and then each index earns    *)
(* what the rates say, rounded against the lender and against the debtor.  *)
LEMMA RatesOfInterest ==
  ASSUME NEW m \in Markets, NEW time \in Nat, Timely(m, time),
         AccruesInterest(m, time), BacksWithdrawals(m),
         DepositTokens(m) \in Nat, BorrowTokens(m) \in Nat
  PROVE  LET interest == calculate_accumulated_interest(m, time)
         IN  /\ DepositTokens(m) # 0
             /\ \E u, R, lent \in Nat :
                  /\ u * DepositTokens(m) <= BorrowTokens(m) * SPOT_UTILIZATION_PRECISION
                  /\ lent * SPOT_UTILIZATION_PRECISION <= R * u
                  /\ interest.deposit * RatePeriod <= m.cumulative_deposit_interest * lent
                  /\ m.cumulative_borrow_interest * R <= interest.borrow * RatePeriod
                  /\ R <= max_borrow_rate * (time - m.last_interest_ts)
<1> DEFINE U == SPOT_UTILIZATION_PRECISION
           D == DepositTokens(m)
           B == BorrowTokens(m)
           u == Utilization(m)
           elapsed == time - m.last_interest_ts
           R == BorrowRate(u) * elapsed
           lent == (R * u) \div U
           b == (m.cumulative_borrow_interest * R) \div RatePeriod
           d == (m.cumulative_deposit_interest * lent) \div RatePeriod
           interest == calculate_accumulated_interest(m, time)
<1>1. /\ elapsed \in Nat
      /\ m.cumulative_borrow_interest \in Nat
      /\ m.cumulative_deposit_interest \in Nat
      /\ U \in Nat \ {0} /\ RatePeriod \in Nat \ {0} /\ max_borrow_rate \in Nat
  BY PrecisionAssumption, RateAssumption DEF Markets, Timely
<1>2. u \in Nat /\ BorrowRate(u) \in Nat
  BY UtilizationNat, BorrowRateNat
<1>3. interest = IF u = 0 THEN [borrow |-> 0, deposit |-> 0]
                          ELSE [borrow |-> b + 1, deposit |-> d]
  BY DEF calculate_accumulated_interest
<1>4. interest.deposit > 0
  BY DEF AccruesInterest
<1>5. u # 0
  BY <1>3, <1>4
<1>6. B <= D
  BY DEF BacksWithdrawals
<1>7. u = IF D # 0 THEN (B * U) \div D ELSE IF B = 0 THEN 0 ELSE U
  BY DEF Utilization, calculate_utilization
<1> HIDE DEF D, B, u, R, lent, b, d, interest, elapsed, U
<1>8. D \in Nat /\ B \in Nat
  BY DEF D, B
<1>9. D # 0 /\ u = (B * U) \div D
  BY <1>5, <1>6, <1>7, <1>8
<1>10. u * D <= B * U
  <2>1. B * U \in Nat /\ D \in Nat \ {0}
    BY <1>1, <1>8, <1>9, MulNat
  <2> DEFINE a == B * U
  <2>2. u = a \div D
    BY <1>9
  <2> HIDE DEF a
  <2> QED
    BY <2>1, <2>2, DivBounds DEF a
<1>11. u <= U
  <2>1. B * U <= D * U
    BY <1>1, <1>6, <1>8, MulMono
  <2>2. u * D <= U * D
    BY <1>1, <1>2, <1>8, <1>10, <2>1
  <2> QED
    BY <1>1, <1>2, <1>8, <1>9, <2>2, MulCancel
<1>12. BorrowRate(u) <= max_borrow_rate
  BY <1>2, <1>11, BorrowRateMax DEF U
<1> DEFINE rate == BorrowRate(u)
<1>13. rate \in Nat /\ rate <= max_borrow_rate /\ R = rate * elapsed
  BY <1>2, <1>12 DEF R
<1> HIDE DEF rate
<1>14. R \in Nat /\ R <= max_borrow_rate * elapsed
  BY <1>1, <1>13, MulNat, MulMono
<1>15. lent \in Nat /\ lent * U <= R * u
  <2> DEFINE a == R * u
  <2>1. a \in Nat /\ lent = a \div U
    BY <1>2, <1>14, MulNat DEF lent
  <2> HIDE DEF a
  <2> QED
    BY <1>1, <2>1, DivBounds DEF a
<1>16. d \in Nat /\ d * RatePeriod <= m.cumulative_deposit_interest * lent
  <2> DEFINE a == m.cumulative_deposit_interest * lent
  <2>1. a \in Nat /\ d = a \div RatePeriod
    BY <1>1, <1>15, MulNat DEF d
  <2> HIDE DEF a
  <2> QED
    BY <1>1, <2>1, DivBounds DEF a
<1>17. b \in Nat /\ m.cumulative_borrow_interest * R <= (b + 1) * RatePeriod
  <2> DEFINE a == m.cumulative_borrow_interest * R
  <2>1. a \in Nat /\ b = a \div RatePeriod
    BY <1>1, <1>14, MulNat DEF b
  <2> HIDE DEF a
  <2>2. b \in Nat /\ a < b * RatePeriod + RatePeriod
    BY <1>1, <2>1, DivBounds
  <2>3. (b + 1) * RatePeriod = b * RatePeriod + RatePeriod /\ b * RatePeriod \in Int
    BY <1>1, <2>2
  <2>4. a <= (b + 1) * RatePeriod
    BY <1>1, <2>1, <2>2, <2>3
  <2> QED
    BY <2>2, <2>4 DEF a
<1>18. interest.deposit = d /\ interest.borrow = b + 1
  BY <1>3, <1>5
<1>19. /\ interest.deposit * RatePeriod <= m.cumulative_deposit_interest * lent
       /\ m.cumulative_borrow_interest * R <= interest.borrow * RatePeriod
  BY <1>16, <1>17, <1>18, Zenon
<1>20. \E v, S, l \in Nat :
          /\ v * D <= B * U
          /\ l * U <= S * v
          /\ interest.deposit * RatePeriod <= m.cumulative_deposit_interest * l
          /\ m.cumulative_borrow_interest * S <= interest.borrow * RatePeriod
          /\ S <= max_borrow_rate * elapsed
  <2>1. u \in Nat /\ R \in Nat /\ lent \in Nat
    BY <1>2, <1>14, <1>15
  <2> QED
    BY <1>10, <1>14, <1>15, <1>19, <2>1, Zenon
<1> QED
  BY <1>9, <1>20 DEF D, B, U, interest, elapsed

(* What an accrual adds to the claims of depositors: the totals after it   *)
(* are worth no more than two tokens above what they were worth before.    *)
LEMMA ClaimArithmetic ==
  ASSUME NEW T \in Nat \ {0}, NEW c \in Nat, NEW k \in Nat, NEW d \in Nat, NEW e \in Nat,
         NEW D \in Nat, NEW B \in Nat, NEW dep \in Nat, NEW bor \in Nat,
         NEW D1 \in Nat, NEW B1 \in Nat, NEW worth \in Nat,
         d * c < D * T + T, B * T < e * k + T,
         D1 * T <= worth, worth <= d * (c + dep), e * (k + bor) <= B1 * T,
         d * dep <= e * bor + T
  PROVE  D1 - B1 <= D - B + 2
<1>1. /\ d * (c + dep) = d * c + d * dep
      /\ e * (k + bor) = e * k + e * bor
  OBVIOUS
<1> DEFINE dc == d * c
           dd == d * dep
           ek == e * k
           eb == e * bor
           x == D1 * T
           y == B1 * T
<1>2. /\ dc \in Int /\ dd \in Int /\ ek \in Int /\ eb \in Int
      /\ x \in Int /\ y \in Int /\ D * T \in Int /\ B * T \in Int
  OBVIOUS
<1>3. x <= dc + dd /\ ek + eb <= y /\ dc < D * T + T /\ B * T < ek + T /\ dd <= eb + T
  <2>1. x <= worth /\ worth <= dc + dd /\ ek + eb <= y
    BY <1>1
  <2> HIDE DEF x, y, dc, dd, ek, eb
  <2>2. x <= dc + dd
    BY <1>2, <2>1
  <2> QED
    BY <2>1, <2>2 DEF x, y, dc, dd, ek, eb
<1>4. x - y < D * T + T + T + T - B * T
  <2> DEFINE p == D * T
             q == B * T
  <2>1. p \in Int /\ q \in Int /\ dc < p + T /\ q < ek + T
    BY <1>2, <1>3
  <2> HIDE DEF x, y, dc, dd, ek, eb, p, q
  <2>2. x - y < p + T + T + T - q
    BY <1>2, <1>3, <2>1
  <2> QED
    BY <2>2 DEF p, q
<1>5. (D1 - B1) * T = x - y /\ (D - B + 3) * T = D * T + T + T + T - B * T
  OBVIOUS
<1>6. (D1 - B1) * T < (D - B + 3) * T
  BY <1>4, <1>5
<1> DEFINE p == D1 - B1
           q == D - B + 3
<1>7. p \in Int /\ q \in Int
  OBVIOUS
<1>8. p < q
  <2>1. p * T < q * T
    BY <1>6
  <2> HIDE DEF p, q, x, y, dc, dd, ek, eb
  <2>2. ~(q <= p)
    <3>1. q <= p => q * T <= p * T
      BY <1>7
    <3>2. q * T \in Int /\ p * T \in Int
      BY <1>7
    <3> QED
      BY <2>1, <3>1, <3>2
  <2> QED
    BY <1>7, <2>2
<1> QED
  BY <1>8

(* What the two totals are worth in tokens.                                *)
LEMMA TotalsBounds ==
  ASSUME NEW m \in Markets
  PROVE  /\ DepositTokens(m) \in Nat /\ BorrowTokens(m) \in Nat
         /\ DepositTokens(m) * TokenPrecision <= m.deposit_balance * m.cumulative_deposit_interest
         /\ m.deposit_balance * m.cumulative_deposit_interest
              < DepositTokens(m) * TokenPrecision + TokenPrecision
         /\ m.borrow_balance * m.cumulative_borrow_interest <= BorrowTokens(m) * TokenPrecision
         /\ BorrowTokens(m) * TokenPrecision
              < m.borrow_balance * m.cumulative_borrow_interest + TokenPrecision
<1> DEFINE x == m.deposit_balance * m.cumulative_deposit_interest
           y == m.borrow_balance * m.cumulative_borrow_interest
<1>1. x \in Nat /\ y \in Nat
  <2>1. /\ m.deposit_balance \in Nat /\ m.borrow_balance \in Nat
        /\ m.cumulative_deposit_interest \in Nat /\ m.cumulative_borrow_interest \in Nat
    BY DEF Markets
  <2> QED
    BY <2>1, MulNat
<1>2. DepositTokens(m) = x \div TokenPrecision /\ BorrowTokens(m) = CeilDiv(y, TokenPrecision)
  BY DEF DepositTokens, BorrowTokens, get_token_amount
<1> HIDE DEF x, y
<1>3. /\ x \div TokenPrecision \in Nat
      /\ (x \div TokenPrecision) * TokenPrecision <= x
      /\ x < (x \div TokenPrecision) * TokenPrecision + TokenPrecision
  BY <1>1, PrecisionAssumption, DivBounds
<1>4. /\ CeilDiv(y, TokenPrecision) \in Nat
      /\ y <= CeilDiv(y, TokenPrecision) * TokenPrecision
      /\ CeilDiv(y, TokenPrecision) * TokenPrecision < y + TokenPrecision
  BY <1>1, PrecisionAssumption, CeilDivBounds
<1> QED
  BY <1>2, <1>3, <1>4, Zenon DEF x, y

(* Accruing interest adds at most two tokens to the claims of depositors.  *)
LEMMA InterestClaim ==
  ASSUME NEW m, NEW time \in Nat, Sound(m, time), BacksWithdrawals(m),
         2 * max_borrow_rate * (time - m.last_interest_ts) <= RatePeriod
  PROVE  DepositorsClaim(update_spot_market_cumulative_interest(m, time))
           <= DepositorsClaim(m) + 2
<1> DEFINE accrued == IF AccruesInterest(m, time) THEN AccrueInterest(m, time) ELSE m
<1>1. m \in Markets /\ SoundLedger(m) /\ Timely(m, time)
  BY DEF Sound, SoundLedger
<1>2. accrued \in Markets
  BY <1>1, AccruePreserves DEF SoundLedger
<1>3. DepositorsClaim(update_spot_market_cumulative_interest(m, time)) = DepositorsClaim(accrued)
  <2> HIDE DEF accrued
  <2>1. DepositorsClaim(update_spot_market_twap_stats(accrued, time)) = DepositorsClaim(accrued)
    BY <1>2, TwapKeepsTotals
  <2> QED
    BY <2>1 DEF update_spot_market_cumulative_interest, accrued
<1>4. DepositorsClaim(m) \in Int
  BY <1>1, TotalsBounds DEF DepositorsClaim
<1>5. ASSUME ~AccruesInterest(m, time)
      PROVE  DepositorsClaim(accrued) <= DepositorsClaim(m) + 2
  BY <1>4, <1>5
<1>6. ASSUME AccruesInterest(m, time)
      PROVE  DepositorsClaim(accrued) <= DepositorsClaim(m) + 2
  <2> DEFINE T == TokenPrecision
             U == SPOT_UTILIZATION_PRECISION
             P == RatePeriod
             interest == calculate_accumulated_interest(m, time)
             new == AccrueInterest(m, time)
             dep == interest.deposit
             bor == interest.borrow
             c == m.cumulative_deposit_interest
             k == m.cumulative_borrow_interest
             d == m.deposit_balance
             e == m.borrow_balance
             D == DepositTokens(m)
             B == BorrowTokens(m)
             D1 == DepositTokens(new)
             B1 == BorrowTokens(new)
             worth == new.deposit_balance * new.cumulative_deposit_interest
             owed == new.borrow_balance * new.cumulative_borrow_interest
             longest == max_borrow_rate * (time - m.last_interest_ts)
  <2>1. new \in Markets
    BY <1>2, <1>6
  <2>2. /\ dep \in Nat /\ bor \in Nat
        /\ new.borrow_balance = e
        /\ new.cumulative_borrow_interest = k + bor
        /\ worth <= d * (c + dep)
    BY <1>1, <1>6, AccrueFields
  <2>3. /\ c \in Nat /\ k \in Nat /\ d \in Nat /\ e \in Nat
        /\ new.deposit_balance \in Nat /\ new.cumulative_deposit_interest \in Nat
        /\ T \in Nat \ {0} /\ U \in Nat \ {0} /\ P \in Nat \ {0}
        /\ max_borrow_rate \in Nat /\ time - m.last_interest_ts \in Nat
    BY <1>1, <2>1, PrecisionAssumption, RateAssumption DEF Markets, Timely
  <2>4. worth \in Nat
    BY <2>3, MulNat
  <2>5. D \in Nat /\ B \in Nat /\ d * c < D * T + T /\ B * T < e * k + T
    BY <1>1, TotalsBounds
  <2>6. D1 \in Nat /\ B1 \in Nat /\ D1 * T <= worth /\ owed <= B1 * T
    BY <2>1, TotalsBounds
  <2>7. e * (k + bor) <= B1 * T
    BY <2>2, <2>6, Zenon
  <2>8. /\ D # 0
        /\ \E u, R, lent \in Nat :
             /\ u * D <= B * U
             /\ lent * U <= R * u
             /\ dep * P <= c * lent
             /\ k * R <= bor * P
             /\ R <= longest
    BY <1>1, <1>6, <2>5, RatesOfInterest
  <2>9. B <= D
    BY DEF BacksWithdrawals
  <2>10. longest \in Nat /\ 2 * longest <= P
    <3>1. longest \in Nat
      BY <2>3, MulNat
    <3>2. 2 * max_borrow_rate * (time - m.last_interest_ts) = 2 * longest
      BY <2>3
    <3> QED
      BY <3>1, <3>2
  <2> HIDE DEF T, U, P, interest, new, dep, bor, c, k, d, e, D, B, D1, B1, worth, owed, longest
  <2>11. PICK u \in Nat, R \in Nat, lent \in Nat :
             /\ u * D <= B * U
             /\ lent * U <= R * u
             /\ dep * P <= c * lent
             /\ k * R <= bor * P
             /\ R <= longest
    BY <2>8
  <2>12. 2 * R <= P
    BY <2>3, <2>10, <2>11
  <2>13. d * dep <= e * bor + T
    BY <2>2, <2>3, <2>5, <2>8, <2>9, <2>11, <2>12, InterestArithmetic
  <2>14. D1 - B1 <= D - B + 2
    BY <2>2, <2>3, <2>4, <2>5, <2>6, <2>7, <2>13, ClaimArithmetic
  <2>15. DepositorsClaim(new) = D1 - B1 /\ DepositorsClaim(m) = D - B
    BY DEF DepositorsClaim, D1, B1, D, B
  <2>16. accrued = new
    BY <1>6 DEF new
  <2> QED
    BY <2>14, <2>15, <2>16
<1> QED
  BY <1>3, <1>5, <1>6

(* Interest moves value from borrowers to lenders and to the revenue pool  *)
(* and creates none beyond two tokens of rounding: in every reachable      *)
(* state, whatever the rates, the precisions and the balances are.         *)
THEOREM InterestAlwaysPaidByBorrowers == Spec => []InterestIsPaidByBorrowers
<1>1. Inv => InterestIsPaidByBorrowers
  <2> SUFFICES ASSUME Inv PROVE InterestIsPaidByBorrowers
    OBVIOUS
  <2>1. Sound(mk, now) /\ now \in Nat
    BY InvParts DEF OthersOK
  <2> QED
    BY <2>1, InterestClaim DEF InterestIsPaidByBorrowers
<1> QED
  BY <1>1, Invariance, PTL

(***************************************************************************)
(* Action properties: what a step may do to the indices, to the clocks and *)
(* to the averages.  update_spot_balances leaves all of them alone, so the *)
(* interest accrued at the start of an instruction decides.                *)
(***************************************************************************)

Fields ==
  { "scaled_balance", "balance_type", "deposit_balance", "borrow_balance",
    "cumulative_deposit_interest", "cumulative_borrow_interest",
    "deposit_token_twap", "borrow_token_twap", "utilization_twap",
    "last_interest_ts", "last_twap_ts" }

Shaped(m) == DOMAIN m = Fields

(* b differs from a in balances only.                                      *)
SameClocks(a, b) ==
  /\ Shaped(b)
  /\ b.cumulative_deposit_interest = a.cumulative_deposit_interest
  /\ b.cumulative_borrow_interest = a.cumulative_borrow_interest
  /\ b.deposit_token_twap = a.deposit_token_twap
  /\ b.borrow_token_twap = a.borrow_token_twap
  /\ b.utilization_twap = a.utilization_twap
  /\ b.last_interest_ts = a.last_interest_ts
  /\ b.last_twap_ts = a.last_twap_ts

(* What an instruction executed at `time' may do to market a.              *)
Moves(a, b, time) ==
  /\ b.cumulative_deposit_interest >= a.cumulative_deposit_interest
  /\ b.last_interest_ts # a.last_interest_ts
     => /\ b.cumulative_borrow_interest > a.cumulative_borrow_interest
        /\ b.cumulative_deposit_interest > a.cumulative_deposit_interest
  /\ a.last_twap_ts = time
     => /\ b.deposit_token_twap = a.deposit_token_twap
        /\ b.borrow_token_twap = a.borrow_token_twap
        /\ b.utilization_twap = a.utilization_twap

LEMMA MarketShape ==
  ASSUME NEW m \in Markets
  PROVE  Shaped(m)
BY DEF Markets, Shaped, Fields

LEMMA UpdateKeepsClocks ==
  ASSUME NEW m, Shaped(m), NEW h, NEW tokens, NEW direction, NEW leaving
  PROVE  SameClocks(m, update_spot_balances(m, h, tokens, direction, leaving))
BY DEF update_spot_balances, SameClocks, Shaped, Fields

LEMMA UpdateAgain ==
  ASSUME NEW a, NEW b, SameClocks(a, b), NEW h, NEW tokens, NEW direction, NEW leaving
  PROVE  SameClocks(a, update_spot_balances(b, h, tokens, direction, leaving))
<1> DEFINE c == update_spot_balances(b, h, tokens, direction, leaving)
<1>1. Shaped(b)
  BY DEF SameClocks
<1>2. SameClocks(b, c)
  BY <1>1, UpdateKeepsClocks
<1> HIDE DEF c
<1>3. SameClocks(a, c)
  BY <1>2 DEF SameClocks
<1> QED
  BY <1>3 DEF c

LEMMA MovesCompose ==
  ASSUME NEW a, NEW b, NEW c, NEW time, Moves(a, b, time), SameClocks(b, c)
  PROVE  Moves(a, c, time)
BY DEF SameClocks, Moves

LEMMA MovesNot ==
  ASSUME NEW a \in Markets, NEW time
  PROVE  Moves(a, a, time)
BY DEF Moves, Markets

(* An average over no time is the old average.                             *)
LEMMA NoTimeNoAverage ==
  ASSUME NEW new, NEW old, NEW w
  PROVE  calculate_weighted_average(new, old, 0, w) = old
BY DEF calculate_weighted_average

LEMMA TwapMoves ==
  ASSUME NEW m \in Markets, NEW time \in Nat
  PROVE  LET new == update_spot_market_twap_stats(m, time)
         IN  /\ Shaped(new)
             /\ new.cumulative_deposit_interest = m.cumulative_deposit_interest
             /\ new.cumulative_borrow_interest = m.cumulative_borrow_interest
             /\ new.last_interest_ts = m.last_interest_ts
             /\ m.last_twap_ts = time
                => /\ new.deposit_token_twap = m.deposit_token_twap
                   /\ new.borrow_token_twap = m.borrow_token_twap
                   /\ new.utilization_twap = m.utilization_twap
<1> DEFINE since == time - m.last_twap_ts
           start == Larger(1, TwapWindow - since)
           Average(new, old) == calculate_weighted_average(new, old, since, start)
           new == update_spot_market_twap_stats(m, time)
<1>1. /\ Shaped(new)
      /\ new.cumulative_deposit_interest = m.cumulative_deposit_interest
      /\ new.cumulative_borrow_interest = m.cumulative_borrow_interest
      /\ new.last_interest_ts = m.last_interest_ts
  BY DEF update_spot_market_twap_stats, Markets, Shaped, Fields
<1>2. /\ new.deposit_token_twap = Average(DepositTokens(m), m.deposit_token_twap)
      /\ new.borrow_token_twap = Average(BorrowTokens(m), m.borrow_token_twap)
      /\ new.utilization_twap = Average(Utilization(m), m.utilization_twap)
  BY DEF update_spot_market_twap_stats, Markets
<1>3. m.last_twap_ts = time => since = 0
  OBVIOUS
<1> HIDE DEF since, start, new
<1>4. m.last_twap_ts = time
      => /\ new.deposit_token_twap = m.deposit_token_twap
         /\ new.borrow_token_twap = m.borrow_token_twap
         /\ new.utilization_twap = m.utilization_twap
  BY <1>2, <1>3, NoTimeNoAverage
<1> QED
  BY <1>1, <1>4 DEF new

LEMMA AccrueMoves ==
  ASSUME NEW m, SoundLedger(m), NEW time \in Nat, Timely(m, time), AccruesInterest(m, time)
  PROVE  LET new == AccrueInterest(m, time)
         IN  /\ new.cumulative_deposit_interest > m.cumulative_deposit_interest
             /\ new.cumulative_borrow_interest > m.cumulative_borrow_interest
             /\ new.deposit_token_twap = m.deposit_token_twap
             /\ new.borrow_token_twap = m.borrow_token_twap
             /\ new.utilization_twap = m.utilization_twap
             /\ new.last_twap_ts = m.last_twap_ts
<1> DEFINE interest == calculate_accumulated_interest(m, time)
           stakers == InterestForStakers(interest)
           grown == [m EXCEPT
                      !.cumulative_deposit_interest = @ + (interest.deposit - stakers),
                      !.cumulative_borrow_interest = @ + interest.borrow,
                      !.last_interest_ts = time]
           revenue == (m.deposit_balance * stakers) \div TokenPrecision
           new == AccrueInterest(m, time)
<1>1. m \in Markets
  BY DEF SoundLedger
<1>2. new = update_spot_balances(grown, RevenuePool, revenue, "Deposit", FALSE)
  BY DEF AccrueInterest
<1>3. /\ Shaped(grown)
      /\ grown.deposit_token_twap = m.deposit_token_twap
      /\ grown.borrow_token_twap = m.borrow_token_twap
      /\ grown.utilization_twap = m.utilization_twap
      /\ grown.last_twap_ts = m.last_twap_ts
  BY <1>1 DEF Markets, Shaped, Fields
<1> HIDE DEF grown, revenue
<1>4. SameClocks(grown, new)
  BY <1>2, <1>3, UpdateKeepsClocks
<1>5. /\ new.cumulative_deposit_interest > m.cumulative_deposit_interest
      /\ interest.borrow \in Nat /\ interest.borrow > 1
      /\ new.cumulative_borrow_interest = m.cumulative_borrow_interest + interest.borrow
  BY AccrueFields
<1>6. m.cumulative_borrow_interest \in Nat
  BY <1>1 DEF Markets
<1> HIDE DEF interest, new
<1>7. new.cumulative_borrow_interest > m.cumulative_borrow_interest
  BY <1>5, <1>6
<1> QED
  BY <1>3, <1>4, <1>5, <1>7 DEF SameClocks, new

LEMMA InterestMoves ==
  ASSUME NEW m, NEW time \in Nat, Sound(m, time)
  PROVE  LET new == update_spot_market_cumulative_interest(m, time)
         IN  Shaped(new) /\ Moves(m, new, time)
<1> DEFINE accrued == IF AccruesInterest(m, time) THEN AccrueInterest(m, time) ELSE m
           new == update_spot_market_twap_stats(accrued, time)
<1>1. m \in Markets /\ SoundLedger(m) /\ Timely(m, time)
  BY DEF Sound, SoundLedger
<1>2. accrued \in Markets
  BY <1>1, AccruePreserves DEF SoundLedger
<1>3. /\ accrued.cumulative_deposit_interest >= m.cumulative_deposit_interest
      /\ accrued.last_interest_ts # m.last_interest_ts
         => /\ accrued.cumulative_borrow_interest > m.cumulative_borrow_interest
            /\ accrued.cumulative_deposit_interest > m.cumulative_deposit_interest
      /\ accrued.deposit_token_twap = m.deposit_token_twap
      /\ accrued.borrow_token_twap = m.borrow_token_twap
      /\ accrued.utilization_twap = m.utilization_twap
      /\ accrued.last_twap_ts = m.last_twap_ts
  <2>1. CASE AccruesInterest(m, time)
    <3>1. accrued = AccrueInterest(m, time)
      BY <2>1
    <3>2. m.cumulative_deposit_interest \in Nat /\ accrued.cumulative_deposit_interest \in Nat
      BY <1>1, <1>2 DEF Markets
    <3> HIDE DEF accrued
    <3> QED
      BY <1>1, <2>1, <3>1, <3>2, AccrueMoves
  <2>2. CASE ~AccruesInterest(m, time)
    <3>1. accrued = m
      BY <2>2
    <3> QED
      BY <1>1, <3>1 DEF Markets
  <2> QED
    BY <2>1, <2>2
<1> HIDE DEF accrued
<1>4. /\ Shaped(new)
      /\ new.cumulative_deposit_interest = accrued.cumulative_deposit_interest
      /\ new.cumulative_borrow_interest = accrued.cumulative_borrow_interest
      /\ new.last_interest_ts = accrued.last_interest_ts
      /\ accrued.last_twap_ts = time
         => /\ new.deposit_token_twap = accrued.deposit_token_twap
            /\ new.borrow_token_twap = accrued.borrow_token_twap
            /\ new.utilization_twap = accrued.utilization_twap
  BY <1>2, TwapMoves
<1>5. update_spot_market_cumulative_interest(m, time) = new
  BY DEF update_spot_market_cumulative_interest, accrued
<1> HIDE DEF new
<1>6. Moves(m, new, time)
  BY <1>3, <1>4 DEF Moves
<1> QED
  BY <1>4, <1>5, <1>6

(* An instruction that accrues interest and then updates balances.         *)
LEMMA AccrueThenUpdate ==
  ASSUME Inv, NEW new,
         SameClocks(update_spot_market_cumulative_interest(mk, now), new)
  PROVE  Moves(mk, new, now)
<1>1. Sound(mk, now) /\ now \in Nat
  BY InvParts DEF OthersOK
<1>2. Moves(mk, update_spot_market_cumulative_interest(mk, now), now)
  BY <1>1, InterestMoves
<1> QED
  BY <1>2, MovesCompose

LEMMA InterestShape ==
  ASSUME Inv
  PROVE  LET m == update_spot_market_cumulative_interest(mk, now)
         IN  Shaped(m) /\ SameClocks(m, m)
BY InvParts, InterestMoves DEF OthersOK, SameClocks

(* Every step but the resolution of a bankruptcy.                          *)
LEMMA StepMoves ==
  ASSUME Inv, [Next]_vars,
         ~(\E u \in Users, has_stakers \in BOOLEAN : ResolveSpotBankruptcy(u, has_stakers))
  PROVE  Moves(mk, mk', now)
<1> DEFINE m == update_spot_market_cumulative_interest(mk, now)
<1>0. Sound(mk, now) /\ now \in Nat /\ mk \in Markets
  BY InvParts, SoundMarket DEF OthersOK
<1>1. Shaped(m) /\ SameClocks(m, m)
  BY InterestShape
<1>2. Moves(mk, mk, now)
  BY <1>0, MovesNot
<1>3. CASE mk' = mk
  BY <1>2, <1>3
<1>4. ASSUME NEW u \in Users, NEW amount \in Amounts, NEW reduce_only \in BOOLEAN,
             Deposit(u, amount, reduce_only)
      PROVE  Moves(mk, mk', now)
  <2> DEFINE tokens == IF (status = "ReduceOnly" \/ reduce_only) /\ m.balance_type[u] = "Borrow"
                         THEN Smaller(TokensOf(m, u), amount) ELSE amount
  <2>1. mk' = update_spot_balances(m, u, tokens, "Deposit", FALSE)
    BY <1>4 DEF Deposit
  <2> HIDE DEF m, tokens
  <2>2. SameClocks(m, mk')
    BY <1>1, <2>1, UpdateKeepsClocks
  <2> QED
    BY <2>2, AccrueThenUpdate DEF m
<1>5. ASSUME NEW u \in Users, NEW amount \in Amounts, NEW reduce_only \in BOOLEAN,
             NEW pays_fee \in BOOLEAN, NEW net \in BOOLEAN,
             Withdraw(u, amount, reduce_only, pays_fee, net)
      PROVE  Moves(mk, mk', now)
  <2> DEFINE fee == IF pays_fee THEN WithdrawFee ELSE 0
             first == update_spot_balances(m, RevenuePool, fee, "Deposit", FALSE)
             second == update_spot_balances(first, u, fee, "Borrow", FALSE)
             charged == IF pays_fee THEN charge_withdraw_fee(m, u, fee) ELSE m
             asked == IF reduce_only \/ status = "ReduceOnly"
                        THEN Smaller(amount, TokensOf(m, u)) ELSE amount
             tokens == asked - fee
  <2>1. mk' = update_spot_balances(charged, u, tokens, "Borrow", TRUE)
    BY <1>5 DEF Withdraw
  <2>2. charged = m \/ charged = second
    BY DEF charge_withdraw_fee
  <2> HIDE DEF m, fee, charged, tokens
  <2>3. SameClocks(m, first)
    BY <1>1, UpdateKeepsClocks
  <2> HIDE DEF first
  <2>4. SameClocks(m, second)
    BY <2>3, UpdateAgain
  <2> HIDE DEF second
  <2>5. SameClocks(m, charged)
    BY <1>1, <2>2, <2>4
  <2>6. SameClocks(m, mk')
    BY <2>1, <2>5, UpdateAgain
  <2> QED
    BY <2>6, AccrueThenUpdate DEF m
<1>6. ASSUME NEW from \in Users, NEW to \in Users, NEW amount \in Amounts, NEW net \in BOOLEAN,
             TransferDeposit(from, to, amount, net)
      PROVE  Moves(mk, mk', now)
  <2> DEFINE taken == update_spot_balances(m, from, amount, "Borrow", TRUE)
  <2>1. mk' = update_spot_balances(taken, to, amount, "Deposit", FALSE)
    BY <1>6 DEF TransferDeposit
  <2> HIDE DEF m
  <2>2. SameClocks(m, taken)
    BY <1>1, UpdateKeepsClocks
  <2> HIDE DEF taken
  <2>3. SameClocks(m, mk')
    BY <2>1, <2>2, UpdateAgain
  <2> QED
    BY <2>3, AccrueThenUpdate DEF m
<1>7. ASSUME NEW amount \in Amounts, DepositIntoRevenuePool(amount)
      PROVE  Moves(mk, mk', now)
  <2>1. mk' = update_spot_balances(mk, RevenuePool, amount, "Deposit", FALSE)
    BY <1>7 DEF DepositIntoRevenuePool
  <2>2. SameClocks(mk, mk')
    BY <1>0, <2>1, MarketShape, UpdateKeepsClocks
  <2> QED
    BY <1>2, <2>2, MovesCompose
<1>8. ASSUME NEW u \in Users, ReuseSpotPosition(u)
      PROVE  Moves(mk, mk', now)
  <2>1. mk' = [mk EXCEPT !.balance_type[u] = "Deposit"]
    BY <1>8 DEF ReuseSpotPosition
  <2>2. SameClocks(mk, mk')
    BY <1>0, <2>1 DEF SameClocks, Shaped, Fields, Markets
  <2> QED
    BY <1>2, <2>2, MovesCompose
<1>9. ASSUME NEW u \in Users, NEW pool \in Pools, NEW amount \in Amounts,
             NEW direction \in SpotBalanceType, SettlePnl(u, pool, amount, direction)
      PROVE  Moves(mk, mk', now)
  <2> DEFINE paid == update_spot_balances(m, pool, amount, direction, FALSE)
  <2>1. mk' = update_spot_balances(paid, u, amount, Opposite(direction), FALSE)
    BY <1>9 DEF SettlePnl, transfer_spot_balances
  <2> HIDE DEF m
  <2>2. SameClocks(m, paid)
    BY <1>1, UpdateKeepsClocks
  <2> HIDE DEF paid
  <2>3. SameClocks(m, mk')
    BY <2>1, <2>2, UpdateAgain
  <2> QED
    BY <2>3, AccrueThenUpdate DEF m
<1>10. ASSUME NEW u \in Users, NEW liquidator \in Users, NEW amount \in Amounts,
              LiquidateLiability(u, liquidator, amount)
       PROVE  Moves(mk, mk', now)
  <2> DEFINE fee == Smaller(LiquidationFee, amount)
             repaid == update_spot_balances(m, u, amount - fee, "Deposit", FALSE)
             charged == update_spot_balances(repaid, RevenuePool, fee, "Deposit", FALSE)
  <2>1. mk' = update_spot_balances(charged, liquidator, amount, "Borrow", FALSE)
    BY <1>10 DEF LiquidateLiability
  <2> HIDE DEF m, fee
  <2>2. SameClocks(m, repaid)
    BY <1>1, UpdateKeepsClocks
  <2> HIDE DEF repaid
  <2>3. SameClocks(m, charged)
    BY <2>2, UpdateAgain
  <2> HIDE DEF charged
  <2>4. SameClocks(m, mk')
    BY <2>1, <2>3, UpdateAgain
  <2> QED
    BY <2>4, AccrueThenUpdate DEF m
<1>11. ASSUME NEW u \in Users, NEW liquidator \in Users, NEW amount \in Amounts,
              LiquidateAsset(u, liquidator, amount)
       PROVE  Moves(mk, mk', now)
  <2> DEFINE given == update_spot_balances(m, liquidator, amount, "Deposit", FALSE)
  <2>1. mk' = update_spot_balances(given, u, amount, "Borrow", FALSE)
    BY <1>11 DEF LiquidateAsset
  <2> HIDE DEF m
  <2>2. SameClocks(m, given)
    BY <1>1, UpdateKeepsClocks
  <2> HIDE DEF given
  <2>3. SameClocks(m, mk')
    BY <2>1, <2>2, UpdateAgain
  <2> QED
    BY <2>3, AccrueThenUpdate DEF m
<1>12. ASSUME NEW funding_paused \in BOOLEAN, UpdateCumulativeInterest(funding_paused)
       PROVE  Moves(mk, mk', now)
  <2>1. mk' = update_spot_market_twap_stats(mk, now) \/ mk' = m
    BY <1>12 DEF UpdateCumulativeInterest
  <2>2. CASE mk' = m
    BY <1>1, <2>2, AccrueThenUpdate
  <2>3. CASE mk' = update_spot_market_twap_stats(mk, now)
    <3>1. mk.cumulative_deposit_interest \in Nat
      BY <1>0 DEF Markets
    <3> QED
      BY <1>0, <2>3, <3>1, TwapMoves DEF Moves
  <2> QED
    BY <2>1, <2>2, <2>3
<1>13. ASSUME NEW has_stakers \in BOOLEAN, SettleRevenueToInsuranceFund(has_stakers)
       PROVE  Moves(mk, mk', now)
  <2>1. mk' = settle_revenue(m, has_stakers)
    BY <1>13 DEF SettleRevenueToInsuranceFund
  <2> HIDE DEF m
  <2>2. SameClocks(m, mk')
    BY <1>1, <2>1, UpdateKeepsClocks DEF settle_revenue
  <2> QED
    BY <2>2, AccrueThenUpdate DEF m
<1>14. CASE Tick \/ UNCHANGED vars \/ \E new_status \in Statuses : UpdateStatus(new_status)
  BY <1>3, <1>14 DEF Tick, vars, UpdateStatus
<1> QED
  BY <1>4, <1>5, <1>6, <1>7, <1>8, <1>9, <1>10, <1>11, <1>12, <1>13, <1>14 DEF Next

(* An update leaves the balances of all other holders alone.               *)
LEMMA UpdateOthers ==
  ASSUME NEW m \in Markets, NEW h \in Holders, NEW g \in Holders, g # h,
         NEW tokens, NEW direction, NEW leaving
  PROVE  update_spot_balances(m, h, tokens, direction, leaving).scaled_balance[g]
           = m.scaled_balance[g]
<1> DEFINE change == BalanceChange(m, h, tokens, direction, leaving)
           new == update_spot_balances(m, h, tokens, direction, leaving)
<1>1. new.scaled_balance = [m.scaled_balance EXCEPT ![h] = (@ - change.removed) + change.added]
  BY DEF update_spot_balances, Markets
<1>2. m.scaled_balance \in [Holders -> Nat]
  BY DEF Markets
<1> HIDE DEF new, change
<1>3. new.scaled_balance[g] = m.scaled_balance[g]
  BY <1>1, <1>2
<1> QED
  BY <1>3 DEF new

(* A user's balance is not touched by the accrual of interest.             *)
LEMMA InterestOthers ==
  ASSUME NEW m, NEW time \in Nat, Sound(m, time), NEW u \in Users
  PROVE  update_spot_market_cumulative_interest(m, time).scaled_balance[u] = m.scaled_balance[u]
<1> DEFINE accrued == IF AccruesInterest(m, time) THEN AccrueInterest(m, time) ELSE m
           interest == calculate_accumulated_interest(m, time)
           stakers == InterestForStakers(interest)
           index == m.cumulative_deposit_interest + (interest.deposit - stakers)
           debt == m.cumulative_borrow_interest + interest.borrow
           grown == [m EXCEPT !.cumulative_deposit_interest = index,
                              !.cumulative_borrow_interest = debt,
                              !.last_interest_ts = time]
           revenue == (m.deposit_balance * stakers) \div TokenPrecision
<1>1. m \in Markets /\ SoundLedger(m) /\ Timely(m, time)
  BY DEF Sound, SoundLedger
<1>2. u \in Holders /\ RevenuePool \in Holders /\ u # RevenuePool
  BY HoldersFinite, HoldersAssumption
<1>3. accrued \in Markets
  BY <1>1, AccruePreserves DEF SoundLedger
<1>4. accrued.scaled_balance[u] = m.scaled_balance[u]
  <2>1. CASE AccruesInterest(m, time)
    <3>1. accrued = update_spot_balances(grown, RevenuePool, revenue, "Deposit", FALSE)
      BY <1>1, <2>1 DEF AccrueInterest, Markets
    <3>2. index \in Nat /\ debt \in Nat
      <4>1. interest.borrow \in Nat /\ interest.deposit \in Nat /\ stakers \in Nat
        BY <1>1, AccumulatedInterestNat
      <4>2. interest.deposit > stakers
        BY <2>1 DEF AccruesInterest
      <4>3. m.cumulative_deposit_interest \in Nat /\ m.cumulative_borrow_interest \in Nat
        BY <1>1 DEF Markets
      <4> HIDE DEF interest, stakers
      <4> QED
        BY <4>1, <4>2, <4>3
    <3> HIDE DEF index, debt, revenue
    <3>3. grown \in Markets /\ grown.scaled_balance = m.scaled_balance
      BY <1>1, <3>2 DEF Markets
    <3> HIDE DEF grown, accrued
    <3>4. accrued.scaled_balance[u] = grown.scaled_balance[u]
      <4> DEFINE direction == "Deposit"
                 leaving == FALSE
      <4>1. accrued = update_spot_balances(grown, RevenuePool, revenue, direction, leaving)
        BY <3>1
      <4> HIDE DEF direction, leaving
      <4> QED
        BY <1>2, <3>3, <4>1, UpdateOthers
    <3> QED
      BY <3>3, <3>4
  <2>2. CASE ~AccruesInterest(m, time)
    BY <2>2
  <2> QED
    BY <2>1, <2>2
<1> HIDE DEF accrued
<1>5. update_spot_market_twap_stats(accrued, time).scaled_balance = accrued.scaled_balance
  BY <1>3, TwapKeepsTotals
<1> QED
  BY <1>4, <1>5 DEF update_spot_market_cumulative_interest, accrued

(* Paying all that is owed closes the position.                            *)
LEMMA ClosedPosition ==
  ASSUME NEW m \in Markets, NEW u \in Holders, m.balance_type[u] = "Borrow",
         m.cumulative_borrow_interest > 0
  PROVE  update_spot_balances(m, u, TokensOf(m, u), "Deposit", FALSE).scaled_balance[u] = 0
<1> DEFINE owed == TokensOf(m, u)
           change == BalanceChange(m, u, owed, "Deposit", FALSE)
           new == update_spot_balances(m, u, owed, "Deposit", FALSE)
<1>1. owed \in Nat /\ m.scaled_balance[u] \in Nat /\ (owed = 0 => m.scaled_balance[u] = 0)
  BY TokensOfNat DEF Markets
<1>2. new.scaled_balance = [m.scaled_balance EXCEPT ![u] = (@ - change.removed) + change.added]
  BY DEF update_spot_balances, Markets
<1>3. SaturatingSub(owed, owed) = 0 /\ ~(owed > owed)
  BY <1>1 DEF SaturatingSub
<1>4. change.removed = (IF owed = 0 THEN 0 ELSE m.scaled_balance[u]) /\ change.added = 0
  BY <1>3 DEF BalanceChange
<1>5. m.scaled_balance \in [Holders -> Nat]
  BY DEF Markets
<1> HIDE DEF owed, change, new
<1>6. change.removed = m.scaled_balance[u] /\ change.added = 0
  BY <1>1, <1>4
<1>7. new.scaled_balance[u] = (m.scaled_balance[u] - change.removed) + change.added
  BY <1>2, <1>5
<1>8. new.scaled_balance[u] = 0
  BY <1>1, <1>6, <1>7
<1> QED
  BY <1>8 DEF new, owed

(* There is nothing to take from depositors when nothing is lost.          *)
LEMMA NoLossNoDelta ==
  ASSUME NEW m \in Markets
  PROVE  DepositInterestDelta(m, 0) = 0
<1> DEFINE D == DepositTokens(m)
<1>1. D \in Nat
  BY UtilizationNat
<1>2. m.cumulative_deposit_interest * 0 = 0
  BY DEF Markets
<1> HIDE DEF D
<1>3. D # 0 => CeilDiv(0, D) = 0
  BY <1>1 DEF CeilDiv
<1> QED
  BY <1>2, <1>3 DEF DepositInterestDelta, D

(* The resolution of a bankruptcy moves the market as every instruction    *)
(* does, up to the loss it takes out of the deposit index; and when it     *)
(* takes any, the insurance fund has one token left at most.               *)
LEMMA BankruptcyMoves ==
  ASSUME Inv, NEW u \in Users, NEW has_stakers \in BOOLEAN,
         ResolveSpotBankruptcy(u, has_stakers)
  PROVE  /\ mk'.last_interest_ts # mk.last_interest_ts
            => /\ mk'.cumulative_borrow_interest > mk.cumulative_borrow_interest
               /\ \/ mk'.cumulative_deposit_interest > mk.cumulative_deposit_interest
                  \/ insurance_vault' <= 1
         /\ mk.last_twap_ts = now
            => /\ mk'.deposit_token_twap = mk.deposit_token_twap
               /\ mk'.borrow_token_twap = mk.borrow_token_twap
               /\ mk'.utilization_twap = mk.utilization_twap
         /\ mk'.cumulative_deposit_interest < mk.cumulative_deposit_interest
            => insurance_vault' <= 1
         /\ mk.scaled_balance[u] > 0 /\ mk'.scaled_balance[u] = 0
<1> DEFINE accrued == update_spot_market_cumulative_interest(mk, now)
           settled == IF RevenueIsDue THEN RevenueToSettle(accrued, has_stakers) ELSE 0
           m == IF RevenueIsDue THEN settle_revenue(accrued, has_stakers) ELSE mk
           borrow == TokensOf(m, u)
           insurance == insurance_vault + settled
           if_payment == InsurancePayment(borrow, insurance)
           loss == borrow - if_payment
           delta == DepositInterestDelta(m, loss)
           closed == update_spot_balances(m, u, borrow, "Deposit", FALSE)
<1>0. Sound(mk, now) /\ now \in Nat /\ insurance_vault \in Nat /\ mk \in Markets
  BY InvParts, SoundMarket DEF OthersOK
<1>1. Sound(accrued, now) /\ accrued.scaled_balance[u] = mk.scaled_balance[u]
  BY <1>0, InterestSound, InterestOthers
<1>2. /\ RevenueIsDue => CanSettleRevenue(accrued, has_stakers)
      /\ m.balance_type[u] = "Borrow"
      /\ m.scaled_balance[u] > 0
      /\ mk' = [closed EXCEPT !.cumulative_deposit_interest = @ - delta]
      /\ insurance_vault' = insurance - if_payment
      /\ CanUpdate(m, u, borrow, "Deposit", FALSE)
  BY DEF ResolveSpotBankruptcy
<1>3. Shaped(accrued) /\ Moves(mk, accrued, now)
  BY <1>0, InterestMoves
<1>4. u \in Holders /\ RevenuePool \in Holders /\ u # RevenuePool
  BY HoldersFinite, HoldersAssumption
<1> HIDE DEF accrued
<1>5. /\ settled \in Nat
      /\ Sound(m, now)
      /\ Shaped(m) /\ Moves(mk, m, now)
      /\ m.scaled_balance[u] = mk.scaled_balance[u]
  <2>1. CASE RevenueIsDue
    <3>1. m = settle_revenue(accrued, has_stakers) /\ settled = RevenueToSettle(accrued, has_stakers)
      BY <2>1
    <3>2. RevenueToSettle(accrued, has_stakers) \in Nat /\ Sound(settle_revenue(accrued, has_stakers), now)
      BY <1>0, <1>1, <1>2, <2>1, RevenueSound
    <3>3. SameClocks(accrued, settle_revenue(accrued, has_stakers))
      BY <1>3, UpdateKeepsClocks DEF settle_revenue
    <3>4. Moves(mk, settle_revenue(accrued, has_stakers), now)
      BY <1>3, <3>3, MovesCompose
    <3>5. accrued \in Markets
      BY <1>1, SoundMarket
    <3>6. settle_revenue(accrued, has_stakers).scaled_balance[u] = accrued.scaled_balance[u]
      <4> DEFINE direction == "Borrow"
                 leaving == FALSE
      <4>1. settle_revenue(accrued, has_stakers)
              = update_spot_balances(accrued, RevenuePool, RevenueToSettle(accrued, has_stakers),
                                     direction, leaving)
        BY DEF settle_revenue
      <4> HIDE DEF direction, leaving
      <4> QED
        BY <1>4, <3>5, <4>1, UpdateOthers
    <3>7. Shaped(settle_revenue(accrued, has_stakers))
      BY <3>3 DEF SameClocks
    <3> HIDE DEF m, settled
    <3> QED
      BY <1>1, <3>1, <3>2, <3>4, <3>6, <3>7
  <2>2. CASE ~RevenueIsDue
    <3>1. m = mk /\ settled = 0
      BY <2>2
    <3>2. Shaped(mk) /\ Moves(mk, mk, now)
      BY <1>0, MarketShape, MovesNot
    <3> HIDE DEF m, settled
    <3> QED
      BY <1>0, <3>1, <3>2
  <2> QED
    BY <2>1, <2>2
<1> HIDE DEF settled, m
<1>6. m \in Markets /\ m.cumulative_borrow_interest > 0 /\ borrow \in Nat
  BY <1>4, <1>5, SoundMarket, SoundTokens DEF Sound, SoundLedger
<1>7. SameClocks(m, closed) /\ closed.scaled_balance[u] = 0
  BY <1>2, <1>4, <1>5, <1>6, UpdateKeepsClocks, ClosedPosition
<1>8. Moves(mk, closed, now)
  BY <1>5, <1>7, MovesCompose
<1> HIDE DEF closed, borrow
<1>9. /\ mk'.scaled_balance = closed.scaled_balance
      /\ mk'.cumulative_borrow_interest = closed.cumulative_borrow_interest
      /\ mk'.deposit_token_twap = closed.deposit_token_twap
      /\ mk'.borrow_token_twap = closed.borrow_token_twap
      /\ mk'.utilization_twap = closed.utilization_twap
      /\ mk'.last_interest_ts = closed.last_interest_ts
      /\ mk'.cumulative_deposit_interest = closed.cumulative_deposit_interest - delta
  <2>1. DOMAIN closed = Fields
    BY <1>7 DEF SameClocks, Shaped
  <2> HIDE DEF delta
  <2> QED
    BY <1>2, <2>1 DEF Fields
<1>10. insurance \in Nat
  BY <1>0, <1>5
<1> HIDE DEF insurance
<1>11. if_payment \in Nat /\ if_payment <= borrow /\ (if_payment # borrow => insurance - if_payment <= 1)
  BY <1>6, <1>10 DEF InsurancePayment, Smaller, SaturatingSub
<1> HIDE DEF if_payment
<1>12. loss \in Nat /\ (loss = 0 => delta = 0)
  <2>1. loss \in Nat
    BY <1>6, <1>11
  <2> HIDE DEF loss
  <2> QED
    BY <1>6, <2>1, NoLossNoDelta
<1>13. loss # 0 => insurance_vault' <= 1
  BY <1>2, <1>6, <1>11
<1> HIDE DEF loss, delta
<1>14. loss = 0 => mk'.cumulative_deposit_interest = closed.cumulative_deposit_interest
  <2>1. closed.cumulative_deposit_interest \in Nat
    BY <1>6, <1>7 DEF Markets, SameClocks
  <2> QED
    BY <1>9, <1>12, <2>1
<1>15. /\ mk'.cumulative_deposit_interest < mk.cumulative_deposit_interest => loss # 0
       /\ mk'.last_interest_ts # mk.last_interest_ts
          => mk'.cumulative_deposit_interest > mk.cumulative_deposit_interest \/ loss # 0
  <2>1. /\ closed.cumulative_deposit_interest >= mk.cumulative_deposit_interest
        /\ closed.last_interest_ts # mk.last_interest_ts
           => closed.cumulative_deposit_interest > mk.cumulative_deposit_interest
    BY <1>8 DEF Moves
  <2>2. /\ mk.cumulative_deposit_interest \in Nat
        /\ closed.cumulative_deposit_interest \in Nat
    BY <1>0, <1>6, <1>7 DEF Markets, SameClocks
  <2> QED
    BY <1>9, <1>14, <2>1, <2>2
<1> QED
  BY <1>2, <1>5, <1>7, <1>8, <1>9, <1>13, <1>15 DEF Moves

(* Interest is not lost to rounding, however often keepers update the      *)
(* market: the interest clock moves only when both indices grow, up to a   *)
(* loss that depositors share in the same step.                            *)
THEOREM InterestNeverSkipped == Spec => InterestIsNotSkipped
<1>1. ASSUME Inv, [Next]_vars
      PROVE  mk'.last_interest_ts # mk.last_interest_ts
             => /\ mk'.cumulative_borrow_interest > mk.cumulative_borrow_interest
                /\ \/ mk'.cumulative_deposit_interest > mk.cumulative_deposit_interest
                   \/ InsuranceIsUsedUp
  <2>1. CASE \E u \in Users, has_stakers \in BOOLEAN : ResolveSpotBankruptcy(u, has_stakers)
    <3>1. PICK u \in Users, has_stakers \in BOOLEAN : ResolveSpotBankruptcy(u, has_stakers)
      BY <2>1
    <3> QED
      BY <1>1, <3>1, BankruptcyMoves DEF InsuranceIsUsedUp
  <2>2. CASE ~(\E u \in Users, has_stakers \in BOOLEAN : ResolveSpotBankruptcy(u, has_stakers))
    BY <1>1, <2>2, StepMoves DEF Moves
  <2> QED
    BY <2>1, <2>2
<1>2. Inv /\ [Next]_vars
      => [mk'.last_interest_ts # mk.last_interest_ts
            => /\ mk'.cumulative_borrow_interest > mk.cumulative_borrow_interest
               /\ \/ mk'.cumulative_deposit_interest > mk.cumulative_deposit_interest
                  \/ InsuranceIsUsedUp]_vars
  BY <1>1
<1> QED
  BY <1>2, Invariance, PTL DEF Spec, InterestIsNotSkipped

(* Nothing that happens within one second moves the averages the withdraw  *)
(* limits are computed from (update_spot_market_twap_stats).               *)
THEOREM LimitsAlwaysNeedTime == Spec => LimitsNeedTime
<1>1. ASSUME Inv, [Next]_vars
      PROVE  mk.last_twap_ts = now
             => /\ mk'.deposit_token_twap = mk.deposit_token_twap
                /\ mk'.borrow_token_twap = mk.borrow_token_twap
                /\ mk'.utilization_twap = mk.utilization_twap
  BY <1>1, StepMoves, BankruptcyMoves DEF Moves
<1>2. Inv /\ [Next]_vars
      => [mk.last_twap_ts = now
            => /\ mk'.deposit_token_twap = mk.deposit_token_twap
               /\ mk'.borrow_token_twap = mk.borrow_token_twap
               /\ mk'.utilization_twap = mk.utilization_twap]_vars
  BY <1>1
<1> QED
  BY <1>2, Invariance, PTL DEF Spec, LimitsNeedTime

(* Depositors lose value only when a bankruptcy is resolved, and only      *)
(* after the insurance fund has paid down to its last token                *)
(* (resolve_spot_bankruptcy), for any number of users and any amounts.     *)
THEOREM InsuranceAlwaysPaysFirst == Spec => InsurancePaysFirst
<1>1. ASSUME Inv, [Next]_vars
      PROVE  mk'.cumulative_deposit_interest < mk.cumulative_deposit_interest
             => InsuranceIsUsedUp
  <2>1. CASE \E u \in Users, has_stakers \in BOOLEAN : ResolveSpotBankruptcy(u, has_stakers)
    <3>1. PICK u \in Users, has_stakers \in BOOLEAN : ResolveSpotBankruptcy(u, has_stakers)
      BY <2>1
    <3> QED
      BY <1>1, <3>1, BankruptcyMoves DEF InsuranceIsUsedUp
  <2>2. CASE ~(\E u \in Users, has_stakers \in BOOLEAN : ResolveSpotBankruptcy(u, has_stakers))
    <3>1. mk'.cumulative_deposit_interest >= mk.cumulative_deposit_interest
      BY <1>1, <2>2, StepMoves DEF Moves
    <3>2. mk.cumulative_deposit_interest \in Nat /\ mk'.cumulative_deposit_interest \in Nat
      <4>1. Inv'
        BY <1>1, NextInv
      <4> QED
        BY <1>1, <4>1 DEF Inv, TypeOK, Markets
    <3> QED
      BY <3>1, <3>2
  <2> QED
    BY <2>1, <2>2
<1>2. Inv /\ [Next]_vars
      => [mk'.cumulative_deposit_interest < mk.cumulative_deposit_interest
            => InsuranceIsUsedUp]_vars
  BY <1>1
<1> QED
  BY <1>2, Invariance, PTL DEF Spec, InsurancePaysFirst
===============================================================================
