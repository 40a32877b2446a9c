------------------------- MODULE InsuranceFundProofs -------------------------
(***************************************************************************)
(* The shares of the insurance fund add up and are backed, nobody's stake  *)
(* is diluted, a request earns nothing while it waits, and no epoch gives  *)
(* away more protocol shares than its cap, for any number of stakers,      *)
(* amounts, rebases and instructions.                                      *)
(***************************************************************************)
EXTENDS InsuranceFund, SumsProofs

(***************************************************************************)
(* Powers of ten.                                                          *)
(***************************************************************************)

(* A power of a sum.                                                       *)
LEMMA Pow10Add ==
  ASSUME NEW m \in Nat, NEW n \in Nat
  PROVE  Pow10[m + n] = Pow10[m] * Pow10[n]
<1> DEFINE S == {k \in Nat : Pow10[m + k] = Pow10[m] * Pow10[k]}
<1>1. 0 \in S
  <2>1. Pow10[m] \in Nat /\ Pow10[0] = 1 /\ m + 0 = m
    BY Pow10Recursion
  <2> QED
    BY <2>1
<1>2. ASSUME NEW k \in S PROVE k + 1 \in S
  <2> DEFINE a == Pow10[m]
             b == Pow10[k]
  <2>1. m + (k + 1) = (m + k) + 1 /\ m + k \in Nat /\ k \in Nat
    OBVIOUS
  <2>2. Pow10[(m + k) + 1] = 10 * Pow10[m + k] /\ Pow10[k + 1] = 10 * Pow10[k]
    BY <2>1, Pow10Recursion
  <2>3. a \in Nat /\ b \in Nat /\ Pow10[m + k] = a * b
    BY Pow10Recursion
  <2> HIDE DEF a, b
  <2>4. 10 * (a * b) = a * (10 * b)
    BY <2>3
  <2> QED
    BY <2>1, <2>2, <2>3, <2>4 DEF a, b
<1>3. S \in SUBSET Nat
  OBVIOUS
<1> HIDE DEF S
<1>4. S = Nat
  BY <1>1, <1>2, <1>3, NatSetInduction
<1> QED
  BY <1>4 DEF S

(* math/helpers.rs get_proportion_u128: both ways of computing the         *)
(* proportion round it down.                                               *)
LEMMA ProportionIsQuotient ==
  ASSUME NEW value \in Nat, NEW n \in Nat, NEW d \in Nat \ {0}
  PROVE  /\ get_proportion_u128(value, n, d) = (value * n) \div d
         /\ get_proportion_u128(value, n, d) \in Nat
<1>1. value * n \in Nat
  OBVIOUS
<1>2. (value * n) \div d \in Nat
  BY <1>1, DivBounds
<1>3. CASE n = d
  <2>1. value * d <= value * n /\ value * n < value * d + d
    BY <1>1, <1>3
  <2>2. (value * n) \div d = value
    <3> DEFINE a == value * n
    <3>1. a \in Nat /\ value * d <= a /\ a < value * d + d
      BY <1>1, <2>1
    <3> HIDE DEF a
    <3>2. a \div d = value
      BY <3>1, DivUnique
    <3> QED
      BY <3>2 DEF a
  <2> QED
    BY <1>3, <2>2 DEF get_proportion_u128
<1>4. CASE n # d /\ n > d \div 2 /\ d > n
  <2> DEFINE left_out == value * (d - n)
             q == left_out \div d
             r == left_out % d
             more == IF r > 0 THEN 1 ELSE 0
  <2>1. left_out \in Nat /\ value * n = value * d - left_out
    BY <1>4
  <2>2. q \in Nat /\ r \in 0 .. d - 1 /\ left_out = q * d + r
    <3> HIDE DEF left_out
    <3> QED
      BY <2>1
  <2>3. get_proportion_u128(value, n, d) = (value - q) - more
    BY <1>4 DEF get_proportion_u128
  <2> HIDE DEF left_out, q, r
  <2>4. ((value - q) - more) * d = value * d - q * d - more * d
    BY <2>2
  <2>5. value * d \in Nat /\ q * d \in Nat /\ more * d = IF r > 0 THEN d ELSE 0
    BY <2>2
  <2> DEFINE a == value * n
             p == (value - q) - more
  <2>6. p * d <= a /\ a < p * d + d
    BY <1>1, <2>1, <2>2, <2>4, <2>5
  <2>7. a \in Nat /\ p \in Int
    BY <1>1, <2>2
  <2> HIDE DEF a, p
  <2>8. a \div d = p
    BY <2>6, <2>7, DivUnique
  <2> QED
    BY <1>2, <2>3, <2>8 DEF a, p
<1>5. CASE n # d /\ ~ (n > d \div 2 /\ d > n)
  BY <1>2, <1>5 DEF get_proportion_u128
<1> QED
  BY <1>2, <1>3, <1>4, <1>5

(* The conversions between tokens and shares are natural numbers.          *)
LEMMA ConversionsNat ==
  ASSUME NEW amount \in Nat, NEW total \in Nat, NEW v \in Nat
  PROVE  /\ vault_amount_to_if_shares(amount, total, v) \in Nat
         /\ if_shares_to_vault_amount(amount, total, v) \in Nat
<1>1. vault_amount_to_if_shares(amount, total, v) \in Nat
  <2>1. v > 0 => get_proportion_u128(amount, total, v) \in Nat
    BY ProportionIsQuotient
  <2> QED
    BY <2>1 DEF vault_amount_to_if_shares
<1>2. if_shares_to_vault_amount(amount, total, v) \in Nat
  <2>1. total > 0 => get_proportion_u128(v, amount, total) \in Nat
    BY ProportionIsQuotient
  <2> QED
    BY <2>1 DEF if_shares_to_vault_amount
<1> QED
  BY <1>1, <1>2

(***************************************************************************)
(* Funds, vaults and stakes that fit each other.                           *)
(***************************************************************************)

Funds == [total_shares : Nat, user_shares : Nat, shares_base : Nat]

StakeRecords ==
  [ if_shares : Nat, if_base : Nat, last_withdraw_request_shares : Nat,
    last_withdraw_request_value : Nat, last_withdraw_request_ts : Nat ]

(* The shares of each stake at the base of fund f.                         *)
SharesAt(f, st) ==
  [s \in Stakers |-> st[s].if_shares \div Pow10[f.shares_base - st[s].if_base]]

(* Fund f, with v tokens in its vault, covers the stakes st.               *)
Sound(f, v, st) ==
  /\ f \in Funds
  /\ v \in Nat
  /\ st \in [Stakers -> StakeRecords]
  /\ \A s \in Stakers : st[s].if_base <= f.shares_base
  /\ \A s \in Stakers : st[s].last_withdraw_request_shares <= st[s].if_shares
  /\ SumOf(SharesAt(f, st)) <= f.user_shares
  /\ f.user_shares <= f.total_shares
  /\ f.total_shares > 0 => v > 0

(* The shares of a stake are a number, and their sum is.                   *)
LEMMA SharesAtNat ==
  ASSUME NEW f, NEW v, NEW st, Sound(f, v, st)
  PROVE  SharesAt(f, st) \in [Stakers -> Nat] /\ SumOf(SharesAt(f, st)) \in Nat
<1>1. ASSUME NEW s \in Stakers
      PROVE  st[s].if_shares \div Pow10[f.shares_base - st[s].if_base] \in Nat
  <2> DEFINE n == st[s].if_shares
             k == f.shares_base - st[s].if_base
  <2>1. n \in Nat /\ k \in Nat
    BY DEF Sound, Funds, StakeRecords
  <2> HIDE DEF n, k
  <2>2. Pow10[k] \in Nat \ {0}
    BY <2>1, Pow10Recursion
  <2>3. n \div Pow10[k] \in Nat
    BY <2>1, <2>2, DivBounds
  <2> QED
    BY <2>3 DEF n, k
<1>2. SharesAt(f, st) \in [Stakers -> Nat]
  BY <1>1 DEF SharesAt
<1> QED
  BY <1>2, SumType, FundAssumption

(* A rebase of the fund takes at least as much from the users' shares as   *)
(* from the stakes, of which each is rounded down on its own.              *)
LEMMA DividedSharesFit ==
  ASSUME NEW f, NEW v, NEW st, Sound(f, v, st), NEW expo \in Nat, NEW g \in Funds,
         g.shares_base = f.shares_base + expo,
         g.user_shares = f.user_shares \div Pow10[expo]
  PROVE  SumOf(SharesAt(g, st)) <= g.user_shares /\ \A s \in Stakers : st[s].if_base <= g.shares_base
<1> DEFINE d == Pow10[expo]
           old == SharesAt(f, st)
           new == SharesAt(g, st)
<1>1. d \in Nat \ {0}
  BY Pow10Recursion
<1>2. old \in [Stakers -> Nat] /\ SumOf(old) \in Nat
  BY SharesAtNat
<1>3. ASSUME NEW s \in Stakers
      PROVE  /\ st[s].if_base <= g.shares_base
             /\ new[s] = old[s] \div d
  <2> DEFINE n == st[s].if_shares
             k == f.shares_base - st[s].if_base
  <2>1. n \in Nat /\ k \in Nat /\ g.shares_base - st[s].if_base = k + expo /\ st[s].if_base <= g.shares_base
    BY DEF Sound, Funds, StakeRecords
  <2>2. old[s] = n \div Pow10[k] /\ new[s] = n \div Pow10[k + expo]
    BY <2>1 DEF SharesAt
  <2> HIDE DEF n, k, old, new, d
  <2>3. Pow10[k] \in Nat \ {0} /\ Pow10[k + expo] = Pow10[k] * d
    BY <2>1, Pow10Recursion, Pow10Add DEF d
  <2>4. (n \div Pow10[k]) \div d = n \div (Pow10[k] * d)
    BY <1>1, <2>1, <2>3, DivTwice
  <2> QED
    BY <2>1, <2>2, <2>3, <2>4
<1>4. new \in [Stakers -> Nat] /\ \A s \in Stakers : new[s] * d <= old[s]
  <2>1. ASSUME NEW s \in Stakers PROVE new[s] \in Nat /\ new[s] * d <= old[s]
    <3> HIDE DEF new, old, d
    <3>1. old[s] \in Nat
      BY <1>2
    <3> QED
      BY <1>1, <1>3, <3>1, DivBounds
  <2>2. new = [s \in Stakers |-> new[s]]
    BY DEF SharesAt
  <2> HIDE DEF new, old, d
  <2> QED
    BY <2>1, <2>2
<1> HIDE DEF new, old, d
<1>5. SumOf(new) * d <= SumOf(old)
  BY <1>1, <1>2, <1>4, SumCompare, FundAssumption
<1>6. SumOf(new) \in Nat
  BY <1>4, SumType, FundAssumption
<1>7. SumOf(old) <= f.user_shares /\ f.user_shares \in Nat
  BY DEF Sound, Funds, old
<1>8. SumOf(new) * d <= f.user_shares
  BY <1>1, <1>2, <1>5, <1>6, <1>7
<1>9. SumOf(new) <= f.user_shares \div d
  <2> DEFINE n == SumOf(new)
             u == f.user_shares
  <2>1. n \in Nat /\ u \in Nat /\ n * d <= u
    BY <1>6, <1>7, <1>8
  <2> HIDE DEF n, u
  <2>2. n <= u \div d
    BY <1>1, <2>1, DivAtLeast
  <2> QED
    BY <2>2 DEF n, u
<1> QED
  BY <1>3, <1>9 DEF new, d

(* controller/insurance.rs apply_rebase_to_insurance_fund.                 *)
LEMMA RebaseSound ==
  ASSUME NEW f, NEW v, NEW st, Sound(f, v, st)
  PROVE  /\ Sound(RebasedFund(f, v), v, st)
         /\ RebasedFund(f, v).shares_base >= f.shares_base
<1> DEFINE expo == IF v # 0 /\ v < f.total_shares THEN RebaseExpo(f.total_shares, v) ELSE 0
           d == Pow10[expo]
           total == f.total_shares \div d
           g == RebasedFund(f, v)
<1>1. expo \in Nat
  <2>1. \A n : log10_iter(n) \in Nat
    <3>1. ASSUME NEW n PROVE Cardinality({k \in 1 .. MaxExpo : Pow10[k] <= n}) \in Nat
      <4> DEFINE T == {k \in 1 .. MaxExpo : Pow10[k] <= n}
      <4>1. MaxExpo \in Nat
        BY DEF MaxExpo
      <4>2. IsFiniteSet(1 .. MaxExpo)
        BY <4>1, FS_Interval
      <4>3. T \subseteq 1 .. MaxExpo
        OBVIOUS
      <4> HIDE DEF T
      <4>4. IsFiniteSet(T)
        BY <4>2, <4>3, FS_Subset
      <4>5. Cardinality(T) \in Nat
        BY <4>4, FS_CardinalityType
      <4> QED
        BY <4>5 DEF T
    <3> QED
      BY <3>1 DEF log10_iter
  <2> QED
    BY <2>1 DEF RebaseExpo
<1>2. d \in Nat \ {0}
  BY <1>1, Pow10Recursion
<1>3. f.total_shares \in Nat /\ f.user_shares \in Nat /\ f.shares_base \in Nat /\ v \in Nat
      /\ f.user_shares <= f.total_shares
  BY DEF Sound, Funds
<1>4. total \in Nat /\ f.user_shares \div d \in Nat /\ f.user_shares \div d <= total
  <2> DEFINE a == f.user_shares
             b == f.total_shares
  <2>1. a \in Nat /\ b \in Nat /\ a <= b
    BY <1>3
  <2> HIDE DEF a, b, d
  <2>2. b \div d \in Nat /\ a \div d \in Nat /\ a \div d <= b \div d
    BY <1>2, <2>1, DivBounds, DivMono
  <2> QED
    BY <2>2 DEF a, b
<1>5. g = [ total_shares |-> IF v # 0 /\ total = 0 THEN v ELSE total,
            user_shares |-> f.user_shares \div d,
            shares_base |-> f.shares_base + expo ]
  BY DEF RebasedFund, apply_rebase_to_insurance_fund
<1>6. v = 0 => total = f.total_shares
  <2>1. v = 0 => d = 1
    BY Pow10Recursion
  <2>2. f.total_shares \div 1 = f.total_shares
    BY <1>3
  <2> QED
    BY <2>1, <2>2
<1> HIDE DEF expo, d, total, g
<1>7. /\ g \in Funds
      /\ g.shares_base = f.shares_base + expo
      /\ g.user_shares = f.user_shares \div d
      /\ g.user_shares <= g.total_shares
      /\ g.total_shares > 0 => v > 0
  <2>1. /\ g.shares_base = f.shares_base + expo
        /\ g.user_shares = f.user_shares \div d
        /\ g.total_shares = IF v # 0 /\ total = 0 THEN v ELSE total
    BY <1>5
  <2>2. g \in Funds
    BY <1>1, <1>3, <1>4, <1>5 DEF Funds
  <2>3. f.total_shares > 0 => v > 0
    BY DEF Sound
  <2> QED
    BY <1>3, <1>4, <1>6, <2>1, <2>2, <2>3
<1>8. SumOf(SharesAt(g, st)) <= g.user_shares /\ \A s \in Stakers : st[s].if_base <= g.shares_base
  BY <1>1, <1>7, DividedSharesFit DEF d
<1>9. Sound(g, v, st)
  BY <1>7, <1>8 DEF Sound
<1> QED
  BY <1>1, <1>3, <1>7, <1>9 DEF g

(* controller/insurance.rs apply_rebase_to_insurance_fund_stake, for a     *)
(* stake or one with a request just made on it.                            *)
LEMMA RebasedStakeFacts ==
  ASSUME NEW f \in Funds, NEW stake \in StakeRecords, stake.if_base <= f.shares_base,
         stake.last_withdraw_request_shares <= stake.if_shares
  PROVE  LET new == apply_rebase_to_insurance_fund_stake(stake, f)
         IN  /\ new \in StakeRecords
             /\ new.if_base = f.shares_base
             /\ new.if_shares = stake.if_shares \div Pow10[f.shares_base - stake.if_base]
             /\ new.last_withdraw_request_shares <= new.if_shares
<1> DEFINE d == Pow10[f.shares_base - stake.if_base]
           a == stake.last_withdraw_request_shares
           b == stake.if_shares
           new == apply_rebase_to_insurance_fund_stake(stake, f)
<1>1. f.shares_base - stake.if_base \in Nat /\ a \in Nat /\ b \in Nat /\ a <= b
  BY DEF Funds, StakeRecords
<1>2. d \in Nat \ {0}
  BY <1>1, Pow10Recursion
<1>3. a \div d \in Nat /\ b \div d \in Nat /\ a \div d <= b \div d
  <2> HIDE DEF a, b, d
  <2> QED
    BY <1>1, <1>2, DivBounds, DivMono
<1>4. new = [stake EXCEPT !.if_shares = b \div d, !.last_withdraw_request_shares = a \div d,
                          !.if_base = f.shares_base]
  BY DEF apply_rebase_to_insurance_fund_stake, StakeRecords
<1> HIDE DEF a, b, d, new
<1>5. /\ new \in StakeRecords
      /\ new.if_base = f.shares_base
      /\ new.if_shares = b \div d
      /\ new.last_withdraw_request_shares = a \div d
  BY <1>3, <1>4 DEF StakeRecords, Funds
<1> QED
  BY <1>3, <1>5 DEF b, d, new

(* A stake at the base of the fund is replaced, and the users' shares      *)
(* change by as much as its shares.                                        *)
LEMMA StakeUpdateSound ==
  ASSUME NEW f, NEW v, NEW st, Sound(f, v, st), NEW s \in Stakers,
         NEW new \in StakeRecords, new.if_base = f.shares_base,
         new.last_withdraw_request_shares <= new.if_shares,
         NEW g \in Funds, g.shares_base = f.shares_base,
         g.user_shares = (f.user_shares - SharesAt(f, st)[s]) + new.if_shares,
         g.user_shares <= g.total_shares,
         NEW w \in Nat, g.total_shares > 0 => w > 0
  PROVE  Sound(g, w, [st EXCEPT ![s] = new])
<1> DEFINE old == SharesAt(f, st)
           st2 == [st EXCEPT ![s] = new]
<1>1. st \in [Stakers -> StakeRecords] /\ st2 \in [Stakers -> StakeRecords] /\ st2[s] = new
      /\ \A t \in Stakers : t # s => st2[t] = st[t]
  BY DEF Sound
<1>2. old \in [Stakers -> Nat] /\ SumOf(old) \in Nat
  BY SharesAtNat
<1>3. SharesAt(g, st2) = [old EXCEPT ![s] = new.if_shares]
  <2>1. ASSUME NEW t \in Stakers
        PROVE  SharesAt(g, st2)[t] = [old EXCEPT ![s] = new.if_shares][t]
    <3>1. CASE t = s
      <4>1. SharesAt(g, st2)[t] = new.if_shares \div Pow10[g.shares_base - new.if_base]
        BY <1>1, <3>1 DEF SharesAt
      <4>2. g.shares_base - new.if_base = 0 /\ new.if_shares \in Nat
        BY DEF Funds, StakeRecords
      <4>3. new.if_shares \div 1 = new.if_shares
        BY <4>2
      <4>4. SharesAt(g, st2)[t] = new.if_shares
        BY <4>1, <4>2, <4>3, Pow10Recursion
      <4> QED
        BY <1>2, <3>1, <4>4
    <3>2. CASE t # s
      <4>1. SharesAt(g, st2)[t] = old[t]
        BY <1>1, <3>2 DEF SharesAt
      <4> HIDE DEF old
      <4> QED
        BY <1>2, <3>2, <4>1
    <3> QED
      BY <3>1, <3>2
  <2>2. SharesAt(g, st2) = [t \in Stakers |-> SharesAt(g, st2)[t]]
    BY DEF SharesAt
  <2>3. [old EXCEPT ![s] = new.if_shares] = [t \in Stakers |-> [old EXCEPT ![s] = new.if_shares][t]]
    <3> HIDE DEF old
    <3> QED
      BY <1>2
  <2> QED
    BY <2>1, <2>2, <2>3
<1>4. SumOf(SharesAt(g, st2)) = (SumOf(old) - old[s]) + new.if_shares
  <2>1. new.if_shares \in Nat
    BY DEF StakeRecords
  <2>2. IsFiniteSet(Stakers)
    BY FundAssumption
  <2> DEFINE n == new.if_shares
  <2> HIDE DEF old, st2, n
  <2>3. SumOf([old EXCEPT ![s] = n]) = (SumOf(old) - old[s]) + n
    BY <1>2, <2>1, <2>2, SumUpdate DEF n
  <2> QED
    BY <1>3, <2>3 DEF n
<1>5. SumOf(old) <= f.user_shares /\ f.user_shares \in Nat /\ old[s] \in Nat /\ new.if_shares \in Nat
  BY <1>2 DEF Sound, Funds, StakeRecords
<1>6. SumOf(SharesAt(g, st2)) <= g.user_shares
  <2> HIDE DEF st2
  <2>1. g.user_shares = (f.user_shares - old[s]) + new.if_shares
    OBVIOUS
  <2> HIDE DEF old
  <2> QED
    BY <1>2, <1>4, <1>5, <2>1
<1>7. \A t \in Stakers : st2[t].if_base <= g.shares_base
  <2>1. g.shares_base \in Nat
    BY DEF Funds
  <2> HIDE DEF st2
  <2> QED
    BY <1>1, <2>1 DEF Sound
<1>8. \A t \in Stakers : st2[t].last_withdraw_request_shares <= st2[t].if_shares
  <2> HIDE DEF st2
  <2> QED
    BY <1>1 DEF Sound
<1> HIDE DEF st2
<1>9. Sound(g, w, st2)
  BY <1>1, <1>6, <1>7, <1>8 DEF Sound
<1> QED
  BY <1>9 DEF st2

(* controller/insurance.rs settle_revenue_to_insurance_fund: the protocol  *)
(* gets shares, the stakes keep theirs.                                    *)
LEMMA SettleSound ==
  ASSUME NEW f, NEW v, NEW st, Sound(f, v, st), NEW revenue \in Nat
  PROVE  /\ Sound(settle_revenue(f, v, revenue), v + revenue, st)
         /\ settle_revenue(f, v, revenue).shares_base = f.shares_base
<1> DEFINE part == (revenue * (total_factor - user_factor)) \div total_factor
           n == ProtocolShares(f, v, revenue)
           g == settle_revenue(f, v, revenue)
<1>1. f \in Funds /\ f.total_shares \in Nat /\ f.user_shares \in Nat /\ v \in Nat
      /\ f.user_shares <= f.total_shares /\ (f.total_shares > 0 => v > 0)
  BY DEF Sound, Funds
<1>2. total_factor > user_factor => part \in Nat
  <2> SUFFICES ASSUME total_factor > user_factor PROVE part \in Nat
    OBVIOUS
  <2>1. total_factor - user_factor \in Nat /\ total_factor \in Nat \ {0}
    BY FundAssumption
  <2>2. revenue * (total_factor - user_factor) \in Nat
    BY <2>1
  <2> QED
    BY <2>1, <2>2, DivBounds
<1>3. revenue = 0 => part = 0
  BY FundAssumption
<1>4. n \in Nat
  <2>1. CASE total_factor > user_factor
    <3>1. n = vault_amount_to_if_shares(part, f.total_shares, v) /\ part \in Nat
      BY <1>2, <2>1 DEF ProtocolShares
    <3> HIDE DEF part, n
    <3> QED
      BY <1>1, <3>1, ConversionsNat
  <2>2. CASE ~ total_factor > user_factor
    BY <2>2 DEF ProtocolShares
  <2> QED
    BY <2>1, <2>2
<1>5. v = 0 /\ revenue = 0 => n = 0
  <2> HIDE DEF part
  <2>1. n = IF total_factor > user_factor THEN vault_amount_to_if_shares(part, f.total_shares, v) ELSE 0
    BY DEF ProtocolShares, part
  <2> QED
    BY <1>3, <2>1 DEF vault_amount_to_if_shares
<1>6. g = [f EXCEPT !.total_shares = f.total_shares + n]
  BY <1>1 DEF settle_revenue, Funds
<1> HIDE DEF n, g, part
<1>7. /\ g \in Funds /\ g.total_shares = f.total_shares + n
      /\ g.user_shares = f.user_shares /\ g.shares_base = f.shares_base
  BY <1>1, <1>4, <1>6 DEF Funds
<1>8. SharesAt(g, st) = SharesAt(f, st)
  BY <1>7 DEF SharesAt
<1>9. v + revenue \in Nat /\ (g.total_shares > 0 => v + revenue > 0) /\ g.user_shares <= g.total_shares
  BY <1>1, <1>4, <1>5, <1>7
<1>10. Sound(g, v + revenue, st)
  BY <1>7, <1>8, <1>9 DEF Sound
<1> QED
  BY <1>7, <1>10 DEF g

(***************************************************************************)
(* The epochs of the protocol's transfers.                                 *)
(***************************************************************************)

Configs == [current_epoch_transfer : Nat, next_epoch_ts : Nat]

(* The next epoch starts at a multiple of the duration.  Nothing is        *)
(* transferred yet in the epochs from there on, and in the current one and *)
(* later ones at most what the counter says.                               *)
EpochInv ==
  /\ config \in Configs
  /\ now \in Nat
  /\ transferred \in [0 .. Epoch(MaxTime) -> Nat]
  /\ transactions \in Nat
  /\ \E k \in 1 .. config.next_epoch_ts : config.next_epoch_ts = k * EPOCH_DURATION
  /\ \A e \in DOMAIN transferred : e * EPOCH_DURATION >= config.next_epoch_ts => transferred[e] = 0
  /\ \A e \in DOMAIN transferred : e >= Epoch(now) => transferred[e] <= config.current_epoch_transfer
  /\ EpochCapHolds

(* Epochs are numbers that grow with time, and an epoch has begun.         *)
LEMMA EpochFacts ==
  ASSUME NEW time \in Nat
  PROVE  /\ Epoch(time) \in Nat
         /\ Epoch(time) <= Epoch(time + 1)
         /\ time > 0 => Epoch(time) * EPOCH_DURATION < time
         /\ time = 0 => Epoch(time) * EPOCH_DURATION = 0
<1>1. EPOCH_DURATION \in Nat \ {0}
  BY FundAssumption
<1>2. Epoch(time + 1) = time \div EPOCH_DURATION /\ time \div EPOCH_DURATION \in Nat
  <2>1. time + 1 # 0 /\ (time + 1) - 1 = time
    OBVIOUS
  <2> QED
    BY <1>1, <2>1, DivBounds DEF Epoch
<1>3. CASE time = 0
  BY <1>1, <1>2, <1>3 DEF Epoch
<1>4. CASE time # 0
  <2> DEFINE a == time - 1
             D == EPOCH_DURATION
  <2>1. a \in Nat /\ a <= time /\ D \in Nat \ {0}
    BY <1>1, <1>4
  <2>2. Epoch(time) = a \div D
    BY <1>4 DEF Epoch
  <2> HIDE DEF a, D
  <2>3. a \div D \in Nat /\ (a \div D) * D <= a /\ a \div D <= time \div D
    BY <2>1, DivBounds, DivMono
  <2>4. (a \div D) * D \in Nat
    BY <2>1, <2>3
  <2> QED
    BY <1>2, <1>4, <2>1, <2>2, <2>3, <2>4 DEF a, D
<1> QED
  BY <1>3, <1>4

(* state/insurance_fund_stake.rs update_epoch: the counter is reset only   *)
(* in an epoch in which nothing is transferred yet, and the next epoch     *)
(* starts after the current one.                                           *)
LEMMA UpdateEpochFacts ==
  ASSUME EpochInv
  PROVE  LET c == update_epoch(config)
         IN  /\ c \in Configs
             /\ \E k \in 1 .. c.next_epoch_ts : c.next_epoch_ts = k * EPOCH_DURATION
             /\ c.next_epoch_ts >= config.next_epoch_ts
             /\ c.next_epoch_ts > Epoch(now) * EPOCH_DURATION
             /\ \A e \in DOMAIN transferred : e >= Epoch(now) => transferred[e] <= c.current_epoch_transfer
<1> DEFINE c == update_epoch(config)
           D == EPOCH_DURATION
           N == config.next_epoch_ts
<1>1. D \in Nat \ {0} /\ N \in Nat /\ now \in Nat /\ config \in Configs
  BY FundAssumption DEF EpochInv, Configs
<1>2. PICK k \in 1 .. N : N = k * D
  BY DEF EpochInv
<1>3. Epoch(now) \in Nat /\ (now > 0 => Epoch(now) * D < now) /\ (now = 0 => Epoch(now) * D = 0)
      /\ Epoch(now) * D \in Nat
  BY <1>1, EpochFacts
<1>4. CASE ~ now > N
  <2>1. c = config
    BY <1>4 DEF update_epoch
  <2>2. k * D >= 1
    BY <1>1, <1>2
  <2>3. N > Epoch(now) * D
    BY <1>1, <1>2, <1>3, <1>4, <2>2
  <2>4. /\ \E j \in 1 .. config.next_epoch_ts : config.next_epoch_ts = j * EPOCH_DURATION
        /\ config.next_epoch_ts >= config.next_epoch_ts
        /\ \A e \in DOMAIN transferred : e >= Epoch(now) => transferred[e] <= config.current_epoch_transfer
    BY <1>1 DEF EpochInv
  <2> HIDE DEF c
  <2> QED
    BY <1>1, <2>1, <2>3, <2>4 DEF c
<1>5. CASE now > N
  <2> DEFINE q == (now - N) \div D
             M == N + D * (q + 1)
  <2>1. c = [current_epoch_transfer |-> 0, next_epoch_ts |-> M]
    BY <1>5 DEF update_epoch
  <2>2. now - N \in Nat
    BY <1>1, <1>5
  <2>3. q \in Nat /\ now - N < q * D + D
    <3> DEFINE a == now - N
    <3> HIDE DEF a, D
    <3>1. a \div D \in Nat /\ a < (a \div D) * D + D
      BY <1>1, <2>2, DivBounds DEF a
    <3> QED
      BY <3>1 DEF a
  <2> HIDE DEF q
  <2>4. D * (q + 1) = q * D + D /\ q * D \in Nat
    BY <1>1, <2>3
  <2>5. M \in Nat /\ M > now /\ M >= N
    BY <1>1, <2>3, <2>4
  <2>6. M = (k + q + 1) * D
    BY <1>1, <1>2, <2>3, <2>4
  <2>7. k + q + 1 \in 1 .. M
    <3> DEFINE j == k + q + 1
    <3>1. j \in Nat /\ j >= 1 /\ M = j * D
      BY <1>1, <1>2, <2>3, <2>6
    <3> HIDE DEF j, M
    <3>2. j * D >= j
      BY <1>1, <3>1
    <3>3. j \in 1 .. M
      BY <2>5, <3>1, <3>2
    <3> QED
      BY <3>3 DEF j
  <2> HIDE DEF M
  <2>8. c.next_epoch_ts = M /\ c.current_epoch_transfer = 0 /\ c \in Configs
    BY <2>1, <2>5 DEF Configs
  <2>9. ASSUME NEW e \in DOMAIN transferred, e >= Epoch(now)
        PROVE  transferred[e] <= c.current_epoch_transfer
    <3>1. e \in Nat
      <4>1. Epoch(MaxTime) \in Nat
        BY EpochFacts, FundAssumption
      <4> QED
        BY <4>1 DEF EpochInv
    <3>2. Epoch(now) = (now - 1) \div D /\ now - 1 \in Nat /\ k * D <= now - 1
      BY <1>1, <1>2, <1>5 DEF Epoch
    <3>3. k <= Epoch(now)
      <4> DEFINE a == now - 1
      <4>1. a \in Nat /\ k \in Nat /\ k * D <= a
        BY <1>1, <1>2, <3>2
      <4> HIDE DEF a, D
      <4>2. k <= a \div D
        BY <1>1, <4>1, DivAtLeast
      <4> QED
        BY <3>2, <4>2 DEF a
    <3>4. k <= e
      BY <1>2, <1>3, <2>9, <3>1, <3>3
    <3>5. e * D >= k * D
      BY <1>1, <1>2, <3>1, <3>4
    <3>6. transferred[e] = 0
      BY <1>2, <3>5 DEF EpochInv
    <3> QED
      BY <2>8, <3>6
  <2>10. M > Epoch(now) * D
    BY <1>1, <1>3, <1>5, <2>5
  <2>11. \E j \in 1 .. c.next_epoch_ts : c.next_epoch_ts = j * D
    <3> HIDE DEF c, D
    <3> QED
      BY <2>6, <2>7, <2>8
  <2>12. c.next_epoch_ts >= N /\ c.next_epoch_ts > Epoch(now) * D
    <3> HIDE DEF c, D, N
    <3> QED
      BY <2>5, <2>8, <2>10
  <2> HIDE DEF c
  <2> QED
    BY <2>8, <2>9, <2>11, <2>12 DEF c
<1> QED
  BY <1>4, <1>5

(***************************************************************************)
(* The invariant.                                                          *)
(***************************************************************************)

Inv == Sound(fund, vault, stakes) /\ EpochInv

(* An empty fund.                                                          *)
LEMMA InitInv == Init => Inv
<1> SUFFICES ASSUME Init PROVE Inv
  OBVIOUS
<1>1. Sound(fund, vault, stakes)
  <2>1. SharesAt(fund, stakes) = [s \in Stakers |-> 0]
    <3>1. fund.shares_base = 0 /\ \A s \in Stakers : stakes[s].if_shares = 0 /\ stakes[s].if_base = 0
      BY DEF Init, NewStake
    <3>2. Pow10[0 - 0] = 1 /\ 0 \div 1 = 0
      BY Pow10Recursion
    <3>3. \A s \in Stakers : stakes[s].if_shares \div Pow10[fund.shares_base - stakes[s].if_base] = 0
      BY <3>1, <3>2
    <3> QED
      BY <3>3 DEF SharesAt
  <2>2. SumOf(SharesAt(fund, stakes)) = 0
    BY <2>1, SumZero
  <2> QED
    BY <2>2 DEF Init, Sound, Funds, StakeRecords, NewStake
<1>2. EpochInv
  <2>1. EPOCH_DURATION \in Nat \ {0} /\ MaxTime \in Nat
    BY FundAssumption
  <2>2. transferred \in [0 .. Epoch(MaxTime) -> Nat] /\ \A e \in DOMAIN transferred : transferred[e] = 0
    BY DEF Init
  <2>3. config \in Configs /\ config.next_epoch_ts = EPOCH_DURATION /\ config.current_epoch_transfer = 0
        /\ now \in Nat /\ transactions \in Nat
    BY <2>1 DEF Init, Configs
  <2>4. 1 \in 1 .. config.next_epoch_ts /\ config.next_epoch_ts = 1 * EPOCH_DURATION
    BY <2>1, <2>3
  <2> QED
    BY <2>2, <2>3, <2>4 DEF EpochInv, EpochCapHolds
<1> QED
  BY <1>1, <1>2 DEF Inv

(* The epochs are not touched by an instruction on the fund.               *)
LEMMA EpochUntouched ==
  ASSUME EpochInv, UNCHANGED <<config, now, transferred>>, CountTransaction
  PROVE  EpochInv'
BY DEF EpochInv, EpochCapHolds, CountTransaction

(* Time passes.                                                            *)
LEMMA TickStep ==
  ASSUME Inv, Tick
  PROVE  Inv'
<1>1. now' = now + 1 /\ UNCHANGED <<vault, fund, stakes, config, transferred, transactions>>
  BY DEF Tick
<1>2. now \in Nat /\ Epoch(now) \in Nat /\ Epoch(now) <= Epoch(now + 1) /\ Epoch(now + 1) \in Nat /\ Epoch(MaxTime) \in Nat
  <2>1. now \in Nat /\ now + 1 \in Nat /\ MaxTime \in Nat
    BY FundAssumption DEF Inv, EpochInv
  <2>2. Epoch(now) \in Nat /\ Epoch(now) <= Epoch(now + 1)
    BY <2>1, EpochFacts
  <2>3. Epoch(now + 1) \in Nat /\ Epoch(MaxTime) \in Nat
    BY <2>1, EpochFacts
  <2> QED
    BY <2>1, <2>2, <2>3
<1>3. \A e \in DOMAIN transferred : e >= Epoch(now + 1) => transferred[e] <= config.current_epoch_transfer
  <2>1. \A e \in DOMAIN transferred : e \in Nat
    BY <1>2 DEF Inv, EpochInv
  <2> QED
    BY <1>2, <2>1 DEF Inv, EpochInv
<1>4. EpochInv'
  BY <1>1, <1>2, <1>3 DEF Inv, EpochInv, EpochCapHolds, Epoch
<1> QED
  BY <1>1, <1>4 DEF Inv

(* Revenue is settled.                                                     *)
LEMMA SettleRevenueStep ==
  ASSUME Inv, NEW revenue \in Revenues, SettleRevenue(revenue)
  PROVE  Inv'
<1>1. /\ fund' = settle_revenue(fund, vault, revenue)
      /\ vault' = vault + revenue
      /\ UNCHANGED <<stakes, config, now, transferred>>
      /\ CountTransaction
  BY DEF SettleRevenue
<1>2. revenue \in Nat
  BY FundAssumption
<1>3. Sound(fund', vault', stakes')
  BY <1>1, <1>2, SettleSound DEF Inv
<1> QED
  BY <1>1, <1>3, EpochUntouched DEF Inv

(* A loss is paid, down to the last token.                                 *)
LEMMA PayLossStep ==
  ASSUME Inv, NEW loss \in Losses, NEW revenue \in Revenues, PayLoss(loss, revenue)
  PROVE  Inv'
<1> DEFINE v == vault + revenue
           g == settle_revenue(fund, vault, revenue)
<1>1. /\ fund' = g
      /\ vault' = v - Payment(loss, v)
      /\ UNCHANGED <<stakes, config, now, transferred>>
      /\ CountTransaction
  BY DEF PayLoss
<1>2. revenue \in Nat /\ loss \in Nat
  BY FundAssumption
<1>3. Sound(g, v, stakes)
  BY <1>2, SettleSound DEF Inv
<1> HIDE DEF g, v
<1>4. v \in Nat /\ (g.total_shares > 0 => v > 0)
  BY <1>3 DEF Sound
<1>5. vault' \in Nat /\ (v > 0 => vault' > 0)
  BY <1>1, <1>2, <1>4 DEF Payment, AllButOne
<1>6. Sound(g, vault', stakes)
  BY <1>3, <1>4, <1>5 DEF Sound
<1>7. Sound(fund', vault', stakes')
  BY <1>1, <1>6
<1> QED
  BY <1>1, <1>7, EpochUntouched DEF Inv

(* The stake that an instruction of its owner starts from.                 *)
LEMMA OwnStake ==
  ASSUME NEW f, NEW v, Sound(f, v, stakes), NEW s \in Stakers
  PROVE  LET stake == apply_rebase_to_insurance_fund_stake(stakes[s], f)
         IN  /\ stake \in StakeRecords
             /\ stake.if_base = f.shares_base
             /\ stake.if_shares = SharesAt(f, stakes)[s]
             /\ stake.last_withdraw_request_shares <= stake.if_shares
<1>1. /\ f \in Funds /\ stakes[s] \in StakeRecords /\ stakes[s].if_base <= f.shares_base
      /\ stakes[s].last_withdraw_request_shares <= stakes[s].if_shares
  BY DEF Sound
<1>2. SharesAt(f, stakes)[s] = stakes[s].if_shares \div Pow10[f.shares_base - stakes[s].if_base]
  BY DEF SharesAt
<1> QED
  BY <1>1, <1>2, RebasedStakeFacts

(* A staker adds to a stake.                                               *)
LEMMA AddStakeStep ==
  ASSUME Inv, NEW s \in Stakers, NEW amount \in Amounts, NEW revenue \in Revenues,
         AddStake(s, amount, revenue)
  PROVE  Inv'
<1> DEFINE f0 == settle_revenue(fund, vault, revenue)
           v == vault + revenue
           f == RebasedFund(f0, v)
           stake == apply_rebase_to_insurance_fund_stake(stakes[s], f)
           n == vault_amount_to_if_shares(amount, f.total_shares, v)
           new == [stake EXCEPT !.if_shares = @ + n]
           g == [f EXCEPT !.total_shares = @ + n, !.user_shares = @ + n]
<1>1. fund' = g /\ stakes' = [stakes EXCEPT ![s] = new]
  BY DEF AddStake, add_insurance_fund_stake, RebasedStake
<1>2. vault' = v + amount /\ UNCHANGED <<config, now, transferred>> /\ CountTransaction
  BY DEF AddStake
<1>3. revenue \in Nat /\ amount \in Nat \ {0}
  BY FundAssumption
<1>4. Sound(f, v, stakes)
  BY <1>3, SettleSound, RebaseSound DEF Inv
<1>5. /\ stake \in StakeRecords
      /\ stake.if_base = f.shares_base
      /\ stake.if_shares = SharesAt(f, stakes)[s]
      /\ stake.last_withdraw_request_shares <= stake.if_shares
  BY <1>4, OwnStake
<1> HIDE DEF f, v, stake
<1>6. f \in Funds /\ f.total_shares \in Nat /\ f.user_shares \in Nat /\ v \in Nat /\ f.user_shares <= f.total_shares
  BY <1>4 DEF Sound, Funds
<1>7. n \in Nat
  BY <1>3, <1>6, ConversionsNat
<1> HIDE DEF n
<1>8. /\ new \in StakeRecords /\ new.if_base = f.shares_base
      /\ new.if_shares = SharesAt(f, stakes)[s] + n
      /\ new.last_withdraw_request_shares <= new.if_shares
  BY <1>5, <1>7 DEF StakeRecords
<1>9. /\ g \in Funds /\ g.shares_base = f.shares_base
      /\ g.user_shares = f.user_shares + n /\ g.total_shares = f.total_shares + n
  <2> DEFINE total == f.total_shares + n
             user == f.user_shares + n
  <2>1. g = [f EXCEPT !.total_shares = total, !.user_shares = user]
    BY <1>6 DEF Funds
  <2>2. total \in Nat /\ user \in Nat
    BY <1>6, <1>7
  <2> HIDE DEF g, total, user
  <2>3. /\ g \in Funds /\ g.shares_base = f.shares_base
        /\ g.user_shares = user /\ g.total_shares = total
    BY <1>6, <2>1, <2>2 DEF Funds
  <2> QED
    BY <2>3 DEF total, user
<1> HIDE DEF new, g
<1>10. SharesAt(f, stakes)[s] \in Nat
  BY <1>4, SharesAtNat
<1>11. /\ g.user_shares = (f.user_shares - SharesAt(f, stakes)[s]) + new.if_shares
       /\ g.user_shares <= g.total_shares
       /\ vault' \in Nat /\ vault' > 0
  BY <1>2, <1>3, <1>6, <1>7, <1>8, <1>9, <1>10
<1>12. Sound(g, vault', [stakes EXCEPT ![s] = new])
  BY <1>4, <1>8, <1>9, <1>11, StakeUpdateSound
<1> QED
  BY <1>1, <1>2, <1>12, EpochUntouched DEF Inv

(* A staker asks for a part of a stake: its shares stay.                   *)
LEMMA RequestStep ==
  ASSUME Inv, NEW s \in Stakers, NEW amount \in Amounts, RequestRemoveStake(s, amount)
  PROVE  Inv'
<1> DEFINE n == vault_amount_to_if_shares(amount, fund.total_shares, vault)
           f == RebasedFund(fund, vault)
           asked == [stakes[s] EXCEPT !.last_withdraw_request_shares = n]
           stake == apply_rebase_to_insurance_fund_stake(asked, f)
           worth == if_shares_to_vault_amount(stake.last_withdraw_request_shares, f.total_shares, vault)
           value == IF worth <= AllButOne(vault) THEN worth ELSE AllButOne(vault)
           new == [stake EXCEPT !.last_withdraw_request_value = value, !.last_withdraw_request_ts = now]
<1>1. fund' = f /\ stakes' = [stakes EXCEPT ![s] = new] /\ n \in 1 .. stakes[s].if_shares
  BY DEF RequestRemoveStake, request_remove_insurance_fund_stake
<1>2. UNCHANGED <<vault, config, now, transferred>> /\ CountTransaction
  BY DEF RequestRemoveStake
<1>3. Sound(f, vault, stakes)
  BY RebaseSound DEF Inv
<1> HIDE DEF f, n
<1>4. f \in Funds /\ f.total_shares \in Nat /\ f.user_shares \in Nat /\ vault \in Nat
      /\ f.user_shares <= f.total_shares /\ (f.total_shares > 0 => vault > 0)
      /\ stakes[s] \in StakeRecords /\ stakes[s].if_base <= f.shares_base
  BY <1>3 DEF Sound, Funds
<1>5. /\ asked \in StakeRecords /\ asked.if_base = stakes[s].if_base /\ asked.if_shares = stakes[s].if_shares
      /\ asked.last_withdraw_request_shares <= asked.if_shares
  BY <1>1, <1>4 DEF StakeRecords
<1> HIDE DEF asked
<1>6. /\ stake \in StakeRecords
      /\ stake.if_base = f.shares_base
      /\ stake.if_shares = asked.if_shares \div Pow10[f.shares_base - asked.if_base]
      /\ stake.last_withdraw_request_shares <= stake.if_shares
  BY <1>4, <1>5, RebasedStakeFacts
<1>7. stake.if_shares = SharesAt(f, stakes)[s]
  BY <1>5, <1>6 DEF SharesAt
<1> HIDE DEF stake
<1>8. worth \in Nat
  <2>1. stake.last_withdraw_request_shares \in Nat
    BY <1>6 DEF StakeRecords
  <2> QED
    BY <1>4, <2>1, ConversionsNat
<1> HIDE DEF worth
<1>9. value \in Nat /\ now \in Nat
  BY <1>4, <1>8 DEF AllButOne, Inv, EpochInv
<1> HIDE DEF value
<1>10. /\ new \in StakeRecords /\ new.if_base = f.shares_base
       /\ new.if_shares = SharesAt(f, stakes)[s]
       /\ new.last_withdraw_request_shares <= new.if_shares
  BY <1>6, <1>7, <1>9 DEF StakeRecords
<1> HIDE DEF new
<1>11. SharesAt(f, stakes)[s] \in Nat
  BY <1>3, SharesAtNat
<1>12. f.user_shares = (f.user_shares - SharesAt(f, stakes)[s]) + new.if_shares
  BY <1>4, <1>10, <1>11
<1>13. Sound(f, vault, [stakes EXCEPT ![s] = new])
  BY <1>3, <1>4, <1>10, <1>12, StakeUpdateSound
<1> QED
  BY <1>1, <1>2, <1>13, EpochUntouched DEF Inv

(* Shares leave a stake, the users' shares and all shares together.        *)
LEMMA LeaveSound ==
  ASSUME Inv, NEW s \in Stakers, NEW n \in Nat,
         NEW f, f = RebasedFund(fund, vault),
         NEW stake, stake = RebasedStake(s, fund, vault),
         n <= stake.if_shares, n <= f.user_shares,
         NEW w \in Nat, f.total_shares > 0 => w > 0
  PROVE  Sound([f EXCEPT !.total_shares = @ - n, !.user_shares = @ - n], w,
               [stakes EXCEPT ![s] = RequestDone([stake EXCEPT !.if_shares = @ - n])])
<1> DEFINE new == RequestDone([stake EXCEPT !.if_shares = @ - n])
           g == [f EXCEPT !.total_shares = @ - n, !.user_shares = @ - n]
<1>1. Sound(f, vault, stakes)
  BY RebaseSound DEF Inv
<1>2. /\ stake \in StakeRecords
      /\ stake.if_base = f.shares_base
      /\ stake.if_shares = SharesAt(f, stakes)[s]
  BY <1>1, OwnStake DEF RebasedStake
<1>3. f \in Funds /\ f.total_shares \in Nat /\ f.user_shares \in Nat /\ f.user_shares <= f.total_shares
  BY <1>1 DEF Sound, Funds
<1>4. stake.if_shares \in Nat /\ now \in Nat
  BY <1>2 DEF StakeRecords, Inv, EpochInv
<1>5. /\ new \in StakeRecords /\ new.if_base = f.shares_base
      /\ new.if_shares = SharesAt(f, stakes)[s] - n
      /\ new.last_withdraw_request_shares <= new.if_shares
  <2> DEFINE left == stake.if_shares - n
  <2>1. left \in Nat
    BY <1>4
  <2>2. new = RequestDone([stake EXCEPT !.if_shares = left])
    BY <1>2 DEF StakeRecords
  <2> HIDE DEF left
  <2> DEFINE rest == [stake EXCEPT !.if_shares = left]
  <2>3. rest \in StakeRecords /\ rest.if_base = stake.if_base /\ rest.if_shares = left
    BY <1>2, <2>1 DEF StakeRecords
  <2>4. new = RequestDone(rest)
    BY <2>2
  <2> HIDE DEF new, rest
  <2>5. /\ new \in StakeRecords /\ new.if_base = rest.if_base
        /\ new.if_shares = rest.if_shares /\ new.last_withdraw_request_shares = 0
    BY <1>4, <2>3, <2>4 DEF StakeRecords, RequestDone
  <2> QED
    BY <1>2, <2>1, <2>3, <2>5 DEF left
<1>6. /\ g \in Funds /\ g.shares_base = f.shares_base
      /\ g.user_shares = f.user_shares - n /\ g.total_shares = f.total_shares - n
  <2> DEFINE total == f.total_shares - n
             user == f.user_shares - n
  <2>1. g = [f EXCEPT !.total_shares = total, !.user_shares = user]
    BY <1>3 DEF Funds
  <2>2. total \in Nat /\ user \in Nat
    BY <1>3
  <2> HIDE DEF g, total, user
  <2>3. /\ g \in Funds /\ g.shares_base = f.shares_base
        /\ g.user_shares = user /\ g.total_shares = total
    BY <1>3, <2>1, <2>2 DEF Funds
  <2> QED
    BY <2>3 DEF total, user
<1> HIDE DEF new, g
<1>7. SharesAt(f, stakes)[s] \in Nat
  BY <1>1, SharesAtNat
<1>8. /\ g.user_shares = (f.user_shares - SharesAt(f, stakes)[s]) + new.if_shares
      /\ g.user_shares <= g.total_shares
      /\ g.total_shares > 0 => w > 0
  BY <1>3, <1>5, <1>6, <1>7
<1>9. Sound(g, w, [stakes EXCEPT ![s] = new])
  BY <1>1, <1>5, <1>6, <1>8, StakeUpdateSound
<1> QED
  BY <1>9 DEF g, new

(* A request is cancelled, at the cost of what its shares earned.          *)
LEMMA CancelStep ==
  ASSUME Inv, NEW s \in Stakers, CancelRequest(s)
  PROVE  Inv'
<1> DEFINE f == RebasedFund(fund, vault)
           stake == RebasedStake(s, fund, vault)
           lost == calculate_if_shares_lost(stake, f, vault)
<1>1. /\ lost \in 0 .. stake.if_shares
      /\ lost <= f.user_shares
      /\ fund' = [f EXCEPT !.total_shares = @ - lost, !.user_shares = @ - lost]
      /\ stakes' = [stakes EXCEPT ![s] = RequestDone([stake EXCEPT !.if_shares = @ - lost])]
  BY DEF CancelRequest, cancel_request_remove_insurance_fund_stake
<1>2. UNCHANGED <<vault, config, now, transferred>> /\ CountTransaction
  BY DEF CancelRequest
<1>3. vault \in Nat /\ (f.total_shares > 0 => vault > 0)
  BY RebaseSound DEF Inv, Sound
<1> HIDE DEF lost, f, stake
<1>4. lost \in Nat /\ lost <= stake.if_shares
  BY <1>1
<1>5. Sound(fund', vault, stakes')
  BY <1>1, <1>3, <1>4, LeaveSound DEF f, stake
<1> QED
  BY <1>2, <1>5, EpochUntouched DEF Inv

(* A staker is paid.                                                       *)
LEMMA RemoveStep ==
  ASSUME Inv, NEW s \in Stakers, RemoveStake(s)
  PROVE  Inv'
<1> DEFINE f == RebasedFund(fund, vault)
           stake == RebasedStake(s, fund, vault)
           n == stake.last_withdraw_request_shares
<1>1. /\ n <= f.user_shares
      /\ fund' = [f EXCEPT !.total_shares = @ - n, !.user_shares = @ - n]
      /\ stakes' = [stakes EXCEPT ![s] = RequestDone([stake EXCEPT !.if_shares = @ - n])]
      /\ vault' = vault - WithdrawAmount(stake, f)
      /\ vault' > 0
  BY DEF RemoveStake, remove_insurance_fund_stake
<1>2. UNCHANGED <<config, now, transferred>> /\ CountTransaction
  BY DEF RemoveStake
<1>3. Sound(f, vault, stakes)
  BY RebaseSound DEF Inv
<1>4. stake \in StakeRecords /\ n <= stake.if_shares
  BY <1>3, OwnStake DEF RebasedStake
<1> HIDE DEF f, stake
<1>5. n \in Nat /\ stake.last_withdraw_request_value \in Nat /\ f.total_shares \in Nat /\ vault \in Nat
  BY <1>3, <1>4 DEF StakeRecords, Sound, Funds
<1>6. WithdrawAmount(stake, f) \in Nat
  BY <1>5, ConversionsNat DEF WithdrawAmount
<1>7. vault' \in Nat
  BY <1>1, <1>5, <1>6
<1> HIDE DEF n
<1>8. Sound(fund', vault', stakes')
  BY <1>1, <1>4, <1>5, <1>7, LeaveSound DEF f, stake
<1> QED
  BY <1>2, <1>8, EpochUntouched DEF Inv

(* The protocol gives shares away.                                         *)
LEMMA TransferSound ==
  ASSUME Inv, NEW s \in Stakers, NEW shares \in Nat,
         transfer_protocol_insurance_fund_stake(s, shares)
  PROVE  Sound(fund', vault, stakes')
<1> DEFINE f == RebasedFund(fund, vault)
           new == [stakes[s] EXCEPT !.if_shares = @ + shares]
           g == [f EXCEPT !.user_shares = @ + shares]
<1>1. Sound(f, vault, stakes)
  BY RebaseSound DEF Inv
<1>2. stakes \in [Stakers -> StakeRecords] /\ stakes[s] \in StakeRecords
      /\ stakes[s].last_withdraw_request_shares <= stakes[s].if_shares
  BY <1>1 DEF Sound
<1>3. /\ stakes[s].if_base = f.shares_base
      /\ f.total_shares - f.user_shares >= shares
      /\ fund' = g
      /\ stakes' = [stakes EXCEPT ![s] = new]
  BY <1>2 DEF transfer_protocol_insurance_fund_stake
<1> HIDE DEF f
<1>4. /\ f \in Funds /\ f.total_shares \in Nat /\ f.user_shares \in Nat
      /\ vault \in Nat /\ (f.total_shares > 0 => vault > 0)
  BY <1>1 DEF Sound, Funds
<1>5. /\ new \in StakeRecords /\ new.if_base = f.shares_base
      /\ new.if_shares = stakes[s].if_shares + shares
      /\ new.last_withdraw_request_shares <= new.if_shares
  BY <1>2, <1>3 DEF StakeRecords
<1>6. g \in Funds /\ g.shares_base = f.shares_base /\ g.user_shares = f.user_shares + shares
      /\ g.total_shares = f.total_shares
  BY <1>4 DEF Funds
<1>7. SharesAt(f, stakes)[s] = stakes[s].if_shares /\ stakes[s].if_shares \in Nat
  <2>1. f.shares_base - stakes[s].if_base = 0 /\ stakes[s].if_shares \in Nat
    BY <1>2, <1>3, <1>4 DEF Funds, StakeRecords
  <2>2. stakes[s].if_shares \div 1 = stakes[s].if_shares
    BY <2>1
  <2> QED
    BY <2>1, <2>2, Pow10Recursion DEF SharesAt
<1> HIDE DEF new, g
<1>8. /\ g.user_shares = (f.user_shares - SharesAt(f, stakes)[s]) + new.if_shares
      /\ g.user_shares <= g.total_shares
      /\ g.total_shares > 0 => vault > 0
  BY <1>3, <1>4, <1>5, <1>6, <1>7
<1>9. Sound(g, vault, [stakes EXCEPT ![s] = new])
  BY <1>1, <1>4, <1>5, <1>6, <1>8, StakeUpdateSound
<1> QED
  BY <1>3, <1>9

(* The epoch of a transfer stays below the cap.                            *)
LEMMA TransferStep ==
  ASSUME Inv, NEW s \in Stakers, NEW shares \in Transfers, TransferProtocolShares(s, shares)
  PROVE  Inv'
<1> DEFINE c == update_epoch(config)
           old == c.current_epoch_transfer
           N == c.next_epoch_ts
           D == EPOCH_DURATION
<1>1. /\ shares < max_transfer_per_epoch - old
      /\ config' = [c EXCEPT !.current_epoch_transfer = @ + shares]
      /\ transferred' = [transferred EXCEPT ![Epoch(now)] = @ + shares]
      /\ UNCHANGED <<vault, now>>
      /\ transactions' = transactions + 1
  BY DEF TransferProtocolShares, CountTransaction, validate_transfer
<1>2. shares \in Nat /\ max_transfer_per_epoch \in Nat /\ D \in Nat \ {0} /\ MaxTime \in Nat
  BY FundAssumption
<1>3. Sound(fund', vault', stakes')
  BY <1>1, <1>2, TransferSound DEF TransferProtocolShares
<1>4. /\ c \in Configs
      /\ \E k \in 1 .. N : N = k * D
      /\ N >= config.next_epoch_ts
      /\ N > Epoch(now) * D
      /\ \A e \in DOMAIN transferred : e >= Epoch(now) => transferred[e] <= old
  BY UpdateEpochFacts DEF Inv
<1> HIDE DEF c
<1>5. old \in Nat /\ N \in Nat
  BY <1>4 DEF Configs
<1>6. config' \in Configs /\ config'.current_epoch_transfer = old + shares /\ config'.next_epoch_ts = N
  BY <1>1, <1>2, <1>4, <1>5 DEF Configs
<1>7. /\ now \in Nat /\ transactions \in Nat /\ config.next_epoch_ts \in Nat
      /\ transferred \in [0 .. Epoch(MaxTime) -> Nat]
      /\ Epoch(MaxTime) \in Nat /\ Epoch(now) \in Nat
  <2>1. /\ now \in Nat /\ transactions \in Nat /\ config.next_epoch_ts \in Nat
        /\ transferred \in [0 .. Epoch(MaxTime) -> Nat]
    BY DEF Inv, EpochInv, Configs
  <2>2. Epoch(MaxTime) \in Nat
    BY <1>2, EpochFacts
  <2>3. Epoch(now) \in Nat
    BY <2>1, EpochFacts
  <2> QED
    BY <2>1, <2>2, <2>3
<1> HIDE DEF old, N, D
<1>8. ASSUME NEW e \in 0 .. Epoch(MaxTime)
      PROVE  /\ transferred'[e] \in Nat
             /\ transferred'[e] = IF e = Epoch(now) THEN transferred[e] + shares ELSE transferred[e]
  BY <1>1, <1>2, <1>7
<1>9. transferred' \in [0 .. Epoch(MaxTime) -> Nat] /\ DOMAIN transferred = 0 .. Epoch(MaxTime)
      /\ DOMAIN transferred' = 0 .. Epoch(MaxTime)
  BY <1>1, <1>7, <1>8
<1>10. ASSUME NEW e \in DOMAIN transferred', e * D >= N
       PROVE  transferred'[e] = 0
  <2>1. e \in Nat /\ e # Epoch(now)
    BY <1>2, <1>4, <1>5, <1>7, <1>9, <1>10
  <2>2. e * D \in Nat
    BY <1>2, <2>1
  <2>3. e * D >= config.next_epoch_ts
    BY <1>4, <1>5, <1>7, <1>10, <2>2
  <2> QED
    BY <1>8, <1>9, <2>1, <2>3 DEF Inv, EpochInv, D
<1>11. ASSUME NEW e \in DOMAIN transferred', e >= Epoch(now)
       PROVE  transferred'[e] <= old + shares
  <2>1. transferred[e] \in Nat /\ transferred[e] <= old
    BY <1>4, <1>7, <1>9, <1>11
  <2>2. transferred'[e] = transferred[e] + shares \/ transferred'[e] = transferred[e]
    BY <1>8, <1>9
  <2> QED
    BY <1>2, <1>5, <2>1, <2>2
<1>12. ASSUME NEW e \in DOMAIN transferred', transferred'[e] > 0
       PROVE  transferred'[e] < max_transfer_per_epoch
  <2>1. CASE e = Epoch(now)
    <3>1. transferred'[e] <= old + shares
      BY <1>7, <1>11, <2>1
    <3> QED
      BY <1>1, <1>2, <1>5, <1>8, <1>9, <3>1
  <2>2. CASE e # Epoch(now)
    BY <1>8, <1>9, <1>12, <2>2 DEF Inv, EpochInv, EpochCapHolds
  <2> QED
    BY <2>1, <2>2
<1>13. EpochInv'
  <2>1. Epoch(now)' = Epoch(now) /\ Epoch(MaxTime)' = Epoch(MaxTime) /\ now' \in Nat /\ transactions' \in Nat
    BY <1>1, <1>7 DEF Epoch
  <2>2. \E k \in 1 .. config'.next_epoch_ts : config'.next_epoch_ts = k * EPOCH_DURATION
    BY <1>4, <1>6 DEF D
  <2>3. \A e \in DOMAIN transferred' : e * EPOCH_DURATION >= config'.next_epoch_ts => transferred'[e] = 0
    BY <1>6, <1>10 DEF D
  <2>4. \A e \in DOMAIN transferred' : e >= Epoch(now)' => transferred'[e] <= config'.current_epoch_transfer
    BY <1>6, <1>11, <2>1
  <2>5. EpochCapHolds'
    BY <1>12 DEF EpochCapHolds
  <2> QED
    BY <1>6, <1>9, <2>1, <2>2, <2>3, <2>4, <2>5 DEF EpochInv
<1> QED
  BY <1>3, <1>13 DEF Inv

(* Every instruction keeps the invariant.                                  *)
LEMMA NextInv == Inv /\ [Next]_vars => Inv'
<1> SUFFICES ASSUME Inv, [Next]_vars PROVE Inv'
  OBVIOUS
<1>1. CASE Tick
  BY <1>1, TickStep
<1>2. ASSUME NEW revenue \in Revenues, SettleRevenue(revenue) PROVE Inv'
  BY <1>2, SettleRevenueStep
<1>3. ASSUME NEW loss \in Losses, NEW revenue \in Revenues, PayLoss(loss, revenue) PROVE Inv'
  BY <1>3, PayLossStep
<1>4. ASSUME NEW s \in Stakers, NEW amount \in Amounts, NEW revenue \in Revenues, AddStake(s, amount, revenue)
      PROVE  Inv'
  BY <1>4, AddStakeStep
<1>5. ASSUME NEW s \in Stakers, NEW amount \in Amounts, RequestRemoveStake(s, amount) PROVE Inv'
  BY <1>5, RequestStep
<1>6. ASSUME NEW s \in Stakers, CancelRequest(s) PROVE Inv'
  BY <1>6, CancelStep
<1>7. ASSUME NEW s \in Stakers, RemoveStake(s) PROVE Inv'
  BY <1>7, RemoveStep
<1>8. ASSUME NEW s \in Stakers, NEW shares \in Transfers, TransferProtocolShares(s, shares) PROVE Inv'
  BY <1>8, TransferStep
<1>9. CASE UNCHANGED vars
  BY <1>9 DEF vars, Inv, EpochInv, EpochCapHolds, Epoch
<1> QED
  BY <1>1, <1>2, <1>3, <1>4, <1>5, <1>6, <1>7, <1>8, <1>9 DEF Next

(* The inductive invariant holds in every reachable state.                 *)
LEMMA InvAlways == Spec => []Inv
BY InitInv, NextInv, PTL DEF Spec

(* The amounts stay u64 and u128 values: no instruction takes more from    *)
(* the vault, the fund or a stake than there is.                           *)
THEOREM TypeCorrect == Spec => []TypeOK
<1>1. Inv => TypeOK
  BY DEF Inv, Sound, Funds, StakeRecords, EpochInv, Configs, TypeOK
<1> QED
  BY <1>1, InvAlways, PTL

(* However many rebases each stake has missed, the stakes own no more than *)
(* the users' shares, and those are part of all shares                     *)
(* (controller/insurance.rs apply_rebase_to_insurance_fund_stake).         *)
THEOREM SharesAlwaysAddUp == Spec => []SharesAddUp
<1>1. Inv => SharesAddUp
  BY DEF Inv, Sound, SharesAddUp, SharesAt, SharesOf
<1> QED
  BY <1>1, InvAlways, PTL

(* Shares are never left without a token in the vault to price them by     *)
(* (math/insurance.rs vault_amount_to_if_shares).                          *)
THEOREM SharesAlwaysBacked == Spec => []SharesAreBacked
<1>1. Inv => SharesAreBacked
  BY DEF Inv, Sound, SharesAreBacked
<1> QED
  BY <1>1, InvAlways, PTL

(* No epoch gives away the cap or more, whenever transfers are made        *)
(* (state/insurance_fund_stake.rs update_epoch, validate_transfer).        *)
THEOREM EpochCapAlwaysHolds == Spec => []EpochCapHolds
<1>1. Inv => EpochCapHolds
  BY DEF Inv, EpochInv
<1> QED
  BY <1>1, InvAlways, PTL

(***************************************************************************)
(* What a share is worth.                                                  *)
(***************************************************************************)

(* math/insurance.rs calculate_rebase_info: shares that are divided by d   *)
(* and rounded down keep their value up to a token, as d leaves at least   *)
(* as many shares as there are tokens.                                     *)
LEMMA DivisionKeepsValue ==
  ASSUME NEW n \in Nat, NEW T \in Nat \ {0}, NEW v \in Nat, NEW d \in Nat \ {0},
         (d - 1) * v <= T
  PROVE  ((v * n) \div T - 1) * (T \div d) <= (n \div d) * v
<1> DEFINE a == v * n
           x == a \div T
           n1 == n \div d
           T1 == T \div d
<1>1. a \in Nat
  OBVIOUS
<1>2. x \in Nat /\ x * T <= a
  <2> HIDE DEF a
  <2> QED
    BY <1>1, DivBounds
<1>3. n1 \in Nat /\ n < n1 * d + d /\ T1 \in Nat /\ T1 * d <= T
  BY DivBounds
<1> HIDE DEF x, n1, T1
<1>4. CASE x = 0
  <2>1. (x - 1) * T1 = -T1
    BY <1>3, <1>4
  <2>2. n1 * v \in Nat
    BY <1>3
  <2> QED
    BY <1>3, <2>1, <2>2 DEF x, n1, T1, a
<1>5. CASE x # 0
  <2>1. x - 1 \in Nat
    BY <1>2, <1>5
  <2>2. n + 1 <= n1 * d + d /\ n1 * d \in Nat
    BY <1>3
  <2>3. (n + 1) * v <= (n1 * d + d) * v
    BY <2>2, ScaleUp
  <2>4. (n + 1) * v = v * n + v /\ (n1 * d + d) * v = (n1 * v) * d + (d - 1) * v + v
        /\ (n1 * v) * d \in Nat /\ (d - 1) * v \in Nat /\ v * n \in Nat
    BY <1>3
  <2>5. v * n <= (n1 * v) * d + T
    BY <2>3, <2>4
  <2>6. (x - 1) * T = x * T - T /\ x * T \in Nat
    BY <1>2
  <2>7. (x - 1) * T <= (n1 * v) * d
    BY <1>2, <2>4, <2>5, <2>6 DEF a
  <2>8. (T1 * d) * (x - 1) <= T * (x - 1)
    BY <1>3, <2>1, ScaleUp
  <2>9. (T1 * d) * (x - 1) = ((x - 1) * T1) * d /\ T * (x - 1) = (x - 1) * T /\ ((x - 1) * T1) * d \in Int
    BY <1>3, <2>1
  <2>10. ((x - 1) * T1) * d <= (n1 * v) * d
    BY <2>4, <2>6, <2>7, <2>8, <2>9
  <2>11. (x - 1) * T1 \in Int /\ n1 * v \in Int
    BY <1>3, <2>1
  <2>12. (x - 1) * T1 <= n1 * v
    BY <2>10, <2>11, CancelFactor
  <2> QED
    BY <2>12 DEF x, n1, T1, a
<1> QED
  BY <1>4, <1>5

(* n shares that are worth x tokens at the price v / T are worth as much   *)
(* at a price w / U that is not lower.                                     *)
LEMMA PriceKeepsValue ==
  ASSUME NEW n \in Nat, NEW x \in Int, NEW T \in Nat \ {0}, NEW U \in Nat \ {0},
         NEW v \in Nat, NEW w \in Nat,
         x * T <= n * v, v * U <= w * T
  PROVE  x <= (w * n) \div U
<1>1. (x * T) * U <= (n * v) * U
  BY ScaleUp
<1>2. (v * U) * n <= (w * T) * n
  BY ScaleUp
<1>3. (n * v) * U = (v * U) * n /\ (w * T) * n = (w * n) * T /\ (x * T) * U = (x * U) * T
      /\ (v * U) * n \in Int /\ (w * n) * T \in Int /\ (x * U) * T \in Int
  OBVIOUS
<1>4. (x * U) * T <= (w * n) * T
  BY <1>1, <1>2, <1>3
<1>5. x * U <= w * n
  <2>1. x * U \in Int /\ w * n \in Int
    OBVIOUS
  <2> QED
    BY <1>4, <2>1, CancelFactor
<1> DEFINE a == w * n
<1>6. a \in Nat
  OBVIOUS
<1>7. x <= a \div U
  <2>1. x * U <= a
    BY <1>5
  <2> HIDE DEF a
  <2>2. CASE x \in Nat
    BY <1>6, <2>1, <2>2, DivAtLeast
  <2>3. CASE x \notin Nat
    BY <1>6, <2>3, DivBounds
  <2> QED
    BY <2>2, <2>3
<1> QED
  BY <1>7 DEF a

(* A power of ten is not larger than a later one.                          *)
LEMMA Pow10Grows ==
  ASSUME NEW m \in Nat, NEW n \in Nat, m <= n
  PROVE  Pow10[m] <= Pow10[n]
<1> DEFINE a == Pow10[m]
           b == Pow10[n - m]
<1>1. n - m \in Nat /\ m + (n - m) = n
  OBVIOUS
<1>2. Pow10[n] = a * b
  BY <1>1, Pow10Add
<1>3. a \in Nat \ {0} /\ b \in Nat \ {0}
  BY <1>1, Pow10Recursion
<1> HIDE DEF a, b
<1>4. a * 1 <= a * b
  BY <1>3
<1> QED
  BY <1>2, <1>3, <1>4 DEF a

(* math/helpers.rs log10_iter: ten to the logarithm is not larger than the *)
(* number.                                                                 *)
LEMMA LogIsBelow ==
  ASSUME NEW n \in Nat
  PROVE  /\ log10_iter(n) \in Nat
         /\ log10_iter(n) # 0 => Pow10[log10_iter(n)] <= n
<1> DEFINE S == {k \in 1 .. MaxExpo : Pow10[k] <= n}
           e == Cardinality(S)
<1>1. MaxExpo \in Nat /\ Cardinality(1 .. MaxExpo) = MaxExpo /\ IsFiniteSet(1 .. MaxExpo)
  <2>1. MaxExpo \in Nat /\ MaxExpo \in Int /\ 1 \in Int /\ MaxExpo >= 1
    BY DEF MaxExpo
  <2> DEFINE one == 1
  <2> HIDE DEF one
  <2>2. one \in Int
    BY DEF one
  <2>3. IsFiniteSet(one .. MaxExpo) /\ Cardinality(one .. MaxExpo) = IF one > MaxExpo THEN 0 ELSE MaxExpo - one + 1
    BY <2>1, <2>2, FS_Interval
  <2> QED
    BY <2>1, <2>3 DEF one
<1>2. S \in SUBSET (1 .. MaxExpo)
  OBVIOUS
<1>3. e \in Nat /\ e <= MaxExpo
  <2> HIDE DEF S
  <2>1. IsFiniteSet(S) /\ Cardinality(S) <= Cardinality(1 .. MaxExpo)
    BY <1>1, <1>2, FS_Subset
  <2>2. Cardinality(S) \in Nat
    BY <2>1, FS_CardinalityType
  <2> QED
    BY <1>1, <2>1, <2>2
<1> HIDE DEF e
<1>4. ASSUME e # 0, ~ Pow10[e] <= n PROVE FALSE
  <2>1. Pow10[e] \in Nat /\ e - 1 \in Nat
    BY <1>3, <1>4, Pow10Recursion
  <2>2. S \subseteq 1 .. (e - 1)
    <3> SUFFICES ASSUME NEW k \in S, ~ k <= e - 1 PROVE FALSE
      BY <1>1, <1>3
    <3>1. k \in Nat /\ e <= k /\ Pow10[k] <= n
      BY <1>1, <1>3
    <3>2. Pow10[e] <= Pow10[k] /\ Pow10[k] \in Nat
      BY <1>3, <3>1, Pow10Grows, Pow10Recursion
    <3> QED
      BY <1>4, <2>1, <3>1, <3>2
  <2> DEFINE I == 1 .. (e - 1)
  <2>3. IsFiniteSet(I) /\ Cardinality(I) = e - 1
    <3> DEFINE one == 1
               h == e - 1
    <3>1. one \in Int /\ h \in Int
      BY <2>1
    <3> HIDE DEF one, h
    <3>2. IsFiniteSet(one .. h) /\ Cardinality(one .. h) = IF one > h THEN 0 ELSE h - one + 1
      BY <3>1, FS_Interval
    <3> QED
      BY <2>1, <3>2 DEF one, h
  <2> HIDE DEF I, S
  <2>4. Cardinality(S) <= e - 1
    BY <2>2, <2>3, FS_Subset DEF I
  <2> QED
    BY <1>3, <2>4 DEF e
<1> QED
  BY <1>3, <1>4 DEF log10_iter, e

(* Fund g is fund f, with v tokens in its vault, with all shares divided   *)
(* by d.                                                                   *)
Divided(f, v, g, d) ==
  /\ d \in Nat \ {0}
  /\ (d - 1) * v <= f.total_shares
  /\ f.total_shares > 0 => g.total_shares = f.total_shares \div d /\ g.total_shares > 0
  /\ \A st : Sound(f, v, st) => \A s \in Stakers : SharesAt(g, st)[s] = SharesAt(f, st)[s] \div d

(* controller/insurance.rs apply_rebase_to_insurance_fund divides so that  *)
(* shares are left, and at least as many as there are tokens.              *)
LEMMA RebaseDivides ==
  ASSUME NEW f, NEW v, NEW st, Sound(f, v, st)
  PROVE  \E d : Divided(f, v, RebasedFund(f, v), d)
<1> DEFINE T == f.total_shares
           low == (T \div 10) \div v
           expo == IF v # 0 /\ v < T THEN RebaseExpo(T, v) ELSE 0
           d == Pow10[expo]
           g == RebasedFund(f, v)
<1>1. T \in Nat /\ v \in Nat /\ f.shares_base \in Nat /\ (T > 0 => v > 0) /\ f \in Funds
  BY DEF Sound, Funds
<1>2. expo \in Nat /\ (expo # 0 => v # 0 /\ v < T /\ d <= low)
  <2>1. CASE v # 0 /\ v < T
    <3> DEFINE t == T \div 10
    <3>1. t \in Nat
      BY <1>1
    <3>2. low \in Nat
      <4> HIDE DEF t
      <4>1. t \div v \in Nat
        BY <1>1, <2>1, <3>1, DivBounds
      <4> QED
        BY <4>1 DEF t
    <3>3. expo = log10_iter(low)
      BY <2>1 DEF RebaseExpo
    <3> HIDE DEF low, expo
    <3>4. expo \in Nat /\ (expo # 0 => Pow10[expo] <= low)
      BY <3>2, <3>3, LogIsBelow
    <3> QED
      BY <2>1, <3>4
  <2>2. CASE ~ (v # 0 /\ v < T)
    BY <2>2
  <2> QED
    BY <2>1, <2>2
<1>3. d \in Nat \ {0}
  BY <1>2, Pow10Recursion
<1>4. expo = 0 => d = 1
  BY Pow10Recursion
<1>5. g.total_shares = (IF v # 0 /\ T \div d = 0 THEN v ELSE T \div d) /\ g.shares_base = f.shares_base + expo
  BY DEF RebasedFund, apply_rebase_to_insurance_fund
<1> HIDE DEF d, expo, g
<1>6. (d - 1) * v <= T /\ (T > 0 => T \div d > 0)
  <2>1. CASE expo = 0
    <3>1. (d - 1) * v = 0 /\ T \div d = T
      BY <1>1, <1>4, <2>1
    <3> QED
      BY <1>1, <3>1
  <2>2. CASE expo # 0
    <3> DEFINE t == T \div 10
    <3>1. t \in Nat /\ t <= T /\ v \in Nat \ {0} /\ d <= t \div v
      BY <1>1, <1>2, <2>2
    <3> HIDE DEF t
    <3>2. t \div v \in Nat /\ (t \div v) * v <= t
      BY <3>1, DivBounds
    <3>3. d * v <= (t \div v) * v
      BY <1>3, <3>1, <3>2, ScaleUp
    <3>4. d * v \in Nat /\ (t \div v) * v \in Nat
      BY <1>3, <3>1, <3>2
    <3>5. d * v <= T
      BY <1>1, <3>1, <3>2, <3>3, <3>4
    <3>6. (d - 1) * v = d * v - v
      BY <1>3, <3>1
    <3>7. 1 * d <= d * v
      BY <1>3, <3>1
    <3>8. 1 * d <= T
      BY <1>1, <1>3, <3>4, <3>5, <3>7
    <3>9. 1 <= T \div d
      <4> DEFINE one == 1
      <4>1. one \in Nat /\ one * d <= T
        BY <3>8
      <4> HIDE DEF one, T
      <4>2. one <= T \div d
        BY <1>1, <1>3, <4>1, DivAtLeast
      <4> QED
        BY <4>2 DEF one
    <3>10. T \div d \in Nat
      BY <1>1, <1>3, DivBounds
    <3> QED
      BY <1>1, <3>1, <3>4, <3>5, <3>6, <3>9, <3>10
  <2> QED
    BY <2>1, <2>2
<1>7. T > 0 => g.total_shares = T \div d /\ g.total_shares > 0
  <2>1. T \div d \in Nat
    BY <1>1, <1>3, DivBounds
  <2> QED
    BY <1>5, <1>6, <2>1
<1>8. ASSUME NEW su, Sound(f, v, su), NEW s \in Stakers
      PROVE  SharesAt(g, su)[s] = SharesAt(f, su)[s] \div d
  <2> DEFINE n == su[s].if_shares
             k == f.shares_base - su[s].if_base
  <2>1. n \in Nat /\ k \in Nat /\ g.shares_base - su[s].if_base = k + expo
    BY <1>2, <1>5, <1>8 DEF Sound, Funds, StakeRecords
  <2>2. SharesAt(f, su)[s] = n \div Pow10[k] /\ SharesAt(g, su)[s] = n \div Pow10[k + expo]
    BY <2>1 DEF SharesAt
  <2> HIDE DEF n, k
  <2>3. Pow10[k] \in Nat \ {0} /\ Pow10[k + expo] = Pow10[k] * d
    BY <1>2, <2>1, Pow10Recursion, Pow10Add DEF d
  <2>4. (n \div Pow10[k]) \div d = n \div (Pow10[k] * d)
    BY <1>3, <2>1, <2>3, DivTwice
  <2> QED
    BY <2>2, <2>3, <2>4
<1>9. Divided(f, v, g, d)
  BY <1>3, <1>6, <1>7, <1>8 DEF Divided
<1> QED
  BY <1>9 DEF g

(* What the shares of s are worth in fund f with v tokens in its vault.    *)
Value(f, v, st, s) == if_shares_to_vault_amount(SharesAt(f, st)[s], f.total_shares, v)

(* math/insurance.rs if_shares_to_vault_amount rounds down.                *)
LEMMA ValueIsQuotient ==
  ASSUME NEW n \in Nat, NEW T \in Nat, NEW v \in Nat
  PROVE  /\ T > 0 => if_shares_to_vault_amount(n, T, v) = (v * n) \div T
         /\ T = 0 => if_shares_to_vault_amount(n, T, v) = 0
         /\ if_shares_to_vault_amount(n, T, v) \in Nat
<1>1. T > 0 => get_proportion_u128(v, n, T) = (v * n) \div T
  BY ProportionIsQuotient
<1> QED
  BY <1>1, ConversionsNat DEF if_shares_to_vault_amount

(* No stake has more shares than there are.                                *)
LEMMA StakeIsPart ==
  ASSUME NEW f, NEW v, NEW st, Sound(f, v, st), NEW s \in Stakers
  PROVE  SharesAt(f, st)[s] \in Nat /\ SharesAt(f, st)[s] <= f.total_shares
<1> DEFINE shares == SharesAt(f, st)
<1>1. shares \in [Stakers -> Nat] /\ SumOf(shares) \in Nat
  BY SharesAtNat
<1>2. SumOf(shares) <= f.user_shares /\ f.user_shares <= f.total_shares
      /\ f.user_shares \in Nat /\ f.total_shares \in Nat
  BY DEF Sound, Funds
<1> HIDE DEF shares
<1>3. shares[s] <= SumOf(shares)
  BY <1>1, SumSplit, FundAssumption
<1>4. shares[s] \in Nat /\ shares[s] <= f.total_shares
  BY <1>1, <1>2, <1>3
<1> QED
  BY <1>4 DEF shares

(* controller/insurance.rs settle_revenue_to_insurance_fund: the protocol  *)
(* pays at least the price for its shares.                                 *)
LEMMA RevenueBuysShares ==
  ASSUME NEW f, NEW v, NEW st, Sound(f, v, st), NEW revenue \in Nat
  PROVE  /\ ProtocolShares(f, v, revenue) \in Nat
         /\ settle_revenue(f, v, revenue).total_shares = f.total_shares + ProtocolShares(f, v, revenue)
         /\ ProtocolShares(f, v, revenue) * v <= revenue * f.total_shares
<1> DEFINE F == total_factor - user_factor
           part == (revenue * F) \div total_factor
           n == ProtocolShares(f, v, revenue)
           T == f.total_shares
<1>1. f \in Funds /\ T \in Nat /\ v \in Nat /\ (T > 0 => v > 0)
  BY DEF Sound, Funds
<1>2. settle_revenue(f, v, revenue).total_shares = T + n
  BY <1>1 DEF settle_revenue, Funds
<1>3. F \in Nat /\ total_factor \in Nat \ {0} /\ F <= total_factor
  BY FundAssumption
<1>4. part \in Nat /\ part <= revenue
  <2> DEFINE a == revenue * F
             D == total_factor
  <2>1. a \in Nat /\ D \in Nat \ {0} /\ F * revenue <= D * revenue
    BY <1>3, ScaleUp
  <2>2. a <= revenue * D
    BY <1>3, <2>1
  <2> HIDE DEF a, D
  <2>3. a \div D \in Nat /\ (a \div D) * D <= a
    BY <2>1, DivBounds
  <2> DEFINE p == a \div D
  <2> HIDE DEF p
  <2>4. p \in Nat /\ p * D <= a
    BY <2>3 DEF p
  <2>5. p * D <= revenue * D
    <3>1. p * D \in Nat /\ revenue * D \in Nat
      BY <2>1, <2>4
    <3> QED
      BY <2>1, <2>2, <2>4, <3>1
  <2>6. p <= revenue
    BY <2>1, <2>4, <2>5, CancelFactor
  <2> QED
    BY <2>4, <2>6 DEF p, a, D
<1>5. n = IF total_factor > user_factor THEN vault_amount_to_if_shares(part, T, v) ELSE 0
  BY DEF ProtocolShares
<1> HIDE DEF part, n, T
<1>6. n \in Nat
  BY <1>1, <1>4, <1>5, ConversionsNat
<1>7. revenue * T \in Nat
  BY <1>1
<1>8. n * v <= revenue * T
  <2>1. CASE v = 0
    <3>1. n * v = 0
      BY <1>6, <2>1
    <3> QED
      BY <1>7, <3>1
  <2>2. CASE v # 0 /\ total_factor > user_factor
    <3> DEFINE a == part * T
    <3>1. n = get_proportion_u128(part, T, v)
      BY <1>1, <1>5, <2>2 DEF vault_amount_to_if_shares
    <3>2. n = a \div v /\ a \in Nat /\ v \in Nat \ {0}
      BY <1>1, <1>4, <2>2, <3>1, ProportionIsQuotient
    <3>3. a <= revenue * T
      BY <1>1, <1>4, ScaleUp
    <3> HIDE DEF a
    <3>4. n * v <= a
      BY <3>2, DivBounds
    <3>5. n * v \in Nat
      BY <1>1, <1>6
    <3> QED
      BY <1>7, <3>2, <3>3, <3>4, <3>5
  <2>3. CASE ~ total_factor > user_factor
    <3>1. n * v = 0
      BY <1>1, <1>5, <2>3
    <3> QED
      BY <1>7, <3>1
  <2> QED
    BY <2>1, <2>2, <2>3
<1> QED
  BY <1>2, <1>6, <1>8 DEF n, T

(* What the vault holds after a payment alone.                             *)
Less(v, paid) == IF paid <= v THEN v - paid ELSE 0

(* Revenue, and a payment after it, takes no more from a staker than the   *)
(* payment would have alone.                                               *)
LEMMA SettleKeepsValue ==
  ASSUME NEW f, NEW v, NEW st, Sound(f, v, st), NEW s \in Stakers,
         NEW revenue \in Nat, NEW paid \in Nat, paid <= v + revenue
  PROVE  Value(settle_revenue(f, v, revenue), (v + revenue) - paid, st, s)
           >= Value(f, Less(v, paid), st, s)
<1> DEFINE g == settle_revenue(f, v, revenue)
           n == SharesAt(f, st)[s]
           T == f.total_shares
           P == ProtocolShares(f, v, revenue)
           U == g.total_shares
           w == (v + revenue) - paid
           u == Less(v, paid)
<1>1. T \in Nat /\ v \in Nat
  BY DEF Sound, Funds
<1>2. P \in Nat /\ U = T + P /\ P * v <= revenue * T
  BY RevenueBuysShares
<1>3. SharesAt(g, st) = SharesAt(f, st)
  BY SettleSound DEF SharesAt
<1>4. n \in Nat
  BY StakeIsPart
<1>5. w \in Nat /\ u \in Nat /\ u <= v
  BY <1>1 DEF Less
<1>6. Value(g, w, st, s) = if_shares_to_vault_amount(n, U, w) /\ Value(f, u, st, s) = if_shares_to_vault_amount(n, T, u)
  BY <1>3 DEF Value
<1>7. (u = v - paid /\ w = u + revenue) \/ u = 0
  BY <1>1 DEF Less
<1> HIDE DEF g, n, T, P, U, w, u
<1>8. CASE T = 0
  <2>1. if_shares_to_vault_amount(n, T, u) = 0
    BY <1>1, <1>4, <1>5, <1>8, ValueIsQuotient
  <2>2. U \in Nat
    BY <1>1, <1>2
  <2>3. if_shares_to_vault_amount(n, U, w) \in Nat
    BY <1>4, <1>5, <2>2, ValueIsQuotient
  <2> QED
    BY <1>6, <2>1, <2>3 DEF g, w, u
<1>9. CASE T # 0
  <2>1. U \in Nat \ {0} /\ T \in Nat \ {0}
    BY <1>1, <1>2, <1>9
  <2>2. u * U <= w * T
    <3>1. CASE u = 0
      <4>1. u * U = 0 /\ w * T \in Nat
        BY <1>5, <2>1, <3>1
      <4> QED
        BY <4>1
    <3>2. CASE u = v - paid /\ w = u + revenue
      <4>1. u * U = u * T + P * u
        BY <1>1, <1>2, <1>5
      <4>2. w * T = u * T + revenue * T
        BY <1>1, <1>5, <3>2
      <4>3. u * P <= v * P
        BY <1>1, <1>2, <1>5, ScaleUp
      <4>4. u * P = P * u /\ v * P = P * v
        BY <1>1, <1>2, <1>5
      <4>5. P * u \in Nat /\ P * v \in Nat /\ revenue * T \in Nat /\ u * T \in Nat
        BY <1>1, <1>2, <1>5
      <4> QED
        BY <1>2, <4>1, <4>2, <4>3, <4>4, <4>5
    <3> QED
      BY <1>7, <3>1, <3>2
  <2> DEFINE a == u * n
             x == a \div T
  <2>3. a \in Nat
    BY <1>4, <1>5
  <2>4. x \in Nat /\ x * T <= a
    <3> HIDE DEF a
    <3> QED
      BY <2>1, <2>3, DivBounds
  <2>5. a = n * u
    BY <1>4, <1>5
  <2>6. x * T <= n * u
    BY <2>4, <2>5
  <2>7. if_shares_to_vault_amount(n, T, u) = x /\ if_shares_to_vault_amount(n, U, w) = (w * n) \div U
    <3>1. T > 0 /\ U > 0
      BY <2>1
    <3>2. if_shares_to_vault_amount(n, T, u) = (u * n) \div T
      BY <1>1, <1>4, <1>5, <3>1, ValueIsQuotient
    <3>3. if_shares_to_vault_amount(n, U, w) = (w * n) \div U
      BY <1>4, <1>5, <2>1, <3>1, ValueIsQuotient
    <3> QED
      BY <3>2, <3>3
  <2> HIDE DEF a, x
  <2>8. x <= (w * n) \div U
    BY <1>4, <1>5, <2>1, <2>2, <2>4, <2>6, PriceKeepsValue
  <2>9. if_shares_to_vault_amount(n, U, w) \in Nat
    BY <1>4, <1>5, <2>1, ValueIsQuotient
  <2> QED
    BY <1>6, <2>4, <2>7, <2>8, <2>9 DEF g, w, u
<1> QED
  BY <1>8, <1>9 DEF g, w, u

(* A rebase, and a trade of shares for tokens after it at the price or a   *)
(* better one for the fund, takes at most a token from a staker.           *)
LEMMA TradeKeepsValue ==
  ASSUME NEW f, NEW v, NEW st, Sound(f, v, st), NEW s \in Stakers,
         NEW g \in Funds, g.shares_base = RebasedFund(f, v).shares_base,
         SharesAt(g, st)[s] <= g.total_shares,
         NEW w \in Nat, v * g.total_shares <= w * RebasedFund(f, v).total_shares
  PROVE  Value(g, w, st, s) >= Value(f, v, st, s) - 1
<1> DEFINE r == RebasedFund(f, v)
           n == SharesAt(f, st)[s]
           m == SharesAt(g, st)[s]
           T == f.total_shares
           R == r.total_shares
           U == g.total_shares
<1>1. T \in Nat /\ v \in Nat /\ U \in Nat /\ n \in Nat
  BY StakeIsPart DEF Sound, Funds
<1>2. PICK d : Divided(f, v, r, d)
  BY RebaseDivides
<1>3. SharesAt(g, st) = SharesAt(r, st)
  BY DEF SharesAt
<1>4. m = n \div d /\ d \in Nat \ {0} /\ (d - 1) * v <= T
      /\ (T > 0 => R = T \div d /\ R > 0)
  BY <1>2, <1>3 DEF Divided
<1>5. Value(g, w, st, s) = if_shares_to_vault_amount(m, U, w) /\ Value(f, v, st, s) = if_shares_to_vault_amount(n, T, v)
  BY DEF Value
<1>6. m <= U /\ v * U <= w * R
  OBVIOUS
<1> HIDE DEF r, n, m, T, R, U
<1>7. m \in Nat
  BY <1>1, <1>4, DivBounds
<1>8. if_shares_to_vault_amount(m, U, w) \in Nat
  BY <1>1, <1>7, ValueIsQuotient
<1>9. CASE T = 0
  BY <1>1, <1>5, <1>8, <1>9, ValueIsQuotient
<1>10. CASE T # 0
  <2> DEFINE x == (v * n) \div T
  <2>1. T \in Nat \ {0} /\ R \in Nat \ {0}
    BY <1>1, <1>4, <1>10, DivBounds
  <2>2. if_shares_to_vault_amount(n, T, v) = x /\ x \in Nat
    <3>1. T > 0
      BY <2>1
    <3>2. /\ if_shares_to_vault_amount(n, T, v) = (v * n) \div T
          /\ if_shares_to_vault_amount(n, T, v) \in Nat
      BY <1>1, <3>1, ValueIsQuotient
    <3> QED
      BY <3>2
  <2>3. (x - 1) * R <= m * v
    <3>1. ((v * n) \div T - 1) * (T \div d) <= (n \div d) * v
      BY <1>1, <1>4, <2>1, DivisionKeepsValue
    <3>2. R = T \div d
      BY <1>4, <2>1
    <3> QED
      BY <1>4, <3>1, <3>2
  <2> HIDE DEF x
  <2>4. CASE U = 0
    <3>1. m = 0
      BY <1>1, <1>6, <1>7, <2>4
    <3>2. (x - 1) * R <= 0 * R
      BY <1>1, <2>1, <2>3, <3>1
    <3> DEFINE zero == 0
               y == x - 1
    <3>3. zero \in Int /\ y \in Int /\ y * R <= zero * R
      BY <2>2, <3>2
    <3> HIDE DEF zero, y
    <3>4. y <= zero
      BY <2>1, <3>3, CancelFactor
    <3> QED
      BY <1>5, <1>8, <2>2, <3>4 DEF zero, y
  <2>5. CASE U # 0
    <3> DEFINE y == x - 1
    <3>1. y \in Int /\ y * R <= m * v /\ U \in Nat \ {0}
      BY <1>1, <2>2, <2>3, <2>5
    <3> HIDE DEF y
    <3>2. y <= (w * m) \div U
      BY <1>1, <1>6, <1>7, <2>1, <3>1, PriceKeepsValue
    <3>3. if_shares_to_vault_amount(m, U, w) = (w * m) \div U
      BY <1>7, <3>1, ValueIsQuotient
    <3> QED
      BY <1>5, <1>8, <2>2, <3>2, <3>3 DEF y
  <2> QED
    BY <2>4, <2>5
<1> QED
  BY <1>9, <1>10

(* A stake that an instruction does not touch.                             *)
LEMMA HeldStake ==
  ASSUME Inv, Inv', NEW t \in Stakers, stakes'[t] = stakes[t]
  PROVE  /\ ValueOf(t) = Value(fund, vault, stakes, t)
         /\ ValueOf(t)' = Value(fund', vault', stakes, t)
         /\ SharesAt(fund', stakes)[t] <= fund'.total_shares
         /\ fund' \in Funds
         /\ vault' \in Nat
<1>1. Sound(fund', vault', stakes')
  BY DEF Inv
<1>2. SharesAt(fund', stakes)[t] = SharesAt(fund', stakes')[t]
  BY DEF SharesAt
<1>3. SharesAt(fund', stakes')[t] <= fund'.total_shares
  BY <1>1, StakeIsPart
<1>4. ValueOf(t) = Value(fund, vault, stakes, t)
  BY DEF ValueOf, Value, SharesOf, SharesAt
<1>5. ValueOf(t)' = Value(fund', vault', stakes, t)
  BY DEF ValueOf, Value, SharesOf, SharesAt
<1> QED
  BY <1>1, <1>2, <1>3, <1>4, <1>5 DEF Sound

(* An instruction that rebases the fund and then trades at the price.      *)
LEMMA TradeStep ==
  ASSUME Inv, Inv', NEW t \in Stakers, stakes'[t] = stakes[t],
         fund'.shares_base = RebasedFund(fund, vault).shares_base,
         vault * fund'.total_shares <= vault' * RebasedFund(fund, vault).total_shares
  PROVE  ValueOf(t)' >= ValueOf(t) - 1
<1>1. Value(fund', vault', stakes, t) >= Value(fund, vault, stakes, t) - 1
  <2> DEFINE g == fund'
             w == vault'
  <2>1. /\ SharesAt(g, stakes)[t] <= g.total_shares /\ g \in Funds /\ w \in Nat
    BY HeldStake
  <2>2. Sound(fund, vault, stakes)
    BY DEF Inv
  <2>3. g.shares_base = RebasedFund(fund, vault).shares_base
        /\ vault * g.total_shares <= w * RebasedFund(fund, vault).total_shares
    OBVIOUS
  <2> HIDE DEF g, w
  <2>4. Value(g, w, stakes, t) >= Value(fund, vault, stakes, t) - 1
    BY <2>1, <2>2, <2>3, TradeKeepsValue
  <2> QED
    BY <2>4 DEF g, w
<1> QED
  BY <1>1, HeldStake

(* A fund that only loses shares, with all its tokens.                     *)
LEMMA SharesLeave ==
  ASSUME Inv, Inv', NEW t \in Stakers, stakes'[t] = stakes[t], vault' = vault,
         fund'.shares_base = RebasedFund(fund, vault).shares_base,
         fund'.total_shares <= RebasedFund(fund, vault).total_shares
  PROVE  ValueOf(t)' >= ValueOf(t) - 1
<1> DEFINE a == fund'.total_shares
           b == RebasedFund(fund, vault).total_shares
<1>1. a \in Nat /\ b \in Nat /\ vault \in Nat /\ a <= b
  <2>1. Sound(RebasedFund(fund, vault), vault, stakes) /\ Sound(fund', vault', stakes')
    BY RebaseSound DEF Inv
  <2> QED
    BY <2>1 DEF Sound, Funds
<1> HIDE DEF a, b
<1>2. a * vault <= b * vault
  BY <1>1, ScaleUp
<1>3. vault * a <= vault' * b
  BY <1>1, <1>2
<1> QED
  BY <1>3, TradeStep DEF a, b

(* A newcomer pays at least the price, after due revenue.                  *)
LEMMA AddStakeKeepsValue ==
  ASSUME Inv, Inv', NEW s \in Stakers, NEW amount \in Amounts, NEW revenue \in Revenues,
         AddStake(s, amount, revenue), NEW t \in Stakers, stakes'[t] = stakes[t]
  PROVE  ValueOf(t)' >= ValueOf(t) - 1
<1> DEFINE f0 == settle_revenue(fund, vault, revenue)
           v == vault + revenue
           f == RebasedFund(f0, v)
           n == vault_amount_to_if_shares(amount, f.total_shares, v)
           T == f.total_shares
           g == fund'
           w == vault'
<1>1. /\ CanConvert(f0.total_shares, v)
      /\ g = [f EXCEPT !.total_shares = @ + n, !.user_shares = @ + n]
      /\ w = v + amount
  BY DEF AddStake, add_insurance_fund_stake
<1>2. revenue \in Nat /\ amount \in Nat
  BY FundAssumption
<1>3. Sound(f0, v, stakes) /\ Sound(f, v, stakes)
  BY <1>2, SettleSound, RebaseSound DEF Inv
<1>4. f \in Funds /\ T \in Nat /\ v \in Nat /\ (T > 0 => v > 0)
  BY <1>3 DEF Sound, Funds
<1>5. Value(f0, v, stakes, t) >= Value(fund, vault, stakes, t)
  <2> DEFINE none == 0
  <2>1. none \in Nat /\ none <= vault + revenue /\ vault \in Nat
    BY <1>2 DEF Inv, Sound
  <2> HIDE DEF none
  <2>2. Value(settle_revenue(fund, vault, revenue), (vault + revenue) - none, stakes, t)
          >= Value(fund, Less(vault, none), stakes, t)
    BY <1>2, <2>1, SettleKeepsValue DEF Inv
  <2>3. (vault + revenue) - none = v /\ Less(vault, none) = vault
    BY <1>2, <2>1 DEF none, Less
  <2> QED
    BY <2>2, <2>3
<1> HIDE DEF f, f0, v
<1>6. n \in Nat /\ n * v <= amount * T
  <2>1. n \in Nat
    BY <1>2, <1>4, ConversionsNat
  <2>2. amount * T \in Nat
    BY <1>2, <1>4
  <2>3. CASE v = 0
    <3>1. n * v = 0
      BY <2>1, <2>3
    <3> QED
      BY <2>1, <2>2, <3>1
  <2>4. CASE v # 0
    <3> DEFINE a == amount * T
    <3>1. n = get_proportion_u128(amount, T, v)
      BY <1>4, <2>4 DEF vault_amount_to_if_shares
    <3>2. n = a \div v /\ v \in Nat \ {0}
      BY <1>2, <1>4, <2>4, <3>1, ProportionIsQuotient
    <3> HIDE DEF a
    <3>3. n * v <= a
      BY <2>2, <3>2, DivBounds DEF a
    <3> QED
      BY <2>1, <3>3 DEF a
  <2> QED
    BY <2>3, <2>4
<1> HIDE DEF n
<1>7. g.total_shares = T + n /\ g.shares_base = f.shares_base
  BY <1>1, <1>4 DEF Funds
<1> HIDE DEF T, g, w
<1>8. v * (T + n) <= w * T
  <2>1. v * (T + n) = v * T + n * v /\ w * T = v * T + amount * T
    BY <1>1, <1>2, <1>4, <1>6
  <2>2. v * T \in Nat /\ n * v \in Nat /\ amount * T \in Nat
    BY <1>2, <1>4, <1>6
  <2> QED
    BY <1>6, <2>1, <2>2
<1>9. SharesAt(g, stakes)[t] <= g.total_shares /\ g \in Funds /\ w \in Nat
  BY HeldStake DEF g, w
<1>10. Value(g, w, stakes, t) >= Value(f0, v, stakes, t) - 1
  <2>1. v * g.total_shares <= w * RebasedFund(f0, v).total_shares
    BY <1>7, <1>8 DEF f, T
  <2>2. g.shares_base = RebasedFund(f0, v).shares_base
    BY <1>7 DEF f
  <2> QED
    BY <1>3, <1>9, <2>1, <2>2, TradeKeepsValue
<1>11. /\ Value(g, w, stakes, t) \in Nat /\ Value(f0, v, stakes, t) \in Nat
       /\ Value(fund, vault, stakes, t) \in Nat
  <2>1. ASSUME NEW h, NEW x, Sound(h, x, stakes) PROVE Value(h, x, stakes, t) \in Nat
    <3>1. SharesAt(h, stakes)[t] \in Nat /\ h.total_shares \in Nat /\ x \in Nat
      BY <2>1, StakeIsPart DEF Sound, Funds
    <3> QED
      BY <3>1, ValueIsQuotient DEF Value
  <2>2. SharesAt(g, stakes)[t] \in Nat
    <3>1. Sound(fund', vault', stakes')
      BY DEF Inv
    <3>2. SharesAt(g, stakes)[t] = SharesAt(g, stakes')[t]
      BY DEF SharesAt
    <3> QED
      BY <3>1, <3>2, StakeIsPart DEF g
  <2>3. g.total_shares \in Nat
    BY <1>9 DEF Funds
  <2>4. Value(g, w, stakes, t) \in Nat
    BY <1>9, <2>2, <2>3, ValueIsQuotient DEF Value
  <2> QED
    BY <1>3, <2>1, <2>4 DEF Inv
<1>12. Value(g, w, stakes, t) >= Value(fund, vault, stakes, t) - 1
  BY <1>5, <1>10, <1>11
<1> QED
  BY <1>12, HeldStake DEF g, w

(* A staker who leaves is paid at most the price.                          *)
LEMMA RemoveKeepsValue ==
  ASSUME Inv, Inv', NEW s \in Stakers, RemoveStake(s), NEW t \in Stakers, stakes'[t] = stakes[t]
  PROVE  ValueOf(t)' >= ValueOf(t) - 1
<1> DEFINE f == RebasedFund(fund, vault)
           stake == RebasedStake(s, fund, vault)
           n == stake.last_withdraw_request_shares
           pay == WithdrawAmount(stake, f)
           T == f.total_shares
<1>1. /\ n > 0 /\ n <= T
      /\ fund' = [f EXCEPT !.total_shares = @ - n, !.user_shares = @ - n]
      /\ vault' = vault - pay
  BY DEF RemoveStake, remove_insurance_fund_stake
<1>2. Sound(f, vault, stakes)
  BY RebaseSound DEF Inv
<1>3. stake \in StakeRecords
  BY <1>2, OwnStake DEF RebasedStake
<1> HIDE DEF f, stake
<1>4. f \in Funds /\ T \in Nat /\ vault \in Nat /\ n \in Nat /\ stake.last_withdraw_request_value \in Nat
  BY <1>2, <1>3 DEF Sound, Funds, StakeRecords
<1>5. fund'.total_shares = T - n /\ fund'.shares_base = f.shares_base
  BY <1>1, <1>4 DEF Funds
<1>6. pay \in Nat /\ pay * T <= vault * n
  <2> DEFINE a == vault * n
             full == if_shares_to_vault_amount(n, T, vault)
  <2>1. a \in Nat /\ T \in Nat \ {0} /\ T > 0
    BY <1>1, <1>4
  <2>2. full = a \div T /\ full \in Nat
    BY <1>4, <2>1, ValueIsQuotient
  <2>3. pay \in Nat /\ pay <= full
    BY <1>4, <2>2 DEF WithdrawAmount
  <2> HIDE DEF a, full, pay, T
  <2>4. full * T <= a
    BY <2>1, <2>2, DivBounds
  <2>5. pay * T <= full * T
    BY <2>1, <2>2, <2>3, ScaleUp
  <2>6. pay * T \in Nat /\ full * T \in Nat
    BY <2>1, <2>2, <2>3
  <2>7. pay * T <= a
    BY <2>1, <2>4, <2>5, <2>6
  <2> QED
    BY <2>3, <2>7 DEF a
<1> HIDE DEF n, pay, T
<1>7. vault * (T - n) <= (vault - pay) * T
  <2>1. vault * (T - n) = vault * T - vault * n /\ (vault - pay) * T = vault * T - pay * T
    BY <1>4, <1>6
  <2>2. vault * T \in Nat /\ vault * n \in Nat /\ pay * T \in Nat
    BY <1>4, <1>6
  <2> QED
    BY <1>6, <2>1, <2>2
<1>8. vault * fund'.total_shares <= vault' * f.total_shares
  BY <1>1, <1>5, <1>7 DEF T
<1> QED
  BY <1>5, <1>8, TradeStep DEF f

(* A loss takes at most the stake's part of the payment.                   *)
LEMMA PayLossKeepsValue ==
  ASSUME Inv, Inv', NEW loss \in Losses, NEW revenue \in Revenues, PayLoss(loss, revenue),
         NEW t \in Stakers, stakes'[t] = stakes[t]
  PROVE  ValueOf(t)' >= ValueLess(t, Payment(loss, vault + revenue))
<1> DEFINE v == vault + revenue
           paid == Payment(loss, v)
<1>1. fund' = settle_revenue(fund, vault, revenue) /\ vault' = v - paid
  BY DEF PayLoss
<1>2. revenue \in Nat /\ loss \in Nat /\ vault \in Nat
  BY FundAssumption DEF Inv, Sound
<1>3. paid \in Nat /\ paid <= v
  <2>1. v \in Nat
    BY <1>2
  <2> QED
    BY <1>2, <2>1 DEF Payment, AllButOne
<1>4. ValueLess(t, paid) = Value(fund, Less(vault, paid), stakes, t)
  BY DEF ValueLess, Value, Less, SharesOf, SharesAt
<1> HIDE DEF paid
<1>5. Value(settle_revenue(fund, vault, revenue), (vault + revenue) - paid, stakes, t)
        >= Value(fund, Less(vault, paid), stakes, t)
  BY <1>2, <1>3, SettleKeepsValue DEF Inv
<1>6. ValueOf(t)' = Value(fund', vault', stakes, t)
  BY HeldStake
<1> QED
  BY <1>1, <1>4, <1>5, <1>6 DEF paid

(* Revenue takes nothing from a staker.                                    *)
LEMMA RevenueKeepsValue ==
  ASSUME Inv, Inv', NEW revenue \in Revenues, SettleRevenue(revenue),
         NEW t \in Stakers, stakes'[t] = stakes[t]
  PROVE  ValueOf(t)' >= ValueOf(t) - 1
<1> DEFINE none == 0
<1>1. fund' = settle_revenue(fund, vault, revenue) /\ vault' = vault + revenue
  BY DEF SettleRevenue
<1>2. revenue \in Nat /\ vault \in Nat /\ none \in Nat /\ none <= vault + revenue
      /\ (vault + revenue) - none = vault + revenue /\ Less(vault, none) = vault
  BY FundAssumption DEF Inv, Sound, Less
<1> HIDE DEF none
<1>3. Value(settle_revenue(fund, vault, revenue), (vault + revenue) - none, stakes, t)
        >= Value(fund, Less(vault, none), stakes, t)
  BY <1>2, SettleKeepsValue DEF Inv
<1>4. Value(fund', vault', stakes, t) >= Value(fund, vault, stakes, t)
  BY <1>1, <1>2, <1>3
<1>5. Value(fund, vault, stakes, t) \in Nat /\ Value(fund', vault', stakes, t) \in Nat
  <2>1. ASSUME NEW f, NEW v, Sound(f, v, stakes) PROVE Value(f, v, stakes, t) \in Nat
    <3>1. SharesAt(f, stakes)[t] \in Nat /\ f.total_shares \in Nat /\ v \in Nat
      BY <2>1, StakeIsPart DEF Sound, Funds
    <3> QED
      BY <3>1, ValueIsQuotient DEF Value
  <2>2. Sound(fund', vault', stakes)
    BY <1>1, <1>2, SettleSound DEF Inv
  <2> QED
    BY <2>1, <2>2 DEF Inv
<1> QED
  BY <1>4, <1>5, HeldStake

(* Only a loss takes value away from a staker who does nothing, and no     *)
(* more than the stake's part of the payment: no other staker's            *)
(* instruction, rebase or revenue takes more than a token of rounding      *)
(* (controller/insurance.rs, math/insurance.rs).                           *)
THEOREM NobodyIsEverDiluted == Spec => NobodyIsDiluted
<1> DEFINE Kept(t) == ValueOf(t)' >= ValueOf(t) - 1
           KeptLess(t) ==
             \E loss \in Losses, revenue \in Revenues :
               /\ PayLoss(loss, revenue)
               /\ ValueOf(t)' >= ValueLess(t, Payment(loss, vault + revenue))
<1>1. ASSUME Inv, Inv', Next, NEW t \in Stakers, stakes'[t] = stakes[t]
      PROVE  Kept(t) \/ KeptLess(t)
  <2> USE <1>1
  <2>1. CASE Tick
    <3>1. ValueOf(t)' = ValueOf(t)
      BY <2>1 DEF Tick, ValueOf, SharesOf
    <3>2. ValueOf(t) \in Nat
      <4>1. SharesAt(fund, stakes)[t] \in Nat /\ fund.total_shares \in Nat /\ vault \in Nat
        BY StakeIsPart DEF Inv, Sound, Funds
      <4>2. Value(fund, vault, stakes, t) \in Nat
        BY <4>1, ValueIsQuotient DEF Value
      <4> QED
        BY <4>2, HeldStake
    <3> QED
      BY <3>1, <3>2
  <2>2. ASSUME NEW revenue \in Revenues, SettleRevenue(revenue) PROVE Kept(t)
    BY <2>2, RevenueKeepsValue
  <2>3. ASSUME NEW loss \in Losses, NEW revenue \in Revenues, PayLoss(loss, revenue) PROVE KeptLess(t)
    BY <2>3, PayLossKeepsValue
  <2>4. ASSUME NEW s \in Stakers, NEW amount \in Amounts, NEW revenue \in Revenues,
               AddStake(s, amount, revenue)
        PROVE  Kept(t)
    BY <2>4, AddStakeKeepsValue
  <2> DEFINE f == RebasedFund(fund, vault)
  <2>5. f \in Funds /\ f.total_shares \in Nat /\ f.user_shares \in Nat
    BY RebaseSound DEF Inv, Sound, Funds
  <2>6. ASSUME NEW s \in Stakers, NEW amount \in Amounts, RequestRemoveStake(s, amount) PROVE Kept(t)
    <3>1. fund' = f /\ vault' = vault
      BY <2>6 DEF RequestRemoveStake, request_remove_insurance_fund_stake
    <3> HIDE DEF f
    <3>2. fund'.shares_base = f.shares_base /\ fund'.total_shares <= f.total_shares
      BY <2>5, <3>1
    <3> QED
      BY <3>1, <3>2, SharesLeave DEF f
  <2>7. ASSUME NEW s \in Stakers, CancelRequest(s) PROVE Kept(t)
    <3> DEFINE stake == RebasedStake(s, fund, vault)
               lost == calculate_if_shares_lost(stake, f, vault)
    <3>1. /\ fund' = [f EXCEPT !.total_shares = @ - lost, !.user_shares = @ - lost]
          /\ vault' = vault
          /\ lost \in 0 .. stake.if_shares
      BY <2>7 DEF CancelRequest, cancel_request_remove_insurance_fund_stake
    <3>2. stake.if_shares \in Nat
      <4>1. Sound(f, vault, stakes)
        BY RebaseSound DEF Inv
      <4> QED
        BY <4>1, OwnStake DEF RebasedStake, StakeRecords
    <3> HIDE DEF f, lost, stake
    <3>3. lost \in Nat
      BY <3>1, <3>2
    <3>4. fund'.shares_base = f.shares_base /\ fund'.total_shares = f.total_shares - lost
      BY <2>5, <3>1 DEF Funds
    <3>5. fund'.total_shares <= f.total_shares
      BY <2>5, <3>3, <3>4
    <3> QED
      BY <3>1, <3>4, <3>5, SharesLeave DEF f
  <2>8. ASSUME NEW s \in Stakers, RemoveStake(s) PROVE Kept(t)
    BY <2>8, RemoveKeepsValue
  <2>9. ASSUME NEW s \in Stakers, NEW shares \in Transfers, TransferProtocolShares(s, shares) PROVE Kept(t)
    <3>1. fund' = [f EXCEPT !.user_shares = @ + shares] /\ vault' = vault
      BY <2>9 DEF TransferProtocolShares, transfer_protocol_insurance_fund_stake
    <3> HIDE DEF f
    <3>2. fund'.shares_base = f.shares_base /\ fund'.total_shares <= f.total_shares
      BY <2>5, <3>1 DEF Funds
    <3> QED
      BY <3>1, <3>2, SharesLeave DEF f
  <2> HIDE DEF Kept, KeptLess
  <2> QED
    BY <2>1, <2>2, <2>3, <2>4, <2>6, <2>7, <2>8, <2>9 DEF Next
<1>2. Inv /\ Inv' /\ [Next]_vars
      => [\A s \in Stakers :
            stakes'[s] = stakes[s]
            => \/ ValueOf(s)' >= ValueOf(s) - 1
               \/ \E loss \in Losses, revenue \in Revenues :
                    /\ PayLoss(loss, revenue)
                    /\ ValueOf(s)' >= ValueLess(s, Payment(loss, vault + revenue))]_vars
  BY <1>1
<1> QED
  BY <1>2, InvAlways, PTL DEF Spec, NobodyIsDiluted

(* A request that is cancelled, for its n shares of T, at the price v / T, *)
(* when they are worth more than the value they were requested for: the    *)
(* shares that are kept are worth no more than that.                       *)
LEMMA KeptSharesAreWorthValue ==
  ASSUME NEW n \in Nat, NEW T \in Nat, n <= T, NEW v \in Nat, NEW value \in Nat, value < v,
         NEW k, k = vault_amount_to_if_shares(value, T - n, v - value)
  PROVE  k \in Nat /\ if_shares_to_vault_amount(k, (T - n) + k, v) <= value
<1> DEFINE rest == T - n
           left == v - value
           a == value * rest
           U == rest + k
<1>1. rest \in Nat /\ left \in Nat \ {0} /\ v = value + left
  OBVIOUS
<1> HIDE DEF rest, left
<1>2. k = get_proportion_u128(value, rest, left)
  BY <1>1 DEF vault_amount_to_if_shares, rest, left
<1>3. k = a \div left /\ a \in Nat
  BY <1>1, <1>2, ProportionIsQuotient
<1> HIDE DEF a
<1>4. k \in Nat /\ k * left <= a
  BY <1>1, <1>3, DivBounds
<1>5. U \in Nat
  BY <1>1, <1>4
<1>6. v * k <= value * U
  <2>1. v * k = value * k + k * left
    BY <1>1, <1>4
  <2>2. value * U = a + value * k
    BY <1>1, <1>4 DEF a
  <2>3. value * k \in Nat /\ k * left \in Nat
    BY <1>1, <1>4
  <2> QED
    BY <1>3, <1>4, <2>1, <2>2, <2>3
<1> HIDE DEF U
<1>7. if_shares_to_vault_amount(k, U, v) <= value
  <2>1. CASE U = 0
    <3>1. if_shares_to_vault_amount(k, U, v) = 0
      BY <1>4, <1>5, <2>1, ValueIsQuotient
    <3> QED
      BY <3>1
  <2>2. CASE U # 0
    <3> DEFINE b == v * k
               x == b \div U
    <3>1. U \in Nat \ {0} /\ U > 0
      BY <1>5, <2>2
    <3>2. if_shares_to_vault_amount(k, U, v) = x
      BY <1>4, <1>5, <3>1, ValueIsQuotient
    <3>3. b \in Nat /\ b <= value * U
      BY <1>4, <1>6
    <3> HIDE DEF b
    <3>4. x \in Nat /\ x * U <= b
      BY <3>1, <3>3, DivBounds
    <3> HIDE DEF x
    <3>5. x * U <= value * U
      <4>1. x * U \in Nat /\ value * U \in Nat
        BY <3>1, <3>4
      <4> QED
        BY <3>3, <3>4, <4>1
    <3>6. x <= value
      BY <3>1, <3>4, <3>5, CancelFactor
    <3> QED
      BY <3>2, <3>6
  <2> QED
    BY <2>1, <2>2
<1> QED
  BY <1>4, <1>7 DEF U, rest

(* The escrowed shares that a cancelled request leaves to its stake.       *)
LEMMA CancelTakesEarnings ==
  ASSUME Inv, NEW s \in Stakers, CancelRequest(s),
         NEW divisor, divisor = Pow10[fund'.shares_base - stakes[s].if_base],
         NEW n, n = stakes[s].last_withdraw_request_shares \div divisor
  PROVE  if_shares_to_vault_amount(stakes'[s].if_shares - (stakes[s].if_shares \div divisor - n),
                                   fund'.total_shares, vault)
           <= stakes[s].last_withdraw_request_value
<1> DEFINE f == RebasedFund(fund, vault)
           stake == RebasedStake(s, fund, vault)
           value == stakes[s].last_withdraw_request_value
           lost == calculate_if_shares_lost(stake, f, vault)
           T == f.total_shares
           own == stake.if_shares
<1>1. /\ stake.last_withdraw_request_shares \in 1 .. T
      /\ lost \in 0 .. own
      /\ fund' = [f EXCEPT !.total_shares = @ - lost, !.user_shares = @ - lost]
      /\ stakes' = [stakes EXCEPT ![s] = RequestDone([stake EXCEPT !.if_shares = @ - lost])]
  BY DEF CancelRequest, cancel_request_remove_insurance_fund_stake
<1>2. Sound(f, vault, stakes)
  BY RebaseSound DEF Inv
<1>3. stake \in StakeRecords
  BY <1>2, OwnStake DEF RebasedStake
<1>4. f \in Funds /\ T \in Nat /\ vault \in Nat /\ own \in Nat /\ stakes \in [Stakers -> StakeRecords]
      /\ stakes[s] \in StakeRecords /\ value \in Nat
  BY <1>2, <1>3 DEF Sound, Funds, StakeRecords
<1>5. /\ stake.if_shares = stakes[s].if_shares \div Pow10[f.shares_base - stakes[s].if_base]
      /\ stake.last_withdraw_request_shares
           = stakes[s].last_withdraw_request_shares \div Pow10[f.shares_base - stakes[s].if_base]
      /\ stake.last_withdraw_request_value = value
  BY <1>4 DEF RebasedStake, apply_rebase_to_insurance_fund_stake, StakeRecords
<1>6. lost = IF if_shares_to_vault_amount(stake.last_withdraw_request_shares, T, vault) > value
               THEN stake.last_withdraw_request_shares
                    - vault_amount_to_if_shares(value, T - stake.last_withdraw_request_shares, vault - value)
               ELSE 0
  BY <1>5 DEF calculate_if_shares_lost
<1> HIDE DEF f, stake, value, lost
<1>7. lost \in Nat
  BY <1>1, <1>4
<1>8. fund'.shares_base = f.shares_base /\ fund'.total_shares = T - lost
  BY <1>1, <1>4 DEF Funds
<1>9. own = stakes[s].if_shares \div divisor /\ stake.last_withdraw_request_shares = n
  BY <1>5, <1>8
<1>10. stakes'[s].if_shares = own - lost
  BY <1>1, <1>3, <1>4 DEF RequestDone, StakeRecords
<1>11. n \in Nat /\ n <= T /\ T > 0
  <2> DEFINE m == stake.last_withdraw_request_shares
  <2>1. m \in 1 .. T /\ T \in Nat /\ m = n
    BY <1>1, <1>4, <1>9
  <2> HIDE DEF m, T
  <2>2. m \in Nat /\ m <= T /\ T > 0
    BY <2>1
  <2> QED
    BY <2>1, <2>2
<1> HIDE DEF T, own
<1>12. stakes'[s].if_shares - (stakes[s].if_shares \div divisor - n) = n - lost
  BY <1>4, <1>7, <1>9, <1>10, <1>11
<1>13. if_shares_to_vault_amount(n - lost, T - lost, vault) <= value
  <2> DEFINE worth == if_shares_to_vault_amount(n, T, vault)
  <2>1. worth \in Nat
    BY <1>4, <1>11, ValueIsQuotient
  <2>2. CASE worth > value
    <3> DEFINE k == vault_amount_to_if_shares(value, T - n, vault - value)
    <3>1. lost = n - k
      BY <1>6, <1>9, <2>2
    <3>2. value < vault
      <4> DEFINE a == vault * n
      <4>1. worth = a \div T /\ a \in Nat /\ T \in Nat \ {0}
        <5>1. a \in Nat /\ T \in Nat \ {0}
          BY <1>4, <1>11
        <5>2. worth = (vault * n) \div T
          BY <1>4, <1>11, ValueIsQuotient
        <5> QED
          BY <5>1, <5>2
      <4>2. a <= vault * T
        BY <1>4, <1>11
      <4> HIDE DEF worth, a
      <4>3. worth * T <= a
        BY <4>1, DivBounds
      <4>4. worth * T <= vault * T
        <5>1. worth * T \in Nat /\ vault * T \in Nat
          BY <1>4, <2>1
        <5> QED
          BY <4>1, <4>2, <4>3, <5>1
      <4>5. worth <= vault
        BY <1>4, <2>1, <4>1, <4>4, CancelFactor
      <4> QED
        BY <1>4, <2>1, <2>2, <4>5
    <3> HIDE DEF k
    <3>3. k \in Nat /\ if_shares_to_vault_amount(k, (T - n) + k, vault) <= value
      BY <1>4, <1>11, <3>2, KeptSharesAreWorthValue DEF k
    <3>4. n - lost = k /\ T - lost = (T - n) + k
      BY <1>4, <1>11, <3>1, <3>3
    <3> QED
      BY <3>3, <3>4
  <2>3. CASE ~ worth > value
    <3>1. lost = 0
      BY <1>6, <1>9, <2>3
    <3>2. n - lost = n /\ T - lost = T
      BY <1>4, <1>11, <3>1
    <3>3. worth <= value
      BY <1>4, <2>1, <2>3
    <3> QED
      BY <3>2, <3>3
  <2> QED
    BY <2>2, <2>3
<1> QED
  BY <1>8, <1>12, <1>13 DEF value

(* The base of the fund never falls.                                       *)
LEMMA BaseGrows ==
  ASSUME Inv, Next
  PROVE  fund'.shares_base >= fund.shares_base
<1> DEFINE f == RebasedFund(fund, vault)
<1>1. fund \in Funds /\ fund.shares_base \in Nat /\ vault \in Nat
  BY DEF Inv, Sound, Funds
<1>2. f \in Funds /\ f.shares_base >= fund.shares_base
  BY RebaseSound DEF Inv, Sound
<1>3. CASE Tick
  BY <1>1, <1>3 DEF Tick
<1>4. ASSUME NEW revenue \in Revenues, SettleRevenue(revenue) \/ \E loss \in Losses : PayLoss(loss, revenue)
      PROVE  fund'.shares_base >= fund.shares_base
  <2>1. fund' = settle_revenue(fund, vault, revenue)
    BY <1>4 DEF SettleRevenue, PayLoss
  <2>2. fund'.shares_base = fund.shares_base
    BY <1>1, <2>1 DEF settle_revenue, Funds
  <2> QED
    BY <1>1, <2>2
<1>5. ASSUME NEW s \in Stakers, NEW amount \in Amounts, NEW revenue \in Revenues, AddStake(s, amount, revenue)
      PROVE  fund'.shares_base >= fund.shares_base
  <2> DEFINE f0 == settle_revenue(fund, vault, revenue)
             v == vault + revenue
             h == RebasedFund(f0, v)
  <2>1. Sound(f0, v, stakes) /\ f0.shares_base = fund.shares_base
    BY FundAssumption, SettleSound DEF Inv
  <2>2. \E n : fund' = [h EXCEPT !.total_shares = @ + n, !.user_shares = @ + n]
    BY <1>5 DEF AddStake, add_insurance_fund_stake
  <2> HIDE DEF f0, v
  <2>3. h \in Funds /\ h.shares_base >= f0.shares_base
    BY <2>1, RebaseSound DEF Sound
  <2> HIDE DEF h
  <2>4. fund'.shares_base = h.shares_base
    BY <2>2, <2>3 DEF Funds
  <2> QED
    BY <2>1, <2>3, <2>4
<1>6. ASSUME NEW s \in Stakers,
             (\E amount \in Amounts : RequestRemoveStake(s, amount)) \/ CancelRequest(s) \/ RemoveStake(s)
               \/ \E shares \in Transfers : TransferProtocolShares(s, shares)
      PROVE  fund'.shares_base >= fund.shares_base
  <2>1. \/ fund' = f
        \/ \E n : fund' = [f EXCEPT !.total_shares = @ - n, !.user_shares = @ - n]
        \/ \E n : fund' = [f EXCEPT !.user_shares = @ + n]
    BY <1>6 DEF RequestRemoveStake, request_remove_insurance_fund_stake, CancelRequest,
                cancel_request_remove_insurance_fund_stake, RemoveStake, remove_insurance_fund_stake,
                TransferProtocolShares, transfer_protocol_insurance_fund_stake
  <2> HIDE DEF f
  <2>2. fund'.shares_base = f.shares_base
    BY <1>2, <2>1 DEF Funds
  <2> QED
    BY <1>2, <2>2
<1> QED
  BY <1>3, <1>4, <1>5, <1>6 DEF Next

(* A request ends when it is cancelled or paid.                            *)
LEMMA EndOfRequest ==
  ASSUME Inv, Next, NEW s \in Stakers,
         stakes[s].last_withdraw_request_shares # 0, stakes'[s].last_withdraw_request_shares = 0
  PROVE  CancelRequest(s) \/ RemoveStake(s)
<1>1. stakes \in [Stakers -> StakeRecords]
  BY DEF Inv, Sound
<1>2. CASE Tick
  BY <1>2 DEF Tick
<1>3. ASSUME NEW revenue \in Revenues, SettleRevenue(revenue) \/ \E loss \in Losses : PayLoss(loss, revenue)
      PROVE  FALSE
  BY <1>3 DEF SettleRevenue, PayLoss
<1>4. ASSUME NEW u \in Stakers, NEW amount \in Amounts, NEW revenue \in Revenues, AddStake(u, amount, revenue)
      PROVE  FALSE
  <2>1. stakes[u].last_withdraw_request_shares = 0 /\ \E new : stakes' = [stakes EXCEPT ![u] = new]
    BY <1>4 DEF AddStake, add_insurance_fund_stake
  <2> QED
    BY <1>1, <2>1
<1>5. ASSUME NEW u \in Stakers, NEW amount \in Amounts, RequestRemoveStake(u, amount)
      PROVE  FALSE
  <2>1. stakes[u].last_withdraw_request_shares = 0 /\ \E new : stakes' = [stakes EXCEPT ![u] = new]
    BY <1>5 DEF RequestRemoveStake, request_remove_insurance_fund_stake
  <2> QED
    BY <1>1, <2>1
<1>6. ASSUME NEW u \in Stakers, CancelRequest(u) \/ RemoveStake(u)
      PROVE  u = s
  <2>1. \E new : stakes' = [stakes EXCEPT ![u] = new]
    BY <1>6 DEF CancelRequest, cancel_request_remove_insurance_fund_stake, RemoveStake, remove_insurance_fund_stake
  <2> QED
    BY <1>1, <2>1
<1>7. ASSUME NEW u \in Stakers, NEW shares \in Transfers, TransferProtocolShares(u, shares)
      PROVE  FALSE
  <2>1. stakes' = [stakes EXCEPT ![u].if_shares = @ + shares]
    BY <1>7 DEF TransferProtocolShares, transfer_protocol_insurance_fund_stake
  <2>2. stakes'[s].last_withdraw_request_shares = stakes[s].last_withdraw_request_shares
    BY <1>1, <2>1 DEF StakeRecords
  <2> QED
    BY <2>2
<1> QED
  BY <1>2, <1>3, <1>4, <1>5, <1>6, <1>7 DEF Next

(* A request that is paid leaves none of its shares.                       *)
LEMMA RemovalLeavesNothing ==
  ASSUME Inv, NEW s \in Stakers, RemoveStake(s),
         NEW divisor, divisor = Pow10[fund'.shares_base - stakes[s].if_base],
         NEW n, n = stakes[s].last_withdraw_request_shares \div divisor
  PROVE  stakes'[s].if_shares - (stakes[s].if_shares \div divisor - n) = 0
<1> DEFINE f == RebasedFund(fund, vault)
           stake == RebasedStake(s, fund, vault)
           asked == stake.last_withdraw_request_shares
           own == stake.if_shares
<1>1. /\ fund' = [f EXCEPT !.total_shares = @ - asked, !.user_shares = @ - asked]
      /\ stakes' = [stakes EXCEPT ![s] = RequestDone([stake EXCEPT !.if_shares = @ - asked])]
  BY DEF RemoveStake, remove_insurance_fund_stake
<1>2. Sound(f, vault, stakes)
  BY RebaseSound DEF Inv
<1>3. stake \in StakeRecords
  BY <1>2, OwnStake DEF RebasedStake
<1>4. f \in Funds /\ stakes \in [Stakers -> StakeRecords] /\ stakes[s] \in StakeRecords
      /\ asked \in Nat /\ own \in Nat
  BY <1>2, <1>3 DEF Sound, StakeRecords
<1>5. /\ own = stakes[s].if_shares \div Pow10[f.shares_base - stakes[s].if_base]
      /\ asked = stakes[s].last_withdraw_request_shares \div Pow10[f.shares_base - stakes[s].if_base]
  BY <1>4 DEF RebasedStake, apply_rebase_to_insurance_fund_stake, StakeRecords
<1> HIDE DEF f, stake
<1>6. fund'.shares_base = f.shares_base
  BY <1>1, <1>4 DEF Funds
<1>7. own = stakes[s].if_shares \div divisor /\ asked = n
  BY <1>5, <1>6
<1>8. stakes'[s].if_shares = own - asked
  BY <1>1, <1>3, <1>4 DEF RequestDone, StakeRecords
<1> HIDE DEF asked, own
<1> QED
  BY <1>4, <1>7, <1>8

(* While a request waits its shares earn nothing: what a cancel leaves of  *)
(* them is worth no more than the request was (math/insurance.rs           *)
(* calculate_if_shares_lost).                                              *)
THEOREM EscrowNeverEarns == Spec => EscrowDoesNotEarn
<1>1. ASSUME Inv, Inv', Next, NEW s \in Stakers,
             NEW divisor, divisor = Pow10[fund'.shares_base - stakes[s].if_base],
             NEW n, n = stakes[s].last_withdraw_request_shares \div divisor,
             n > 0, stakes'[s].last_withdraw_request_shares = 0, vault' = vault
      PROVE  if_shares_to_vault_amount(stakes'[s].if_shares - (stakes[s].if_shares \div divisor - n),
                                       fund'.total_shares, vault)
               <= stakes[s].last_withdraw_request_value
  <2> USE <1>1
  <2>1. /\ stakes[s] \in StakeRecords /\ stakes[s].if_base <= fund.shares_base
        /\ fund \in Funds /\ fund' \in Funds /\ vault \in Nat
    BY DEF Inv, Sound
  <2>2. stakes[s].last_withdraw_request_shares # 0
    <3> SUFFICES ASSUME stakes[s].last_withdraw_request_shares = 0 PROVE FALSE
      OBVIOUS
    <3>1. fund'.shares_base - stakes[s].if_base \in Nat
      BY <2>1, BaseGrows DEF Funds, StakeRecords
    <3>2. divisor \in Nat \ {0}
      BY <3>1, Pow10Recursion
    <3>3. 0 \div divisor = 0
      BY <3>2
    <3> QED
      BY <3>3
  <2>3. CASE CancelRequest(s)
    BY <2>3, CancelTakesEarnings
  <2>4. CASE RemoveStake(s)
    <3> DEFINE left == stakes'[s].if_shares - (stakes[s].if_shares \div divisor - n)
               T == fund'.total_shares
    <3>1. left = 0 /\ left \in Nat
      BY <2>4, RemovalLeavesNothing
    <3>2. T \in Nat /\ stakes[s].last_withdraw_request_value \in Nat
      BY <2>1 DEF Funds, StakeRecords
    <3> HIDE DEF left, T
    <3>3. if_shares_to_vault_amount(left, T, vault) = 0
      <4>1. CASE T = 0
        BY <2>1, <3>1, <3>2, <4>1, ValueIsQuotient
      <4>2. CASE T # 0
        <5>1. if_shares_to_vault_amount(left, T, vault) = (vault * left) \div T
          BY <2>1, <3>1, <3>2, <4>2, ValueIsQuotient
        <5>2. vault * left = 0 /\ 0 \div T = 0
          BY <2>1, <3>1, <3>2, <4>2
        <5> QED
          BY <5>1, <5>2
      <4> QED
        BY <4>1, <4>2
    <3> QED
      BY <3>2, <3>3 DEF left, T
  <2> QED
    BY <2>2, <2>3, <2>4, EndOfRequest
<1>2. Inv /\ Inv' /\ [Next]_vars
      => [\A s \in Stakers :
            LET divisor == Pow10[fund'.shares_base - stakes[s].if_base]
                n_shares == stakes[s].last_withdraw_request_shares \div divisor
                others == stakes[s].if_shares \div divisor - n_shares
            IN  /\ n_shares > 0
                /\ stakes'[s].last_withdraw_request_shares = 0
                /\ vault' = vault
                => if_shares_to_vault_amount(stakes'[s].if_shares - others,
                                             fund'.total_shares, vault)
                     <= stakes[s].last_withdraw_request_value]_vars
  BY <1>1
<1> QED
  BY <1>2, InvAlways, PTL DEF Spec, EscrowDoesNotEarn
===============================================================================
