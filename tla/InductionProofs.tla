---------------------------- MODULE InductionProofs ----------------------------
(***************************************************************************)
(* Induction stated with sets: a property of numbers or of finite sets is  *)
(* the set of those that have it.  Everything rests on the library's       *)
(* theorem that the strict subsets of a finite set are well-founded, and   *)
(* is used for what the other proof modules say of powers, sums and        *)
(* functions defined by recursion.  The facts about quotients that they    *)
(* share come last.                                                        *)
(***************************************************************************)
EXTENDS Helpers, FiniteSetTheorems, TLAPS

(* A set of natural numbers that is not empty has a least element.         *)
LEMMA LeastElement ==
  ASSUME NEW T \in SUBSET Nat, T # {}
  PROVE  \E n \in T : \A m \in T : n <= m
<1> DEFINE U == {0 .. n : n \in T}
<1>1. U \subseteq FiniteSubsetsOf(Nat)
  <2>1. SUFFICES ASSUME NEW n \in T
                 PROVE  0 .. n \in FiniteSubsetsOf(Nat)
    OBVIOUS
  <2>2. IsFiniteSet(0 .. n)
    BY FS_Interval
  <2>3. 0 .. n \in SUBSET Nat
    OBVIOUS
  <2> QED
    BY <2>2, <2>3 DEF FiniteSubsetsOf
<1>2. U # {}
  OBVIOUS
<1>3. \E x \in U : \A y \in U : ~ (<<y, x>> \in StrictSubsetOrdering(Nat))
  <2> HIDE DEF U
  <2> QED
    BY FS_StrictSubsetOrderingWellFounded, WFMin, <1>1, <1>2
<1>4. PICK n \in T : \A m \in T : ~ (<<0 .. m, 0 .. n>> \in StrictSubsetOrdering(Nat))
  BY <1>3
<1>5. ASSUME NEW m \in T, m < n
      PROVE  FALSE
  <2>1. 0 .. m \subseteq Nat /\ 0 .. n \subseteq Nat
    OBVIOUS
  <2>2. 0 .. m \subseteq 0 .. n /\ 0 .. m # 0 .. n
    BY <1>5
  <2> QED
    BY <1>4, <2>1, <2>2 DEF StrictSubsetOrdering
<1> QED
  BY <1>4, <1>5

(* A bounded set of natural numbers that is not empty has a greatest one.  *)
LEMMA GreatestElement ==
  ASSUME NEW T \in SUBSET Nat, T # {}, NEW bound \in Nat, \A n \in T : n <= bound
  PROVE  \E n \in T : \A m \in T : m <= n
<1> DEFINE U == {k \in Nat : bound - k \in T}
<1>1. PICK t \in T : TRUE
  OBVIOUS
<1>2. bound - t \in U
  OBVIOUS
<1>3. PICK k \in U : \A j \in U : k <= j
  <2>1. U \in SUBSET Nat /\ U # {}
    BY <1>2
  <2> HIDE DEF U
  <2> QED
    BY <2>1, LeastElement
<1>4. ASSUME NEW m \in T
      PROVE  m <= bound - k
  <2>1. bound - m \in U
    OBVIOUS
  <2> QED
    BY <1>3, <2>1
<1> QED
  BY <1>3, <1>4

(* A set of natural numbers with 0 and all successors has all of them.     *)
LEMMA NatSetInduction ==
  ASSUME NEW S \in SUBSET Nat, 0 \in S, \A n \in S : n + 1 \in S
  PROVE  S = Nat
<1>1. ASSUME S # Nat
      PROVE  FALSE
  <2>1. PICK n \in Nat \ S : \A m \in Nat \ S : n <= m
    BY <1>1, LeastElement
  <2>2. n - 1 \in S
    BY <2>1
  <2> QED
    BY <2>1, <2>2
<1> QED
  BY <1>1

(* The same up to a bound.                                                 *)
LEMMA IntervalInduction ==
  ASSUME NEW n \in Nat, NEW S \in SUBSET (0 .. n), 0 \in S,
         \A k \in S : k < n => k + 1 \in S
  PROVE  S = 0 .. n
<1> DEFINE T == {k \in Nat : k <= n => k \in S}
<1>1. T = Nat
  <2>1. T \in SUBSET Nat /\ 0 \in T
    OBVIOUS
  <2>2. ASSUME NEW k \in T
        PROVE  k + 1 \in T
    OBVIOUS
  <2> HIDE DEF T
  <2> QED
    BY <2>1, <2>2, NatSetInduction
<1>2. ASSUME NEW k \in 0 .. n
      PROVE  k \in S
  <2>1. k \in T
    BY <1>1
  <2> QED
    BY <2>1
<1> QED
  BY <1>2

(* A family of subsets of a finite set that has the empty set, and with    *)
(* each member all those with one more element, has the whole set.         *)
LEMMA FiniteSetInduction ==
  ASSUME NEW S, IsFiniteSet(S), NEW F \in SUBSET SUBSET S, {} \in F,
         \A T \in F : \A x \in S \ T : T \cup {x} \in F
  PROVE  S \in F
<1> DEFINE G == {n \in Nat : \A T \in SUBSET S : Cardinality(T) = n => T \in F}
<1>1. 0 \in G
  <2>1. SUFFICES ASSUME NEW T \in SUBSET S, Cardinality(T) = 0
                 PROVE  T \in F
    OBVIOUS
  <2>2. T = {}
    BY <2>1, FS_EmptySet, FS_Subset
  <2> QED
    BY <2>2
<1>2. ASSUME NEW n \in G
      PROVE  n + 1 \in G
  <2>0. /\ n \in Nat
        /\ \A T \in SUBSET S : Cardinality(T) = n => T \in F
    OBVIOUS
  <2>1. SUFFICES ASSUME NEW T \in SUBSET S, Cardinality(T) = n + 1
                 PROVE  T \in F
    BY <2>0
  <2> HIDE DEF G
  <2>2. IsFiniteSet(T)
    BY FS_Subset
  <2>3. T # {}
    BY <2>0, <2>1, FS_EmptySet
  <2>4. PICK x \in T : TRUE
    BY <2>3
  <2>5. Cardinality(T \ {x}) = n
    <3>1. Cardinality(T \ {x}) = Cardinality(T) - 1
      BY <2>2, FS_RemoveElement
    <3> QED
      BY <2>0, <2>1, <3>1
  <2>6. T \ {x} \in F
    BY <2>0, <2>5
  <2>7. T = (T \ {x}) \cup {x}
    OBVIOUS
  <2> QED
    BY <2>6, <2>7
<1>3. G = Nat
  <2>1. G \in SUBSET Nat
    OBVIOUS
  <2> HIDE DEF G
  <2> QED
    BY <1>1, <1>2, <2>1, NatSetInduction
<1>4. Cardinality(S) \in Nat
  BY FS_CardinalityType
<1> QED
  BY <1>3, <1>4

(* The recursion that starts with b and whose k-th value the step makes of *)
(* the one before it and k.                                                *)
IsRun(f, b, step, n) ==
  /\ f[0] = b
  /\ \A k \in 1 .. n : f[k] = step[<<f[k - 1], k>>]

StepsUpTo(B, n) == [B \X (1 .. n) -> B]

(* The same over all natural numbers.                                      *)
IsNatRun(f, b, step) ==
  /\ f[0] = b
  /\ \A k \in Nat \ {0} : f[k] = step[<<f[k - 1], k>>]

NatSteps(B) == [B \X (Nat \ {0}) -> B]

(* A function defined by recursion along 1 .. n exists: its values are in  *)
(* B, the first is b, and each one is a step from the one before.          *)
LEMMA RecursionExists ==
  ASSUME NEW B, NEW b \in B, NEW n \in Nat, NEW step \in StepsUpTo(B, n)
  PROVE  \E f \in [0 .. n -> B] : IsRun(f, b, step, n)
<1> USE DEF IsRun, StepsUpTo
<1> DEFINE IsRunUpTo(f, m) == f \in [0 .. m -> B] /\ IsRun(f, b, step, m)
           S == {m \in 0 .. n : \E f : IsRunUpTo(f, m)}
<1>1. 0 \in S
  <2>1. IsRunUpTo([k \in 0 .. 0 |-> b], 0)
    OBVIOUS
  <2> HIDE DEF IsRunUpTo
  <2> QED
    BY <2>1
<1>2. ASSUME NEW m \in S, m < n
      PROVE  m + 1 \in S
  <2>1. PICK f : IsRunUpTo(f, m)
    OBVIOUS
  <2> DEFINE next == step[<<f[m], m + 1>>]
             g == [k \in 0 .. m + 1 |-> IF k = m + 1 THEN next ELSE f[k]]
  <2>2. m \in Nat /\ m + 1 \in 1 .. n
    BY <1>2
  <2>3. next \in B
    BY <2>1, <2>2
  <2>4. g[m + 1] = step[<<g[m], m + 1>>]
    <3>1. g[m + 1] = next /\ g[m] = f[m]
      BY <2>2
    <3> QED
      BY <3>1
  <2>5. \A k \in 1 .. m : g[k] = f[k] /\ g[k - 1] = f[k - 1] /\ k # m + 1
    BY <2>2
  <2>6. g \in [0 .. m + 1 -> B] /\ g[0] = b
    <3> HIDE DEF next
    <3> QED
      BY <2>1, <2>2, <2>3
  <2>7. ASSUME NEW k \in 1 .. m + 1
        PROVE  g[k] = step[<<g[k - 1], k>>]
    <3> HIDE DEF g
    <3>1. CASE k = m + 1
      BY <2>2, <2>4, <3>1
    <3>2. CASE k # m + 1
      <4>1. k \in 1 .. m
        BY <2>2, <3>2
      <4>2. f[k] = step[<<f[k - 1], k>>]
        BY <2>1, <4>1
      <4> QED
        BY <2>5, <4>1, <4>2
    <3> QED
      BY <3>1, <3>2
  <2>8. IsRunUpTo(g, m + 1)
    <3> HIDE DEF g
    <3> QED
      BY <2>6, <2>7
  <2>9. m + 1 \in 0 .. n
    BY <2>2
  <2> HIDE DEF g, IsRunUpTo
  <2> QED
    BY <2>8, <2>9
<1>3. S = 0 .. n
  <2>1. S \in SUBSET (0 .. n)
    OBVIOUS
  <2> HIDE DEF S
  <2> QED
    BY <1>1, <1>2, <2>1, IntervalInduction
<1>4. n \in S
  <2> HIDE DEF S
  <2> QED
    BY <1>3
<1>5. PICK f : IsRunUpTo(f, n)
  <2> HIDE DEF IsRunUpTo
  <2> QED
    BY <1>4
<1> QED
  BY <1>5

(* Two runs of the same recursion agree as far as both go.                 *)
LEMMA RunsAgree ==
  ASSUME NEW b, NEW step, NEW n \in Nat, NEW f, NEW g,
         IsRun(f, b, step, n), IsRun(g, b, step, n)
  PROVE  \A k \in 0 .. n : f[k] = g[k]
<1> USE DEF IsRun
<1> DEFINE S == {k \in 0 .. n : f[k] = g[k]}
<1>1. S \in SUBSET (0 .. n) /\ 0 \in S
  OBVIOUS
<1>2. ASSUME NEW k \in S, k < n PROVE k + 1 \in S
  <2>1. k + 1 \in 1 .. n /\ (k + 1) - 1 = k /\ f[k] = g[k]
    BY <1>2
  <2>2. f[k + 1] = step[<<f[k], k + 1>>] /\ g[k + 1] = step[<<g[k], k + 1>>]
    BY <2>1
  <2> QED
    BY <2>1, <2>2
<1> HIDE DEF S
<1>3. S = 0 .. n
  BY <1>1, <1>2, IntervalInduction
<1> QED
  BY <1>3 DEF S

(* A recursion over all natural numbers defines a function.                *)
LEMMA NatRecursionExists ==
  ASSUME NEW B, NEW b \in B, NEW step \in NatSteps(B)
  PROVE  \E f \in [Nat -> B] : IsNatRun(f, b, step)
<1> USE DEF NatSteps, IsNatRun
<1> DEFINE run == [n \in Nat |-> CHOOSE f \in [0 .. n -> B] : IsRun(f, b, step, n)]
           F == [n \in Nat |-> run[n][n]]
<1>1. ASSUME NEW n \in Nat
      PROVE  run[n] \in [0 .. n -> B] /\ IsRun(run[n], b, step, n)
  <2> DEFINE part == [p \in B \X (1 .. n) |-> step[p]]
  <2>1. part \in StepsUpTo(B, n)
    BY DEF StepsUpTo
  <2>2. \E f \in [0 .. n -> B] : IsRun(f, b, part, n)
    <3> HIDE DEF part
    <3> QED
      BY <2>1, RecursionExists
  <2>3. PICK f \in [0 .. n -> B] : IsRun(f, b, part, n)
    BY <2>2
  <2>4. ASSUME NEW k \in 1 .. n PROVE f[k] = step[<<f[k - 1], k>>]
    <3>1. k - 1 \in 0 .. n
      OBVIOUS
    <3>2. <<f[k - 1], k>> \in B \X (1 .. n)
      BY <2>3, <3>1
    <3> QED
      BY <2>3, <3>2 DEF IsRun
  <2>5. IsRun(f, b, step, n)
    BY <2>3, <2>4 DEF IsRun
  <2> QED
    BY <2>5
<1>2. F[0] = b
  <2>1. IsRun(run[0], b, step, 0)
    BY <1>1
  <2> HIDE DEF run
  <2> QED
    BY <2>1 DEF IsRun
<1>3. ASSUME NEW n \in Nat PROVE F[n] \in B
  <2>1. run[n] \in [0 .. n -> B]
    BY <1>1
  <2> HIDE DEF run
  <2> QED
    BY <2>1
<1>4. ASSUME NEW k \in Nat \ {0} PROVE F[k] = step[<<F[k - 1], k>>]
  <2>1. k - 1 \in Nat /\ k \in Nat
    OBVIOUS
  <2>2. IsRun(run[k], b, step, k) /\ IsRun(run[k - 1], b, step, k - 1)
    BY <1>1, <2>1
  <2>3. F[k] = run[k][k] /\ F[k - 1] = run[k - 1][k - 1]
    BY <2>1
  <2> HIDE DEF run, F
  <2>4. IsRun(run[k], b, step, k - 1)
    BY <2>2 DEF IsRun
  <2>5. \A j \in 0 .. k - 1 : run[k][j] = run[k - 1][j]
    <3> DEFINE f == run[k]
               g == run[k - 1]
               m == k - 1
    <3>1. m \in Nat /\ IsRun(f, b, step, m) /\ IsRun(g, b, step, m)
      BY <2>1, <2>2, <2>4
    <3> HIDE DEF f, g, m
    <3>2. \A j \in 0 .. m : f[j] = g[j]
      BY <3>1, RunsAgree
    <3> QED
      BY <3>2 DEF f, g, m
  <2>6. run[k][k] = step[<<run[k][k - 1], k>>]
    BY <2>1, <2>2 DEF IsRun
  <2>7. run[k][k - 1] = run[k - 1][k - 1]
    BY <2>1, <2>5
  <2> QED
    BY <2>3, <2>6, <2>7
<1>5. F \in [Nat -> B]
  <2>1. F = [n \in Nat |-> F[n]]
    OBVIOUS
  <2> HIDE DEF F
  <2> QED
    BY <1>3, <2>1
<1> HIDE DEF F
<1> QED
  BY <1>2, <1>4, <1>5

(***************************************************************************)
(* Division.                                                               *)
(***************************************************************************)

(* What division rounds down to.                                           *)
LEMMA DivBounds ==
  ASSUME NEW a \in Nat, NEW d \in Nat \ {0}
  PROVE  /\ a \div d \in Nat
         /\ (a \div d) * d <= a
         /\ a < (a \div d) * d + d
OBVIOUS

(* Only one number is the quotient.                                        *)
LEMMA DivUnique ==
  ASSUME NEW a \in Nat, NEW d \in Nat \ {0}, NEW q \in Int, q * d <= a, a < q * d + d
  PROVE  a \div d = q
<1> DEFINE p == a \div d
<1>1. p \in Nat /\ p * d <= a /\ a < p * d + d
  BY DivBounds
<1> HIDE DEF p
<1>2. ~ p <= q - 1
  <2> SUFFICES ASSUME p <= q - 1 PROVE FALSE
    OBVIOUS
  <2>1. (p + 1) * d <= q * d
    BY <1>1
  <2>2. (p + 1) * d = p * d + d
    BY <1>1
  <2> QED
    BY <1>1, <2>1, <2>2
<1>3. ~ q <= p - 1
  <2> SUFFICES ASSUME q <= p - 1 PROVE FALSE
    OBVIOUS
  <2>1. (q + 1) * d <= p * d
    BY <1>1
  <2>2. (q + 1) * d = q * d + d
    BY <1>1
  <2> QED
    BY <1>1, <2>1, <2>2
<1>4. p = q
  BY <1>1, <1>2, <1>3
<1> QED
  BY <1>4 DEF p

(* A larger number has a larger quotient.                                  *)
LEMMA DivMono ==
  ASSUME NEW a \in Nat, NEW b \in Nat, NEW d \in Nat \ {0}, a <= b
  PROVE  a \div d <= b \div d
<1> DEFINE p == a \div d
           q == b \div d
<1>1. p \in Nat /\ p * d <= a /\ q \in Nat /\ b < q * d + d
  BY DivBounds
<1> HIDE DEF p, q
<1>2. ~ q + 1 <= p
  <2> SUFFICES ASSUME q + 1 <= p PROVE FALSE
    OBVIOUS
  <2>1. (q + 1) * d <= p * d
    BY <1>1
  <2>2. (q + 1) * d = q * d + d
    BY <1>1
  <2> QED
    BY <1>1, <2>1, <2>2
<1>3. p <= q
  BY <1>1, <1>2
<1> QED
  BY <1>3 DEF p, q

(* What holds n times the divisor has a quotient of at least n.            *)
LEMMA DivAtLeast ==
  ASSUME NEW a \in Nat, NEW n \in Nat, NEW d \in Nat \ {0}, n * d <= a
  PROVE  n <= a \div d
<1> DEFINE q == a \div d
<1>1. q \in Nat /\ a < q * d + d
  BY DivBounds
<1> HIDE DEF q
<1>2. ~ q + 1 <= n
  <2> SUFFICES ASSUME q + 1 <= n PROVE FALSE
    OBVIOUS
  <2>1. (q + 1) * d <= n * d
    BY <1>1
  <2>2. (q + 1) * d = q * d + d
    BY <1>1
  <2>3. n * d \in Nat
    OBVIOUS
  <2> QED
    BY <1>1, <2>1, <2>2, <2>3
<1> QED
  BY <1>1, <1>2 DEF q

(* Dividing twice is dividing by the product.                              *)
LEMMA DivTwice ==
  ASSUME NEW a \in Nat, NEW c \in Nat \ {0}, NEW d \in Nat \ {0}
  PROVE  (a \div c) \div d = a \div (c * d)
<1> DEFINE p == a \div c
           q == p \div d
<1>1. p \in Nat /\ p * c <= a /\ a < p * c + c
  BY DivBounds
<1>2. q \in Nat /\ q * d <= p /\ p < q * d + d
  BY <1>1, DivBounds
<1> HIDE DEF p, q
<1>3. c * d \in Nat \ {0} /\ q * d \in Nat /\ p * c \in Nat /\ q * (c * d) \in Nat
  BY <1>1, <1>2
<1>4. (q * d) * c <= p * c
  BY <1>1, <1>2, <1>3
<1>5. p + 1 <= q * d + d
  BY <1>1, <1>2, <1>3
<1>6. (p + 1) * c <= (q * d + d) * c
  BY <1>1, <1>3, <1>5
<1>7. (q * d) * c = q * (c * d) /\ (q * d + d) * c = q * (c * d) + c * d /\ (p + 1) * c = p * c + c
  BY <1>1, <1>2
<1>8. q * (c * d) <= a /\ a < q * (c * d) + c * d
  BY <1>1, <1>3, <1>4, <1>6, <1>7
<1>9. a \div (c * d) = q
  <2> DEFINE e == c * d
  <2>1. e \in Nat \ {0} /\ q \in Int /\ q * e <= a /\ a < q * e + e
    BY <1>2, <1>3, <1>8
  <2> HIDE DEF e
  <2>2. a \div e = q
    BY <2>1, DivUnique
  <2> QED
    BY <2>2 DEF e
<1> QED
  BY <1>9 DEF p, q

(* The powers of ten (math/helpers.rs log10_iter, math/insurance.rs        *)
(* 10_u128.pow).                                                           *)
LEMMA Pow10Recursion ==
  /\ Pow10 \in [Nat -> Nat \ {0}]
  /\ Pow10[0] = 1
  /\ \A n \in Nat : Pow10[n + 1] = 10 * Pow10[n]
<1> DEFINE B == Nat \ {0}
           step == [p \in B \X (Nat \ {0}) |-> 10 * p[1]]
           Body(f) == [n \in Nat |-> IF n = 0 THEN 1 ELSE 10 * f[n - 1]]
<1>1. step \in NatSteps(B) /\ 1 \in B
  BY DEF NatSteps
<1>2. PICK f \in [Nat -> B] : IsNatRun(f, 1, step)
  <2> HIDE DEF B, step
  <2> QED
    BY <1>1, NatRecursionExists
<1>3. ASSUME NEW k \in Nat \ {0} PROVE f[k] = 10 * f[k - 1]
  <2>1. k - 1 \in Nat
    OBVIOUS
  <2>2. f[k - 1] \in B
    BY <1>2, <2>1
  <2>3. <<f[k - 1], k>> \in B \X (Nat \ {0})
    BY <2>2
  <2>4. step[<<f[k - 1], k>>] = 10 * f[k - 1]
    BY <2>3
  <2> QED
    BY <1>2, <2>4 DEF IsNatRun
<1>4. f = Body(f)
  BY <1>2, <1>3 DEF IsNatRun
<1>5. Pow10 = Body(Pow10)
  <2>1. Pow10 = CHOOSE g : g = Body(g)
    BY DEF Pow10
  <2> QED
    BY <1>4, <2>1
<1> DEFINE S == {n \in Nat : Pow10[n] \in B}
<1>6. S = Nat
  <2>1. 0 \in S
    BY <1>5
  <2>2. ASSUME NEW n \in S PROVE n + 1 \in S
    <3>1. n + 1 \in Nat /\ n + 1 # 0 /\ (n + 1) - 1 = n
      OBVIOUS
    <3>2. Pow10[n + 1] = 10 * Pow10[n]
      BY <1>5, <3>1
    <3> QED
      BY <3>1, <3>2
  <2>3. S \in SUBSET Nat
    OBVIOUS
  <2> HIDE DEF S
  <2> QED
    BY <2>1, <2>2, <2>3, NatSetInduction
<1>7. Pow10 \in [Nat -> B]
  BY <1>5, <1>6
<1>8. \A n \in Nat : Pow10[n + 1] = 10 * Pow10[n]
  BY <1>5
<1>9. Pow10[0] = 1
  BY <1>5
<1> QED
  BY <1>7, <1>8, <1>9

(* A product is cancelled.                                                 *)
LEMMA CancelFactor ==
  ASSUME NEW a \in Int, NEW b \in Int, NEW c \in Nat \ {0}, a * c <= b * c
  PROVE  a <= b
<1>1. ~ b + 1 <= a
  <2> SUFFICES ASSUME b + 1 <= a PROVE FALSE
    OBVIOUS
  <2>1. (b + 1) * c <= a * c
    OBVIOUS
  <2>2. (b + 1) * c = b * c + c /\ b * c \in Int /\ a * c \in Int
    OBVIOUS
  <2> QED
    BY <2>1, <2>2
<1> QED
  BY <1>1

(* Factors are compared.                                                   *)
LEMMA ScaleUp ==
  ASSUME NEW a \in Int, NEW b \in Int, NEW c \in Nat, a <= b
  PROVE  a * c <= b * c
OBVIOUS
================================================================================
