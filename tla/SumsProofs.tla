------------------------------ MODULE SumsProofs ------------------------------
(***************************************************************************)
(* Facts about SumOf and TotalOf: they are numbers, changing the function  *)
(* at one argument changes the sum by as much, and sums are compared and   *)
(* added argument by argument.                                             *)
(***************************************************************************)
EXTENDS Sums, InductionProofs

(* The units of one argument: as many as its value.                        *)
LEMMA UnitsOfOne ==
  ASSUME NEW x, NEW n \in Nat
  PROVE  /\ IsFiniteSet({x} \X (1 .. n))
         /\ Cardinality({x} \X (1 .. n)) = n
<1>1. IsFiniteSet({x}) /\ Cardinality({x}) = 1
  BY FS_Singleton
<1>2. IsFiniteSet(1 .. n) /\ Cardinality(1 .. n) = n
  BY FS_Interval
<1>3. /\ IsFiniteSet({x} \X (1 .. n))
      /\ Cardinality({x} \X (1 .. n)) = Cardinality({x}) * Cardinality(1 .. n)
  BY <1>1, <1>2, FS_Product
<1> QED
  BY <1>1, <1>2, <1>3

(* A function on a finite domain has finitely many units.                  *)
LEMMA UnitsFinite ==
  ASSUME NEW S, IsFiniteSet(S), NEW f \in [S -> Nat]
  PROVE  IsFiniteSet(Units(f))
<1> DEFINE column == [x \in S |-> {x} \X (1 .. f[x])]
           columns == {column[x] : x \in S}
<1>1. column \in Surjection(S, columns)
  BY DEF Surjection
<1>2. IsFiniteSet(columns)
  <2> HIDE DEF column, columns
  <2> QED BY <1>1, FS_Surjection
<1>3. \A T \in columns : IsFiniteSet(T)
  <2>1. SUFFICES ASSUME NEW x \in S
                 PROVE  IsFiniteSet(column[x])
    OBVIOUS
  <2>2. f[x] \in Nat
    OBVIOUS
  <2>3. IsFiniteSet({x} \X (1 .. f[x]))
    BY <2>2, UnitsOfOne
  <2> QED
    BY <2>3
<1>4. Units(f) = UNION columns
  BY DEF Units
<1> QED
  <2> HIDE DEF columns
  <2> QED BY <1>2, <1>3, <1>4, FS_UNION

(* The sum is a natural number.                                            *)
LEMMA SumType ==
  ASSUME NEW S, IsFiniteSet(S), NEW f \in [S -> Nat]
  PROVE  SumOf(f) \in Nat
BY UnitsFinite, FS_CardinalityType DEF SumOf

(* The units of an argument are part of the units of the function, and     *)
(* what is left does not depend on the value of that argument.             *)
LEMMA UnitsSplit ==
  ASSUME NEW S, NEW f \in [S -> Nat], NEW x \in S
  PROVE  /\ {x} \X (1 .. f[x]) \subseteq Units(f)
         /\ Units(f) \ ({x} \X (1 .. f[x])) = UNION {{y} \X (1 .. f[y]) : y \in S \ {x}}
<1>1. {x} \X (1 .. f[x]) \subseteq Units(f)
  BY DEF Units
<1>2. ASSUME NEW p \in Units(f) \ ({x} \X (1 .. f[x]))
      PROVE  p \in UNION {{y} \X (1 .. f[y]) : y \in S \ {x}}
  BY DEF Units
<1>3. ASSUME NEW p \in UNION {{y} \X (1 .. f[y]) : y \in S \ {x}}
      PROVE  p \in Units(f) \ ({x} \X (1 .. f[x]))
  <2>1. PICK y \in S \ {x} : p \in {y} \X (1 .. f[y])
    BY <1>3
  <2>2. p \in Units(f)
    BY <2>1 DEF Units
  <2>3. p \notin {x} \X (1 .. f[x])
    BY <2>1
  <2> QED
    BY <2>2, <2>3
<1> QED
  BY <1>1, <1>2, <1>3

(* A value is at most the sum, and without it the sum is that much less.   *)
LEMMA SumSplit ==
  ASSUME NEW S, IsFiniteSet(S), NEW f \in [S -> Nat], NEW x \in S
  PROVE  /\ Cardinality(UNION {{y} \X (1 .. f[y]) : y \in S \ {x}}) = SumOf(f) - f[x]
         /\ f[x] <= SumOf(f)
<1> DEFINE own == {x} \X (1 .. f[x])
<1>1. IsFiniteSet(Units(f)) /\ Cardinality(Units(f)) \in Nat
  BY UnitsFinite, FS_CardinalityType
<1>2. IsFiniteSet(own) /\ Cardinality(own) = f[x]
  BY UnitsOfOne
<1>3. own \subseteq Units(f)
  BY UnitsSplit
<1>4. Units(f) \cap own = own
  BY <1>3
<1>5. Cardinality(Units(f) \ own) = Cardinality(Units(f)) - Cardinality(Units(f) \cap own)
  BY <1>1, FS_Difference
<1>6. Cardinality(own) <= Cardinality(Units(f))
  BY <1>1, <1>3, FS_Subset
<1>7. Units(f) \ own = UNION {{y} \X (1 .. f[y]) : y \in S \ {x}}
  BY UnitsSplit
<1> HIDE DEF own
<1> QED
  BY <1>2, <1>4, <1>5, <1>6, <1>7 DEF SumOf

(* Changing one value changes the sum by as much.                          *)
LEMMA SumUpdate ==
  ASSUME NEW S, IsFiniteSet(S), NEW f \in [S -> Nat], NEW x \in S, NEW v \in Nat
  PROVE  SumOf([f EXCEPT ![x] = v]) = (SumOf(f) - f[x]) + v
<1> DEFINE g == [f EXCEPT ![x] = v]
<1>1. g \in [S -> Nat] /\ g[x] = v
  OBVIOUS
<1>2. \A y \in S \ {x} : g[y] = f[y]
  OBVIOUS
<1>3. {{y} \X (1 .. g[y]) : y \in S \ {x}} = {{y} \X (1 .. f[y]) : y \in S \ {x}}
  BY <1>2
<1> HIDE DEF g
<1>4. Cardinality(UNION {{y} \X (1 .. g[y]) : y \in S \ {x}}) = SumOf(g) - g[x]
  BY <1>1, SumSplit
<1>5. Cardinality(UNION {{y} \X (1 .. f[y]) : y \in S \ {x}}) = SumOf(f) - f[x]
  BY SumSplit
<1>6. SumOf(f) \in Nat /\ SumOf(g) \in Nat
  BY <1>1, SumType
<1>7. SumOf(g) - v = SumOf(f) - f[x]
  BY <1>1, <1>3, <1>4, <1>5
<1>8. SumOf(g) = (SumOf(f) - f[x]) + v
  BY <1>6, <1>7
<1> QED
  BY <1>8 DEF g

(* The sum of a function that is zero everywhere.                          *)
LEMMA SumZero ==
  ASSUME NEW S
  PROVE  SumOf([x \in S |-> 0]) = 0
<1>1. Units([x \in S |-> 0]) = {}
  BY DEF Units
<1> QED
  BY <1>1, FS_EmptySet DEF SumOf

(***************************************************************************)
(* Sums argument by argument, by induction over the arguments counted.     *)
(***************************************************************************)

(* The function with only the arguments in T counted.                      *)
Part(f, T) == [x \in DOMAIN f |-> IF x \in T THEN f[x] ELSE 0]

Counts(S) == [S -> Nat]

(* The sum of a part grows by the value of each further argument.          *)
LEMMA PartStep ==
  ASSUME NEW S, IsFiniteSet(S), NEW f \in Counts(S), NEW T \in SUBSET S, NEW x \in S \ T
  PROVE  /\ SumOf(Part(f, T)) \in Nat
         /\ SumOf(Part(f, T \cup {x})) = SumOf(Part(f, T)) + f[x]
<1> USE DEF Counts
<1>1. Part(f, T) \in [S -> Nat] /\ Part(f, T)[x] = 0
  BY DEF Part
<1>2. Part(f, T \cup {x}) = [Part(f, T) EXCEPT ![x] = f[x]]
  BY DEF Part
<1>3. f[x] \in Nat /\ x \in S
  OBVIOUS
<1>4. SumOf([Part(f, T) EXCEPT ![x] = f[x]]) = (SumOf(Part(f, T)) - Part(f, T)[x]) + f[x]
  BY <1>1, <1>3, SumUpdate
<1>5. SumOf(Part(f, T)) \in Nat
  BY <1>1, SumType
<1> QED
  BY <1>1, <1>2, <1>3, <1>4, <1>5

(* Nothing counted, and everything counted.                                *)
LEMMA PartEnds ==
  ASSUME NEW S, NEW f \in [S -> Nat]
  PROVE  SumOf(Part(f, {})) = 0 /\ Part(f, S) = f
<1>1. Part(f, {}) = [x \in S |-> 0]
  BY DEF Part
<1>2. Part(f, S) = f
  BY DEF Part
<1> QED
  BY <1>1, <1>2, SumZero

(* If d times each value of g is at most that of f, so is d times the sum. *)
LEMMA SumCompare ==
  ASSUME NEW S, IsFiniteSet(S), NEW f \in [S -> Nat], NEW g \in [S -> Nat], NEW d \in Nat,
         \A x \in S : g[x] * d <= f[x]
  PROVE  SumOf(g) * d <= SumOf(f)
<1> DEFINE F == {T \in SUBSET S : SumOf(Part(g, T)) * d <= SumOf(Part(f, T))}
<1>1. {} \in F
  <2>1. SumOf(Part(g, {})) = 0 /\ SumOf(Part(f, {})) = 0
    BY PartEnds
  <2> QED
    BY <2>1
<1>2. ASSUME NEW T \in F, NEW x \in S \ T
      PROVE  T \cup {x} \in F
  <2> DEFINE a == SumOf(Part(g, T))
             b == SumOf(Part(f, T))
  <2>1. a \in Nat /\ SumOf(Part(g, T \cup {x})) = a + g[x]
    BY PartStep DEF Counts
  <2>2. b \in Nat /\ SumOf(Part(f, T \cup {x})) = b + f[x]
    BY PartStep DEF Counts
  <2>3. a * d <= b /\ g[x] * d <= f[x] /\ g[x] \in Nat /\ f[x] \in Nat
    OBVIOUS
  <2> HIDE DEF a, b
  <2>4. (a + g[x]) * d = a * d + g[x] * d /\ a * d \in Nat /\ g[x] * d \in Nat
    BY <2>1, <2>3
  <2>5. (a + g[x]) * d <= b + f[x]
    BY <2>2, <2>3, <2>4
  <2>6. T \cup {x} \in SUBSET S
    OBVIOUS
  <2> QED
    BY <2>1, <2>2, <2>5, <2>6
<1>3. F \in SUBSET SUBSET S
  OBVIOUS
<1>4. S \in F
  <2> HIDE DEF F
  <2> QED
    BY <1>1, <1>2, <1>3, FiniteSetInduction
<1>5. Part(f, S) = f /\ Part(g, S) = g
  BY PartEnds
<1> QED
  BY <1>4, <1>5

(* The sum of a sum.                                                       *)
LEMMA SumAdd ==
  ASSUME NEW S, IsFiniteSet(S), NEW f \in [S -> Nat], NEW g \in [S -> Nat], NEW h \in [S -> Nat],
         \A x \in S : h[x] = f[x] + g[x]
  PROVE  SumOf(h) = SumOf(f) + SumOf(g)
<1> DEFINE F == {T \in SUBSET S : SumOf(Part(h, T)) = SumOf(Part(f, T)) + SumOf(Part(g, T))}
<1>1. {} \in F
  <2>1. SumOf(Part(g, {})) = 0 /\ SumOf(Part(f, {})) = 0 /\ SumOf(Part(h, {})) = 0
    BY PartEnds
  <2> QED
    BY <2>1
<1>2. ASSUME NEW T \in F, NEW x \in S \ T
      PROVE  T \cup {x} \in F
  <2>1. T \in SUBSET S /\ f \in Counts(S) /\ g \in Counts(S) /\ h \in Counts(S)
    BY DEF Counts
  <2> HIDE DEF F
  <2>2. ASSUME NEW u \in Counts(S)
        PROVE  SumOf(Part(u, T)) \in Nat /\ SumOf(Part(u, T \cup {x})) = SumOf(Part(u, T)) + u[x]
    BY <2>1, PartStep
  <2>3. SumOf(Part(g, T)) \in Nat /\ SumOf(Part(g, T \cup {x})) = SumOf(Part(g, T)) + g[x]
    BY <2>1, <2>2
  <2>4. SumOf(Part(f, T)) \in Nat /\ SumOf(Part(f, T \cup {x})) = SumOf(Part(f, T)) + f[x]
    BY <2>1, <2>2
  <2>5. SumOf(Part(h, T)) \in Nat /\ SumOf(Part(h, T \cup {x})) = SumOf(Part(h, T)) + h[x]
    BY <2>1, <2>2
  <2>6. g[x] \in Nat /\ f[x] \in Nat /\ h[x] = f[x] + g[x]
    OBVIOUS
  <2> QED
    BY <2>1, <2>3, <2>4, <2>5, <2>6 DEF F
<1>3. F \in SUBSET SUBSET S
  OBVIOUS
<1>4. S \in F
  <2> HIDE DEF F
  <2> QED
    BY <1>1, <1>2, <1>3, FiniteSetInduction
<1>5. Part(f, S) = f /\ Part(g, S) = g /\ Part(h, S) = h
  BY PartEnds
<1> QED
  BY <1>4, <1>5

(* The sum of a function that is 1 on T and 0 elsewhere is the size of T.  *)
LEMMA SumCounts ==
  ASSUME NEW S, IsFiniteSet(S), NEW T \in SUBSET S, NEW f,
         f = [x \in S |-> IF x \in T THEN 1 ELSE 0]
  PROVE  SumOf(f) = Cardinality(T)
<1>1. Units(f) = T \X {1}
  <2>1. ASSUME NEW x \in S PROVE 1 .. f[x] = IF x \in T THEN {1} ELSE {}
    <3>1. f[x] = (IF x \in T THEN 1 ELSE 0)
      OBVIOUS
    <3>2. 1 .. 1 = {1} /\ 1 .. 0 = {}
      OBVIOUS
    <3> QED
      BY <3>1, <3>2
  <2>2. Units(f) = UNION {{x} \X (IF x \in T THEN {1} ELSE {}) : x \in S}
    BY <2>1 DEF Units
  <2> QED
    BY <2>2
<1>2. IsFiniteSet(T) /\ IsFiniteSet({1}) /\ Cardinality({1}) = 1
  BY FS_Subset, FS_Singleton
<1>3. Cardinality(T \X {1}) = Cardinality(T) * 1
  BY <1>2, FS_Product
<1>4. Cardinality(T) \in Nat
  BY <1>2, FS_CardinalityType
<1>5. SumOf(f) = Cardinality(T \X {1})
  BY <1>1, Zenon DEF SumOf
<1> QED
  BY <1>3, <1>4, <1>5

(* What is above and what is below 0 of a function.                        *)
LEMMA IntegerParts ==
  ASSUME NEW S, NEW f \in [S -> Int]
  PROVE  /\ Above(f) \in [S -> Nat]
         /\ Below(f) \in [S -> Nat]
         /\ \A x \in S : Above(f)[x] - Below(f)[x] = f[x]
BY DEF Above, Below

(* The sum of integers is one.                                             *)
LEMMA IntegerSumType ==
  ASSUME NEW S, IsFiniteSet(S), NEW f \in [S -> Int]
  PROVE  IntegerSumOf(f) \in Int
<1>1. Above(f) \in [S -> Nat] /\ Below(f) \in [S -> Nat]
  BY IntegerParts
<1>2. SumOf(Above(f)) \in Nat /\ SumOf(Below(f)) \in Nat
  BY <1>1, SumType
<1> QED
  BY <1>2 DEF IntegerSumOf

(* One value changes and the sum changes by the difference.                *)
LEMMA IntegerSumUpdate ==
  ASSUME NEW S, IsFiniteSet(S), NEW f \in [S -> Int], NEW x \in S, NEW v \in Int
  PROVE  IntegerSumOf([f EXCEPT ![x] = v]) = (IntegerSumOf(f) - f[x]) + v
<1> DEFINE g == [f EXCEPT ![x] = v]
           a == IF v > 0 THEN v ELSE 0
           b == IF v < 0 THEN -v ELSE 0
<1>1. Above(f) \in [S -> Nat] /\ Below(f) \in [S -> Nat]
  BY IntegerParts
<1>2. Above(f)[x] \in Nat /\ Below(f)[x] \in Nat /\ Above(f)[x] - Below(f)[x] = f[x]
  BY IntegerParts
<1>3. a \in Nat /\ b \in Nat /\ a - b = v
  OBVIOUS
<1>4. Above(g) = [Above(f) EXCEPT ![x] = a] /\ Below(g) = [Below(f) EXCEPT ![x] = b]
  BY DEF Above, Below
<1> HIDE DEF g, a, b
<1>5. SumOf(Above(g)) = (SumOf(Above(f)) - Above(f)[x]) + a
  <2>1. SumOf([Above(f) EXCEPT ![x] = a]) = (SumOf(Above(f)) - Above(f)[x]) + a
    <3> DEFINE h == Above(f)
    <3>1. h \in [S -> Nat]
      BY <1>1
    <3> HIDE DEF h
    <3>2. SumOf([h EXCEPT ![x] = a]) = (SumOf(h) - h[x]) + a
      BY <1>3, <3>1, SumUpdate
    <3> QED
      BY <3>2 DEF h
  <2> QED
    BY <1>4, <2>1, Zenon
<1>6. SumOf(Below(g)) = (SumOf(Below(f)) - Below(f)[x]) + b
  <2>1. SumOf([Below(f) EXCEPT ![x] = b]) = (SumOf(Below(f)) - Below(f)[x]) + b
    <3> DEFINE h == Below(f)
    <3>1. h \in [S -> Nat]
      BY <1>1
    <3> HIDE DEF h
    <3>2. SumOf([h EXCEPT ![x] = b]) = (SumOf(h) - h[x]) + b
      BY <1>3, <3>1, SumUpdate
    <3> QED
      BY <3>2 DEF h
  <2> QED
    BY <1>4, <2>1, Zenon
<1>7. SumOf(Above(f)) \in Nat /\ SumOf(Below(f)) \in Nat
  BY <1>1, SumType
<1>8. IntegerSumOf(g) = (IntegerSumOf(f) - f[x]) + v
  BY <1>2, <1>3, <1>5, <1>6, <1>7 DEF IntegerSumOf
<1> QED
  BY <1>8 DEF g

(***************************************************************************)
(* TotalOf takes the same sum one value after the other.  The function that*)
(* sums the values of f over every part of its domain satisfies the        *)
(* recursion, and by induction on the size of the part it is the only one. *)
(***************************************************************************)
IntegerPart(f, T) == [x \in DOMAIN f |-> IF x \in T THEN f[x] ELSE 0]

Pick(T) == CHOOSE x \in T : TRUE

AddsUp(f, g) ==
  g = [T \in SUBSET DOMAIN f |-> IF T = {} THEN 0 ELSE f[Pick(T)] + g[T \ {Pick(T)}]]

LEMMA IntegerPartStep ==
  ASSUME NEW S, IsFiniteSet(S), NEW f \in [S -> Int], NEW T \in SUBSET S, NEW x \in T
  PROVE  IntegerSumOf(IntegerPart(f, T)) = f[x] + IntegerSumOf(IntegerPart(f, T \ {x}))
<1> DEFINE h == IntegerPart(f, T \ {x})
<1>1. h \in [S -> Int] /\ h[x] = 0
  BY DEF IntegerPart
<1>2. IntegerPart(f, T) = [h EXCEPT ![x] = f[x]]
  BY DEF IntegerPart
<1>3. f[x] \in Int
  OBVIOUS
<1>4. IntegerSumOf(h) \in Int
  BY <1>1, IntegerSumType
<1>5. IntegerSumOf(IntegerPart(f, T)) = (IntegerSumOf(h) - h[x]) + f[x]
  <2>1. IntegerSumOf([h EXCEPT ![x] = f[x]]) = (IntegerSumOf(h) - h[x]) + f[x]
    <3> HIDE DEF h
    <3> QED
      BY <1>1, <1>3, IntegerSumUpdate
  <2> QED
    BY <1>2, <2>1, Zenon
<1> DEFINE total == IntegerSumOf(h)
<1>6. total \in Int
  BY <1>4
<1>7. (total - h[x]) + f[x] = f[x] + total
  <2> HIDE DEF h, total
  <2> QED
    BY <1>1, <1>3, <1>6
<1> QED
  BY <1>5, <1>7

LEMMA IntegerPartEnds ==
  ASSUME NEW S, NEW f \in [S -> Int]
  PROVE  IntegerSumOf(IntegerPart(f, {})) = 0 /\ IntegerPart(f, S) = f
<1>1. IntegerPart(f, S) = f
  BY DEF IntegerPart
<1>2. IntegerPart(f, {}) = [x \in S |-> 0]
  BY DEF IntegerPart
<1>3. Above([x \in S |-> 0]) = [x \in S |-> 0] /\ Below([x \in S |-> 0]) = [x \in S |-> 0]
  BY DEF Above, Below
<1>4. SumOf([x \in S |-> 0]) = 0
  BY SumZero
<1> QED
  BY <1>1, <1>2, <1>3, <1>4 DEF IntegerSumOf

LEMMA SumsAddUp ==
  ASSUME NEW S, IsFiniteSet(S), NEW f \in [S -> Int]
  PROVE  AddsUp(f, [T \in SUBSET S |-> IntegerSumOf(IntegerPart(f, T))])
<1> DEFINE g == [T \in SUBSET S |-> IntegerSumOf(IntegerPart(f, T))]
<1>1. ASSUME NEW T \in SUBSET S, T # {}
      PROVE  g[T] = f[Pick(T)] + g[T \ {Pick(T)}]
  <2>1. Pick(T) \in T
    BY <1>1 DEF Pick
  <2>2. T \ {Pick(T)} \in SUBSET S
    OBVIOUS
  <2> QED
    BY <2>1, <2>2, IntegerPartStep
<1>2. g[{}] = 0
  BY IntegerPartEnds
<1>3. g = [T \in SUBSET S |-> IF T = {} THEN 0 ELSE f[Pick(T)] + g[T \ {Pick(T)}]]
  BY <1>1, <1>2
<1>4. DOMAIN f = S
  OBVIOUS
<1> QED
  BY <1>3, <1>4 DEF AddsUp

LEMMA AddsUpOnce ==
  ASSUME NEW S, IsFiniteSet(S), NEW f \in [S -> Int], NEW g, AddsUp(f, g)
  PROVE  g[S] = IntegerSumOf(f)
<1> DEFINE Agree(T) == g[T] = IntegerSumOf(IntegerPart(f, T))
           G == {n \in Nat : \A T \in SUBSET S : Cardinality(T) = n => Agree(T)}
<1>0. DOMAIN f = S
  OBVIOUS
<1>1. \A T \in SUBSET S : g[T] = IF T = {} THEN 0 ELSE f[Pick(T)] + g[T \ {Pick(T)}]
  <2>1. ASSUME NEW T \in SUBSET S
        PROVE  g[T] = IF T = {} THEN 0 ELSE f[Pick(T)] + g[T \ {Pick(T)}]
    BY <1>0, Zenon DEF AddsUp
  <2> QED
    BY <2>1
<1>2. Agree({})
  BY <1>1, IntegerPartEnds
<1> HIDE DEF Agree
<1>3. 0 \in G
  <2>1. ASSUME NEW T \in SUBSET S, Cardinality(T) = 0
        PROVE  Agree(T)
    <3>1. T = {}
      BY <2>1, FS_EmptySet, FS_Subset
    <3> QED
      BY <3>1, <1>2
  <2> QED
    BY <2>1
<1>4. ASSUME NEW n \in G
      PROVE  n + 1 \in G
  <2>1. ASSUME NEW T \in SUBSET S, Cardinality(T) = n + 1
        PROVE  Agree(T)
    <3>1. IsFiniteSet(T)
      BY FS_Subset
    <3>2. T # {}
      <4>1. n \in Nat /\ n + 1 # 0
        OBVIOUS
      <4> QED
        BY <2>1, <4>1, FS_EmptySet
    <3>3. Pick(T) \in T
      BY <3>2 DEF Pick
    <3>4. Cardinality(T \ {Pick(T)}) = n
      <4>1. Cardinality(T \ {Pick(T)}) = Cardinality(T) - 1
        BY <3>1, <3>3, FS_RemoveElement
      <4>2. n \in Nat
        OBVIOUS
      <4> QED
        BY <2>1, <4>1, <4>2
    <3>5. Agree(T \ {Pick(T)})
      BY <3>4
    <3>6. IntegerSumOf(IntegerPart(f, T)) = f[Pick(T)] + IntegerSumOf(IntegerPart(f, T \ {Pick(T)}))
      BY <3>3, IntegerPartStep
    <3> QED
      BY <1>1, <3>2, <3>5, <3>6 DEF Agree
  <2> QED
    BY <2>1
<1>5. Cardinality(S) \in Nat
  BY FS_CardinalityType
<1>6. Cardinality(S) \in G
  <2>1. G \in SUBSET Nat
    OBVIOUS
  <2> HIDE DEF G
  <2>2. \A n \in G : n + 1 \in G
    BY <1>4
  <2> QED
    BY <1>3, <1>5, <2>1, <2>2, NatSetInduction
<1>7. Agree(S)
  BY <1>6
<1> QED
  BY <1>7, IntegerPartEnds DEF Agree

LEMMA TotalIsSum ==
  ASSUME NEW S, IsFiniteSet(S), NEW f \in [S -> Int]
  PROVE  TotalOf(f) = IntegerSumOf(f)
<1> DEFINE over == CHOOSE g : AddsUp(f, g)
<1>1. DOMAIN f = S
  OBVIOUS
<1>2. TotalOf(f) = over[S]
  BY <1>1 DEF TotalOf, AddsUp, Pick
<1>3. AddsUp(f, over)
  BY SumsAddUp
<1>4. over[S] = IntegerSumOf(f)
  <2> HIDE DEF over
  <2> QED
    BY <1>3, AddsUpOnce
<1> QED
  BY <1>2, <1>4

(* What the proofs use of a total.                                         *)
LEMMA TotalType ==
  ASSUME NEW S, IsFiniteSet(S), NEW f \in [S -> Int]
  PROVE  TotalOf(f) \in Int
BY TotalIsSum, IntegerSumType

LEMMA TotalUpdate ==
  ASSUME NEW S, IsFiniteSet(S), NEW f \in [S -> Int], NEW x \in S, NEW g \in [S -> Int],
         \A y \in S : y # x => g[y] = f[y]
  PROVE  TotalOf(g) = TotalOf(f) - f[x] + g[x]
<1>1. g = [f EXCEPT ![x] = g[x]]
  OBVIOUS
<1>2. g[x] \in Int
  OBVIOUS
<1>3. IntegerSumOf([f EXCEPT ![x] = g[x]]) = (IntegerSumOf(f) - f[x]) + g[x]
  BY <1>2, IntegerSumUpdate
<1>4. TotalOf(f) = IntegerSumOf(f) /\ TotalOf(g) = IntegerSumOf(g)
  BY TotalIsSum
<1> QED
  BY <1>1, <1>3, <1>4

LEMMA TotalOfNaturals ==
  ASSUME NEW S, IsFiniteSet(S), NEW f \in [S -> Nat]
  PROVE  /\ TotalOf(f) \in Nat
         /\ \A x \in S : f[x] <= TotalOf(f)
<1>1. f \in [S -> Int]
  OBVIOUS
<1>2. Above(f) = f /\ Below(f) = [x \in S |-> 0]
  BY DEF Above, Below
<1>3. SumOf(Below(f)) = 0
  BY <1>2, SumZero
<1>4. SumOf(f) \in Nat
  BY SumType
<1>5. TotalOf(f) = SumOf(f)
  BY <1>1, <1>2, <1>3, <1>4, TotalIsSum DEF IntegerSumOf
<1>6. \A x \in S : f[x] <= SumOf(f)
  BY SumSplit
<1> QED
  BY <1>4, <1>5, <1>6

LEMMA TotalOfConstant ==
  ASSUME NEW S, IsFiniteSet(S), NEW c \in Int, NEW f, f = [x \in S |-> c]
  PROVE  TotalOf(f) = Cardinality(S) * c
<1> DEFINE part(T) == IntegerSumOf(IntegerPart(f, T))
           F == {T \in SUBSET S : part(T) = Cardinality(T) * c}
<1>1. f \in [S -> Int]
  OBVIOUS
<1>2. {} \in F
  <2>1. part({}) = 0
    BY <1>1, IntegerPartEnds
  <2>2. Cardinality({}) = 0
    BY FS_EmptySet
  <2>3. 0 * c = 0
    OBVIOUS
  <2> QED
    BY <2>1, <2>2, <2>3
<1>3. ASSUME NEW T \in F, NEW x \in S \ T
      PROVE  T \cup {x} \in F
  <2>1. T \in SUBSET S /\ part(T) = Cardinality(T) * c
    OBVIOUS
  <2>2. IsFiniteSet(T)
    BY <2>1, FS_Subset
  <2>3. Cardinality(T) \in Nat /\ Cardinality(T \cup {x}) = Cardinality(T) + 1
    BY <2>2, FS_CardinalityType, FS_AddElement
  <2>4. T \cup {x} \in SUBSET S /\ x \in T \cup {x} /\ (T \cup {x}) \ {x} = T
    OBVIOUS
  <2>5. part(T \cup {x}) = f[x] + part(T)
    <3> DEFINE U == T \cup {x}
    <3>1. U \in SUBSET S /\ x \in U
      BY <2>4
    <3> HIDE DEF U, F
    <3>2. IntegerSumOf(IntegerPart(f, U)) = f[x] + IntegerSumOf(IntegerPart(f, U \ {x}))
      BY <1>1, <3>1, IntegerPartStep
    <3>3. U \ {x} = T
      BY <2>4 DEF U
    <3> QED
      BY <3>2, <3>3 DEF U
  <2>6. f[x] = c
    OBVIOUS
  <2>7. (Cardinality(T) + 1) * c = c + Cardinality(T) * c
    BY <2>3
  <2> HIDE DEF part
  <2> QED
    BY <2>1, <2>3, <2>4, <2>5, <2>6, <2>7
<1>4. S \in F
  <2>1. F \in SUBSET SUBSET S
    OBVIOUS
  <2> HIDE DEF F
  <2> QED
    BY <1>2, <1>3, <2>1, FiniteSetInduction
<1>5. part(S) = Cardinality(S) * c
  BY <1>4
<1>6. part(S) = IntegerSumOf(f)
  BY <1>1, IntegerPartEnds
<1> QED
  BY <1>1, <1>5, <1>6, TotalIsSum
===============================================================================
