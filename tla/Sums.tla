--------------------------------- MODULE Sums ---------------------------------
(***************************************************************************)
(* The sum of a function that takes natural numbers on a finite domain.    *)
(* It is written as the size of a set rather than by recursion over the    *)
(* domain: the sum of f is the number of pairs <<x, i>> with i in          *)
(* 1 .. f[x].  The facts about finite sets then prove what a change of one *)
(* value does to the sum (SumsProofs), for a domain of any size.           *)
(***************************************************************************)
EXTENDS Integers, FiniteSets

Units(f) == UNION {{x} \X (1 .. f[x]) : x \in DOMAIN f}

SumOf(f) == Cardinality(Units(f))

(* The sum of a function that takes integers: what is above 0 less what is *)
(* below.                                                                  *)
Above(f) == [x \in DOMAIN f |-> IF f[x] > 0 THEN f[x] ELSE 0]
Below(f) == [x \in DOMAIN f |-> IF f[x] < 0 THEN -f[x] ELSE 0]

IntegerSumOf(f) == SumOf(Above(f)) - SumOf(Below(f))

(* The same sum, taken one value after the other: cheap to evaluate.       *)
TotalOf(f) ==
  LET over[S \in SUBSET DOMAIN f] ==
        IF S = {} THEN 0 ELSE LET x == CHOOSE x \in S : TRUE IN f[x] + over[S \ {x}]
  IN  over[DOMAIN f]
===============================================================================
