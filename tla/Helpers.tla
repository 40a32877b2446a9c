-------------------------------- MODULE Helpers --------------------------------
(***************************************************************************)
(* The small helpers that several parts of the program share               *)
(* (math/helpers.rs).                                                      *)
(***************************************************************************)
EXTENDS Integers, FiniteSets

(* How long to wait, from the last update, for the next one on a multiple  *)
(* of the period: an update that came late by more than a third of the     *)
(* period skips the next multiple.                                         *)
NextUpdateWait(last_update_ts, update_period) ==
  LET delay == last_update_ts % update_period
  IN  IF update_period <= 1 \/ delay = 0
        THEN update_period
        ELSE IF delay > update_period \div 3
          THEN 2 * update_period - delay
          ELSE update_period - delay

(* The seconds left until the next update is due, 0 when it is.            *)
on_the_hour_update(now, last_update_ts, update_period) ==
  LET remaining == NextUpdateWait(last_update_ts, update_period) - (now - last_update_ts)
  IN  IF remaining > 0 THEN remaining ELSE 0

(* value * numerator / denominator, rounded down.  When the proportion is  *)
(* more than a half, the program rounds what is left out up and subtracts  *)
(* it, to keep the product small.                                          *)
get_proportion_u128(value, numerator, denominator) ==
  LET left_out == value * (denominator - numerator)
  IN  IF numerator = denominator
        THEN value
        ELSE IF numerator > denominator \div 2 /\ denominator > numerator
          THEN (value - left_out \div denominator)
               - (IF left_out % denominator > 0 THEN 1 ELSE 0)
          ELSE (value * numerator) \div denominator

(* 10_u128.pow(n).                                                         *)
Pow10[n \in Nat] == IF n = 0 THEN 1 ELSE 10 * Pow10[n - 1]

(* Decimal digits after the first, for the numbers below 10^(MaxExpo + 1). *)
MaxExpo == 8
log10_iter(n) == Cardinality({k \in 1 .. MaxExpo : Pow10[k] <= n})
================================================================================
