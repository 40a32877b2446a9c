-------------------------------- MODULE Signed --------------------------------
(***************************************************************************)
(* The signed arithmetic the perp market is written in: division that      *)
(* rounds toward zero, as Rust's does, and the proportions and step sizes  *)
(* of math/helpers.rs and math/orders.rs built on it.                      *)
(***************************************************************************)
EXTENDS Helpers

Abs(a) == IF a < 0 THEN -a ELSE a
Sign(a) == IF a > 0 THEN 1 ELSE IF a < 0 THEN -1 ELSE 0
Greatest(a, b) == IF a >= b THEN a ELSE b
Least(a, b) == IF a <= b THEN a ELSE b
Clamp(a, low, high) == Least(Greatest(a, low), high)

(* a / b rounded toward zero, and rounded away from zero (safe_div_ceil).  *)
Quot(a, b) == Sign(a) * Sign(b) * (Abs(a) \div Abs(b))
QuotCeil(a, b) == Quot(a, b) + (IF Abs(a) % Abs(b) = 0 THEN 0 ELSE Sign(a) * Sign(b))

get_proportion_i128(value, numerator, denominator) ==
  Sign(value) * get_proportion_u128(Abs(value), numerator, denominator)

(* What is left of an amount beyond a multiple of the step size, with the  *)
(* amount's sign.                                                          *)
StepRemainder(amount, step_size) == Sign(amount) * (Abs(amount) % step_size)
standardize_base_asset_amount(amount, step_size) == amount - StepRemainder(amount, step_size)
standardize_base_asset_amount_ceil(amount, step_size) ==
  IF amount % step_size = 0 THEN amount ELSE amount + step_size - (amount % step_size)
is_multiple_of_step_size(amount, step_size) == StepRemainder(amount, step_size) = 0
===============================================================================
