----------------------------- MODULE MCSpotMarket -----------------------------
(***************************************************************************)
(* SpotMarket for TLC: two users who are interchangeable.                  *)
(***************************************************************************)
EXTENDS SpotMarket, TLC

UserSymmetry == Permutations(Users)
===============================================================================
