---------------------------- MODULE MCInsuranceFund ----------------------------
(***************************************************************************)
(* InsuranceFund for TLC: stakers who are interchangeable.                 *)
(***************************************************************************)
EXTENDS InsuranceFund, TLC

StakerSymmetry == Permutations(Stakers)
================================================================================
