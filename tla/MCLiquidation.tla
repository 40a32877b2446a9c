---------------------------- MODULE MCLiquidation ----------------------------
(***************************************************************************)
(* Liquidation for TLC: two users, prices in tenths, base in thousandths,  *)
(* weights and fees in hundredths.  Each setup is a user that one move of  *)
(* a price puts in danger, one per kind of liability.                      *)
(***************************************************************************)
EXTENDS Liquidation, TLC

Held(quote, asset) == [quote |-> quote, asset |-> asset]
Setup(lp, base, other_base, pnl, u, other) ==
  [lp |-> lp, base |-> base, other_base |-> other_base, pnl |-> pnl, u |-> u, other |-> other,
   revalued_at |-> 0]

(* A long, a provider of liquidity with a long, a borrow against a deposit *)
(* in each market, a profit that backs a borrow, a loss against a deposit, *)
(* a loss and a borrow, and both small enough to be taken whole.  In the   *)
(* market of the borrow of quote the other user's short won more than the  *)
(* fees that the market had.                                               *)
LongPosition == Setup(0, 2000, 0, 0, Held(340, 0), Held(3000, 500))
LiquidityProvider == Setup(4000, 1500, -500, 0, Held(350, 0), Held(3000, 500))
AssetBorrow == Setup(0, 0, 500, 0, Held(300, -200), Held(3000, 500))
QuoteBorrow == [Setup(0, 0, -3000, 0, Held(-180, 300), Held(3000, 500))
                  EXCEPT !.revalued_at = 300]
ProfitAndBorrow == Setup(0, 0, 500, 300, Held(0, -200), Held(3000, 500))
LossAndDeposit == Setup(0, 0, 500, -180, Held(0, 300), Held(3000, 500))
LossAndBorrow == Setup(0, 0, 500, -50, Held(300, -200), Held(3000, 500))
SmallDebts == Setup(0, 0, 500, -6, Held(-6, 18), Held(3000, 500))

AllSetups == {LongPosition, LiquidityProvider, AssetBorrow, QuoteBorrow, ProfitAndBorrow,
              LossAndDeposit, LossAndBorrow, SmallDebts}
LossOnly == {LossAndDeposit}

NoSpotImf == [in_market \in SpotMarkets |-> 0]
InitialAssetWeights == [quote |-> 100, asset |-> 70]
MaintenanceAssetWeights == [quote |-> 100, asset |-> 80]
InitialLiabilityWeights == [quote |-> 100, asset |-> 120]
MaintenanceLiabilityWeights == [quote |-> 100, asset |-> 110]
SpotFees == [quote |-> 0, asset |-> 4]
SpotIfFees == [quote |-> 1, asset |-> 2]
SomeInsurance == [quote |-> 40, asset |-> 60]
LittleInsurance == [quote |-> 10, asset |-> 60]

(* Prices at the start, after a fall and after a crash of the perp market. *)
FallAndRise == {[perp |-> InitialPeg, asset |-> InitialAssetPrice],
                [perp |-> 430, asset |-> 14], [perp |-> 300, asset |-> 3]}

QuoteDeposit == {[in_market |-> "quote", amount |-> 60]}

ShortOrder == {[base |-> 500, direction |-> "Short"]}

UserSymmetry == Permutations(Users)
===============================================================================
