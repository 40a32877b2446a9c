--------------------------------- MODULE Fees ---------------------------------
(***************************************************************************)
(* What a fill costs its taker and who gets it (math/fees.rs).  One fee    *)
(* tier, which the volume of a user chooses in the program.                *)
(*                                                                         *)
(* The fees of a fill are [user_fee, maker_rebate, fee_to_market,          *)
(* fee_to_market_for_lp, filler_reward, referrer_reward].                  *)
(***************************************************************************)
EXTENDS Signed

CONSTANTS
  fee_numerator, fee_denominator,
  maker_rebate_numerator, maker_rebate_denominator,
  referee_fee_numerator, referee_fee_denominator,
  referrer_reward_numerator, referrer_reward_denominator,
  reward_numerator, reward_denominator,
  time_based_reward_lower_bound,  \* a filler's reward for an order of one slot
  FEE_ADJUSTMENT_MAX,
  fee_adjustment                  \* the market's own adjustment, of either sign

ASSUME FeesAssumption ==
  /\ {fee_denominator, maker_rebate_denominator, referee_fee_denominator,
      referrer_reward_denominator, reward_denominator, FEE_ADJUSTMENT_MAX} \subseteq Nat \ {0}
  /\ {fee_numerator, maker_rebate_numerator, referee_fee_numerator, referrer_reward_numerator,
      reward_numerator, time_based_reward_lower_bound} \subseteq Nat
  /\ fee_adjustment \in Int
  /\ Abs(fee_adjustment) <= FEE_ADJUSTMENT_MAX

(* Both adjustments round in the market's favour: a taker's fee is never   *)
(* rounded down, a maker's rebate never up.                                *)
calculate_taker_fee(quote_asset_amount) ==
  LET fee == QuotCeil(quote_asset_amount * fee_numerator, fee_denominator)
  IN  IF fee_adjustment < 0
        THEN Greatest(0, fee - (fee * Abs(fee_adjustment)) \div FEE_ADJUSTMENT_MAX)
        ELSE fee + QuotCeil(fee * fee_adjustment, FEE_ADJUSTMENT_MAX)

calculate_maker_rebate(quote_asset_amount) ==
  LET rebate == (quote_asset_amount * maker_rebate_numerator) \div maker_rebate_denominator
  IN  IF fee_adjustment < 0
        THEN Greatest(0, rebate - QuotCeil(rebate * Abs(fee_adjustment), FEE_ADJUSTMENT_MAX))
        ELSE rebate + (rebate * fee_adjustment) \div FEE_ADJUSTMENT_MAX

(* The referee pays less and the referrer is paid out of the whole fee, as *)
(* far as its rewards of this epoch allow.                                 *)
calculate_referee_fee_and_referrer_reward(fee, epoch_reward_left) ==
  [ fee |-> fee - get_proportion_u128(fee, referee_fee_numerator, referee_fee_denominator),
    reward |-> Least(get_proportion_u128(fee, referrer_reward_numerator,
                                         referrer_reward_denominator), epoch_reward_left) ]

(* The lesser of a fraction of the fee and a reward that grows with the    *)
(* fourth root of the order's age, which `multiplier' scales.              *)
calculate_filler_reward(fee, multiplier) ==
  Least((fee * reward_numerator) \div reward_denominator,
        time_based_reward_lower_bound * multiplier)

(* Who is rewarded: the keeper, when it is not the taker itself, and the   *)
(* taker's referrer.                                                       *)
FeeAfterReferral(fee, referred, epoch_reward_left) ==
  IF referred THEN calculate_referee_fee_and_referrer_reward(fee, epoch_reward_left)
  ELSE [fee |-> fee, reward |-> 0]

FillerReward(fee, multiplier, rewarded) ==
  IF rewarded THEN calculate_filler_reward(fee, multiplier) ELSE 0

(* A post-only order pays nothing: the surplus of the price it asked for   *)
(* over the AMM's pays its rebate, the filler and the market.              *)
PostOnlyFees(quote_asset_amount, surplus, rewarded) ==
  LET rebate == calculate_maker_rebate(quote_asset_amount)
      filler_reward == FillerReward(surplus - rebate, 1, rewarded)
  IN  [ user_fee |-> 0, maker_rebate |-> rebate,
        fee_to_market |-> surplus - rebate - filler_reward, fee_to_market_for_lp |-> 0,
        filler_reward |-> filler_reward, referrer_reward |-> 0 ]

TakerFees(quote_asset_amount, surplus, rewarded, referred, epoch_reward_left) ==
  LET referral == FeeAfterReferral(calculate_taker_fee(quote_asset_amount), referred,
                                   epoch_reward_left)
      filler_reward == FillerReward(referral.fee, 1, rewarded)
      kept == referral.fee - filler_reward - referral.reward
  IN  [ user_fee |-> referral.fee, maker_rebate |-> 0,
        fee_to_market |-> kept + surplus, fee_to_market_for_lp |-> kept,
        filler_reward |-> filler_reward, referrer_reward |-> referral.reward ]

calculate_fee_for_fulfillment_with_amm(quote, surplus, is_post_only, rewarded, referred, left) ==
  IF is_post_only THEN PostOnlyFees(quote, surplus, rewarded)
  ELSE TakerFees(quote, surplus, rewarded, referred, left)

(* The subtractions are checked: a fill whose surplus does not pay the     *)
(* rebate, or whose fee does not pay the rewards, fails.                   *)
FeesWithAmmValid(fees, surplus, is_post_only) ==
  IF is_post_only THEN surplus >= fees.maker_rebate
  ELSE fees.fee_to_market >= surplus

calculate_fee_for_fulfillment_with_match(quote, filler_multiplier, rewarded, referred, left) ==
  LET referral == FeeAfterReferral(calculate_taker_fee(quote), referred, left)
      rebate == calculate_maker_rebate(quote)
      filler_reward == FillerReward(referral.fee, filler_multiplier, rewarded)
  IN  [ user_fee |-> referral.fee, maker_rebate |-> rebate,
        fee_to_market |-> referral.fee - filler_reward - referral.reward - rebate,
        fee_to_market_for_lp |-> 0,
        filler_reward |-> filler_reward, referrer_reward |-> referral.reward ]

FeesWithMatchValid(fees) == fees.fee_to_market >= 0
===============================================================================
