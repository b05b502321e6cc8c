---------------------------- MODULE MCMeltPricing ----------------------------
(***************************************************************************)
(* A ten-bit u64 and a twenty-bit u128 for MeltPricing: wide enough for    *)
(* the assumptions of the code, small enough for both to overflow.         *)
(***************************************************************************)
EXTENDS MeltPricing

MCAmounts == {0, 1, 7, 20, 21, 999, 1000, 1001, 3070, 1048575}
MCFees == {0, 1, 6, 7, 8, 30, 500, 6000}
MCScales == {1, 3, 7}
MCPercents == {0, 1, 255}
MCFloors == {0, 1, 2}
==============================================================================
