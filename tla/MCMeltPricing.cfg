SPECIFICATION PricingSpec
CONSTANTS
  U64Max = 1023
  U128Max = 1048575
  Amounts <- MCAmounts
  Fees <- MCFees
  Scales <- MCScales
  Percents <- MCPercents
  Floors <- MCFloors
INVARIANTS
  PricingTypeOK
  ProbedFeeIsPayable
  ChargeIsSound
CHECK_DEADLOCK FALSE
