SPECIFICATION PricingSpec
CONSTANTS
  U64Max = 1023
  U128Max = 1048575
  Amounts <- MCAmounts
  Fees <- MCFees
  Scales <- MCScales
  Percents <- MCPercents
  Floors <- MCFloors
INVARIANT
  NeverUnderCharged
CHECK_DEADLOCK FALSE
