CONSTANTS
  Amounts = {0, 1, 2, 5, 21, 40}
  Prices = {1, 3, 7}
  Units = {1, 4}
  Bonuses = {10000, 10500, 11000, 15000}
  HealthFactors = {9499, 9500, 9999, 10000}
  Threshold = 9500
SPECIFICATION Spec
INVARIANTS AmountWithinDebt SeizureWithinCollateral
