CONSTANTS
  Grid = 4
  Digits = 2
  MaxPrice = 420
  MaxAmount = 100
SPECIFICATION Spec
INVARIANTS TypeOK RateSurvivesStorage ConversionIsAccurate ConversionIsMonotone
CHECK_DEADLOCK FALSE
