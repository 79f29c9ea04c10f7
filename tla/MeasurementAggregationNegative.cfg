SPECIFICATION Spec
CONSTANTS
  Numbers <- Eighths
  Distributions <- Collections
  MaxSamples = 2
  Figures = 2
  MaxPower = 4
  MinWord <- MinWord12
  MaxWord <- MaxWord12
  Nothing = Nothing
CHECK_DEADLOCK FALSE
INVARIANTS
  SignedBucketsCountTheirRange
