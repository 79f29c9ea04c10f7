SPECIFICATION Spec
CONSTANTS
  NaN = NaN
  Values = {1, 2, 9}
  BufferSize = 3
  MaxSize = 4
  MaxObservations = 7
  Quantiles <- SomeQuantiles
INVARIANTS
  TypeOK
  NothingForgotten
  DigestsDescribe
  QuantilesAreClose
CHECK_DEADLOCK FALSE
