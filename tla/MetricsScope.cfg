SPECIFICATION Spec
CONSTANTS
  n1 = n1
  a = a
  b = b
  g1 = g1
  g2 = g2
  g3 = g3
  h1 = h1
  Names = {n1}
  Inputs = {a, b}
  Guards = {g1, g2, g3}
  Timers = {h1}
  Nothing = Nothing
  NoneText = NoneText
  MaxLives = 2
SYMMETRY Symmetry
INVARIANTS
  TypeOK
  NoCrossTalk
  DrainedDimensions
CHECK_DEADLOCK FALSE
