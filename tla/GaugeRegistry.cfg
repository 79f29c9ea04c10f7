SPECIFICATION FairSpec
CONSTANTS
  gr1 = gr1
  gr2 = gr2
  p1 = p1
  sum = sum
  histogram = histogram
  h1 = h1
  h2 = h2
  g1 = g1
  g2 = g2
  None = None
  Groups = {gr1, gr2}
  Positions = {p1}
  Kinds = {sum, histogram}
  Handles = {h1, h2}
  Gauges = {g1, g2}
  MaxObservations = 1
INVARIANTS
  TypeOK
  OneGaugePerKey
  AliveGaugesRegistered
  ObservationsAccounted
PROPERTIES
  ObservationReported
  DeadEntriesCollected
