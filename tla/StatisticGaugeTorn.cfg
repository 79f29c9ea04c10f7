SPECIFICATION Spec
CONSTANTS
  o1 = o1
  o2 = o2
  r1 = r1
  r2 = r2
  Observers = {o1, o2}
  Reporters = {r1}
  NoReporter = NoReporter
  Values <- TwoValues
  I64Min <- MCI64Min
  I64Max <- MCI64Max
  MaxObservations = 2
INVARIANT ReportedMinimumWasObserved
