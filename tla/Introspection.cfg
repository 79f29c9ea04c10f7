SPECIFICATION Spec
CONSTANTS
  t1 = t1
  t2 = t2
  f1 = f1
  Threads = {t1, t2}
  Factories = {f1}
  None = None
  Unset = Unset
  MaxCalls = 3
INVARIANT RegisteredIsCounted
CHECK_DEADLOCK FALSE
