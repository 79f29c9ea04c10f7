SPECIFICATION Spec
CONSTANTS
  t1 = t1
  t2 = t2
  o1 = o1
  o2 = o2
  o3 = o3
  o4 = o4
  o5 = o5
  Threads = {t1, t2}
  Objects = {o1, o2, o3, o4, o5}
  None = None
  Slots = 2
  SlotCapacity = 1
  Behaviors = {"Suppress"}
  MaxRefs = 2
SYMMETRY Symmetry
INVARIANTS
  TypeOK
  OnePlace
PROPERTIES
  VendedClean
  ImplementsPool
