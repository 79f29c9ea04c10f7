SPECIFICATION FairSpec
CONSTANTS
  t1 = t1
  t2 = t2
  o1 = o1
  o2 = o2
  o3 = o3
  o4 = o4
  o5 = o5
  Threads = {t1}
  Objects = {o1, o2, o3, o4, o5}
  None = None
  Slots = 8
  SlotCapacity = 1
  Behaviors = {}
  MaxRefs = 1
PROPERTY ReuseRecurs
