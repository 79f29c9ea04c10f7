SPECIFICATION FairSpec
CONSTANTS
  t1 = t1
  t2 = t2
  Threads = {t1, t2}
  Gauges = Gauges
  QueueCapacity = 2
  BatchCapacity = 1
  TDigestToOtel = TRUE
  MayStop <- AnyTask
  MaxRecords = 2
CHECK_DEADLOCK FALSE
INVARIANTS
  TypeOK
  OneFate
  ReceivedInOrder
PROPERTIES
  LossHasCause
  ImplementsDelivery
  CollectingEnds
