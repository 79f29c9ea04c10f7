SPECIFICATION FairSpec
CONSTANTS
  Cadence = 5
  PollInterval = 2
  QueueCapacity = 2
  MaxLag = 2
INVARIANTS
  TypeOK
  WindowNotShort
  WindowEndsOnTime
  BatchesSpaced
PROPERTY MapIsDrained
