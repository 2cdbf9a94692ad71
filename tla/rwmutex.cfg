SPECIFICATION FairSpec
CONSTANTS
  Threads = {t1, t2, t3, t4}
  NoThread = NoThread
INVARIANTS
  CountsReaders
PROPERTIES
  LockPromise
  EverybodyGetsIn
