SPECIFICATION PoolFairSpec
CONSTANTS
  MaxRelays = 2
  Threads = {t1, t2}
  PoolAdmins = {a1, a2}
  Main = Main
  PerThread = 1
  MaxThreads = 2
  Width = 4
INVARIANTS
  UseIsSafe
PROPERTIES
  Attended
  StopReturns
CHECK_DEADLOCK FALSE
