SPECIFICATION CallsFairSpec
CONSTANTS
  Threads = {t1, t2, t3}
  NoThread = NoThread
  Sources = {s1, s2}
  NoSource = NoSource
  Queriers = {t1, t2}
  Destroyers = {t2, t3}
  Creators = {t3}
  Pagers = {t1}
  MaxCalls = 3
INVARIANTS
  WalksUndisturbed
PROPERTY QueryReturns
CHECK_DEADLOCK FALSE
