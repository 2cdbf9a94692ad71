SPECIFICATION FairSpec
CONSTANTS
  MaxSources = 2
  MaxLocks = 1
  Mounts = {m1, m2}
  NoMount = NoMount
  Owners = {o1}
  Users = {u1}
  Main = Main
  Nobody = Nobody
  Stoppers = {u1}
  Viewers = {u1}
  KeepAlive = {m1}
  Expires = TRUE
INVARIANTS
  PinsCounted
  Destroyed
PROPERTIES
  LifePromise
  StopFrees
CHECK_DEADLOCK FALSE
