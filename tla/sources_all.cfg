SPECIFICATION Spec
CONSTANTS
  MaxSources = 2
  MaxLocks = 0
  Mounts = {m1}
  NoMount = NoMount
  Owners = {o1, o2}
  Users = {u1}
  Main = Main
  Nobody = Nobody
  Stoppers = {u1}
  Viewers = {}
  KeepAlive = {m1}
  Expires = TRUE
INVARIANTS
  UseAlive
  OwnedLinked
  ScanAlive
PROPERTIES
  UnlinkedOnlyDrains
  SurvivesDisconnect
CHECK_DEADLOCK FALSE
