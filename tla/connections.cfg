SPECIFICATION Spec
CONSTANTS
  Threads = {t1, t2}
  Conns = {c1}
  Requests <- AllRequests
  Nothing = Nothing
INVARIANTS
  Balanced
  AppliedWhole
  EndsSeen
PROPERTIES
  ServedToTheEnd
  KeptIsDelimited
CHECK_DEADLOCK FALSE
