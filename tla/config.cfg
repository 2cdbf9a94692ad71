SPECIFICATION Spec
CONSTANTS
  MaxChanges = 2
  Bounds <- MCBounds
  Admins = {a1}
  Main = Main
  Users = {u1, u2}
  Retriers = {u1}
  Nothing = Nothing
  Torn = Torn
INVARIANTS
  Durable
  Decides
  HeldTemplates
CHECK_DEADLOCK FALSE
