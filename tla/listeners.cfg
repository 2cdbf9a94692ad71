SPECIFICATION Spec
CONSTANTS
  Clients = {c1, c2, c3}
  Admins = {a1}
  Visitors = {v1}
  Feeder = feeder
  Nobody = Nobody
  ulMaxClients = 2
SYMMETRY Symmetric
INVARIANTS
  ListHolds
  ReadsAreSafe
CHECK_DEADLOCK FALSE
