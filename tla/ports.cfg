SPECIFICATION Spec
CONSTANTS
  Configs <- MCConfigs
  Addresses <- MCAddresses
  AnyAddr = AnyAddr
  Card = Card
  Name = Name
  Names = {Name}
  Handles = {1, 2, 3, 4, 5, 6}
  Guests = {g1, g2}
  Threads = {t1, t2}
  Admins = {a1, a2}
  Clients = {c1}
  Server = Server
  None = None
  MaxApplies = 2
SYMMETRY Symmetric
INVARIANTS
  Listening
  AcceptReturns
  Doors
  CallsTheLiving
CHECK_DEADLOCK FALSE
