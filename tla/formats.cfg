SPECIFICATION Spec
CONSTANTS
  MP3Clients = {m1, m2}
  OGGClients = {o1, o2}
  Items = 3
  Interval = 2
  Unit = 2
  Units = 3
  Lengths <- MCLengths
  ReadLens = {2}
  Serials = {s1, s2}
  HdrPages = 2
  MaxStreams = 2
  MaxPages = 6
CONSTRAINT NoEdge
SYMMETRY Symmetric
INVARIANTS
  SharedByCount
  Decodable
PROPERTY LatestTitle
CHECK_DEADLOCK FALSE
