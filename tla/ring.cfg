SPECIFICATION RingSpec
CONSTANTS
  Pages = 3
  PageSize = 2
  Width = 12
  Clients = {c1, c2}
  Writes = {1, 3}
  ReadLen = 2
  Formats = {"mp3", "ogg"}
  MaxUsed = 2
  MaxPos = 13
CONSTRAINT OneEdge
SYMMETRY Symmetric
INVARIANTS
  OneStretch
  DataKept
  NotTorn
CHECK_DEADLOCK FALSE
