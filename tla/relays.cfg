SPECIFICATION FairSpec
CONSTANTS
  Relays = {r1, r2, r3, r4}
  NoRelay = NoRelay
  NailedUp = {r1, r2}
  Playlists = {r1, r3}
  Numeric = {r3}
  Stopped = {r2, r4}
  Reset = {r2, r4}
  Removed = {r1, r2, r3, r4}
  Admins = {a1, a2}
  MaxListeners = 1
  MaxLinked = 1
INVARIANTS
  PointersAreSet
  ErrorsDropListeners
PROPERTY
  MovesOn
