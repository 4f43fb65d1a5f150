CONSTANTS
  NoHost = NoHost
  Hosts = {h1, h2, h3}
  Conns = {p1, p2}
  Limit = 2
  MaxEpoch = 3
SPECIFICATION Spec
SYMMETRY Symmetry
INVARIANTS
  TypeOK
  NewestHostStands
  OneLateFrame
  NoMissedPush
