CONSTANTS
  NoOne = NoOne
  Conns = {c1, c2, c3}
SPECIFICATION FairSpec
INVARIANTS
  TypeOK
  NoSurvivor
PROPERTIES
  DrainEnds
\* the process ends, and a node with no signal may end up with every connection gone
CHECK_DEADLOCK FALSE
