CONSTANTS
  NoOne = NoOne
  None = None
  Conns = {c1}
  Cap = 1
  MaxFails = 1
SPECIFICATION FairFeedSpec
INVARIANTS
  RosterExact
PROPERTIES
  HeartbeatRestores
CHECK_DEADLOCK FALSE
