CONSTANTS
  a1 = a1
  a2 = a2
  b1 = b1
  op1 = op1
  h1 = h1
  h2 = h2
  alice = alice
  bob = bob
  operator = operator
  NoUser = NoUser
  NoHost = NoHost
  Control = Control
  Conns = {a1, a2, b1}
  Hosts = {}
  Users = {alice, bob}
  Daemons = {"daemon"}
  UserOf <- MCUserOf
  RoleOf <- MCRoleOf
  AccessOf <- MCAccessOf
  DaemonOf <- MCDaemonOf
  InitialDriver = NoUser
  Limit = 3
  TTL = 1
  Lag = 1
  MaxTime = 1
  MaxSeq = 2
  MaxRestarts = 0
SPECIFICATION Spec
SYMMETRY Tabs
INVARIANTS
  TypeOK
  GenerationNamesDriver
  AbsentHolderReleases
  EveryoneTold
PROPERTY SeatNotStolen
CHECK_DEADLOCK FALSE
