CONSTANTS
  a1 = a1
  a2 = a2
  b1 = b1
  op1 = op1
  h1 = h1
  h2 = h2
  alice = alice
  bob = bob
  operator = operator
  NoUser = NoUser
  NoHost = NoHost
  Control = Control
  Conns = {a1, b1}
  Hosts = {h1}
  Users = {alice, bob}
  Daemons = {"daemon"}
  UserOf <- MCUserOf
  RoleOf <- MCRoleOf
  AccessOf <- MCAccessOf
  DaemonOf <- MCDaemonOf
  InitialDriver = NoUser
  Limit = 2
  TTL = 2
  Lag = 0
  MaxTime = 1
  MaxSeq = 3
  MaxRestarts = 0
SPECIFICATION Spec
INVARIANT HolderCanType
CHECK_DEADLOCK FALSE
