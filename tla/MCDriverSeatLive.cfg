CONSTANTS
  a1 = a1
  a2 = a2
  b1 = b1
  op1 = op1
  h1 = h1
  h2 = h2
  alice = alice
  bob = bob
  operator = operator
  NoUser = NoUser
  NoHost = NoHost
  Control = Control
  Conns = {op1, b1}
  Hosts = {h1}
  Users = {operator, bob}
  Daemons = {"daemon"}
  UserOf <- MCUserOf
  RoleOf <- MCRoleOf
  AccessOf <- MCViewOf
  DaemonOf <- MCDaemonOf
  InitialDriver = NoUser
  Limit = 2
  TTL = 1
  Lag = 0
  MaxTime = 1
  MaxSeq = 1
  MaxRestarts = 1
SPECIFICATION FairSpec
PROPERTIES
  AbsentDriverVacates
CHECK_DEADLOCK FALSE
