SPECIFICATION FairSpec
CONSTANTS
  d1 = d1
  d2 = d2
  c1 = c1
  c2 = c2
  c3 = c3
  Daemons <- MCDaemons
  Connections <- MCConnections
  Nobody = Nobody
  Permits = 1
  MaxTasks = 1
  MaxStarts = 2
  MaxConnects = 4
INVARIANTS
  OneOwner
  OwnerReachable
PROPERTY
  ConnectionsEnd
CHECK_DEADLOCK FALSE
