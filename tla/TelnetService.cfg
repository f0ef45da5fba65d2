SPECIFICATION FairSpec
CONSTANTS
  c1 = c1
  c2 = c2
  Clients <- MCClients
CHECK_DEADLOCK FALSE
INVARIANTS
  SessionsAccounted
  ToldUnlessLate
PROPERTIES
  ServiceStops
  Connections
