\* Two nodes and two connections of one identity, with any two of a logout, an
\* outage of a LISTEN connection and a node that stops.
CONSTANTS
  n1 = n1
  n2 = n2
  Nodes <- TwoNodes
  Users = {alice}
  Sockets = {s1, s2}
  MaxPerSession = 1
  Budgets <- Mixed
SPECIFICATION FairSpec
INVARIANTS
  TypeOK
  SocketsAreEntitled
CHECK_DEADLOCK FALSE
PROPERTIES
  LogoutEnds
  ShutdownEnds
