\* One game, three messages, two nodes and two faults, under the pumps' fairness.
CONSTANTS
  n1 = n1
  n2 = n2
  g1 = g1
  Games = {g1}
  MaxMessages = 3
  Nodes = {n1, n2}
  MaxFaults = 2
SPECIFICATION FairSpec
INVARIANTS
  TypeOK
  FirstSendInOrder
  OneAuthority
  JournalTellsTheTruth
PROPERTIES
  EveryMessageIsAcknowledged
  ImplementsDelivery
CHECK_DEADLOCK FALSE
