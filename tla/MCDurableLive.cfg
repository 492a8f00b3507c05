\* Two calls on two nodes, a fault and an override under the fairness of the event
\* loop: every queued call ends, a blocked game takes no command, and the command
\* log is implemented.
CONSTANTS
  n1 = n1
  n2 = n2
  c1 = c1
  c2 = c2
  c3 = c3
  k1 = k1
  k2 = k2
  p1 = p1
  p2 = p2
  Nodes = {n1, n2}
  Calls = {c1, c2}
  Keys = {k1, k2}
  Prints = {p1, p2}
  Override = Override
  Faces <- MCSomeRange
  MaxFaults = 1
  MaxOverrides = 1
SPECIFICATION FairSpec
PROPERTIES
  CommandsRespectTheBlock
  EveryCallEnds
  ImplementsCommandLog
CHECK_DEADLOCK FALSE
