\* Three calls on two nodes, two keys, two faults: what the database says, and what
\* the random providers keep.
CONSTANTS
  n1 = n1
  n2 = n2
  c1 = c1
  c2 = c2
  c3 = c3
  k1 = k1
  k2 = k2
  p1 = p1
  p2 = p2
  Nodes = {n1, n2}
  Calls = {c1, c2, c3}
  Keys = {k1, k2}
  Prints = {p1, p2}
  Override = Override
  Faces <- MCRange
  MaxFaults = 2
  MaxOverrides = 0
SPECIFICATION Spec
SYMMETRY Symmetry
INVARIANTS
  ChainUnbroken
  DurableFamiliesAgree
  DrawsAreAccounted
CHECK_DEADLOCK FALSE
