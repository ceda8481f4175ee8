\* A client that signs two requests, a faulty node, and nodes that sync or forget.
SPECIFICATION Spec
CONSTANTS
  n1 = n1
  n2 = n2
  n3 = n3
  d = d
  c1 = c1
  c2 = c2
  Nodes = {n1, n2, n3, d}
  Faulty = {d}
  Contents = {c1, c2}
  FaultySends = {c1, c2}
  FaultyNames = {"asker"}
  Asked = {n1, n2, n3}
  Instances = 1
  MaxTroubles = 1
  MaxRounds = 1
CHECK_DEADLOCK FALSE
SYMMETRY Symmetry
INVARIANTS BackedInv FinalisedAgree
