SPECIFICATION Spec
CONSTANTS
  p = p
  a = a
  b = b
  d = d
  q1 = q1
  q2 = q2
  Replicas = {p, a, b, d}
  Primary = p
  Faulty = {d}
  FaultyVotes <- AnyFirst
  Slow = {a}
  Requests = {q1}
  BatchSize = 1
  MaxSeq = 1
  WrongBatches = {1}
  MaxLost = 1
  MaxCatchups = 1
CHECK_DEADLOCK FALSE
INVARIANTS TypeOK InvalidNeverOrdered
