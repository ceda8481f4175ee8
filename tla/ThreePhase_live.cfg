SPECIFICATION FairSpec
CONSTANTS
  p = p
  a = a
  b = b
  d = d
  q1 = q1
  q2 = q2
  Replicas = {p, a, b, d}
  Primary = p
  Faulty = {d}
  FaultyVotes <- Silent
  Slow = {}
  Requests = {q1, q2}
  BatchSize = 1
  MaxSeq = 2
  WrongBatches = {}
  MaxLost = 0
  MaxCatchups = 0
CHECK_DEADLOCK FALSE
PROPERTIES EventuallyOrdered
