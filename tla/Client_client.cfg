\* A client with bad connections, a lying node and requests that are refused.
SPECIFICATION CSpec
CONSTANTS
  n1 = n1
  n2 = n2
  n3 = n3
  d = d
  c1 = c1
  Nodes = {n1, n2, n3, d}
  Faulty = {d}
  Contents = {c1}
  FaultySends = {c1}
  FaultyNames = {"other"}
  Asked = {}
  Instances = 2
  MaxTroubles = 1
  MaxRounds = 1
  Scenes <- Hardships
  MaxRetry = 1
  Prompt = TRUE
CHECK_DEADLOCK FALSE
INVARIANTS ResultTrue RefusedNoEffect SenderKept TypeOK
PROPERTIES EventuallyConfirmed
