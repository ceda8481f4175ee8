\* Three correct replicas and a faulty one, a catch-up and a lost CHECKPOINT.
SPECIFICATION Spec
CONSTANTS
  Alpha = Alpha
  Beta = Beta
  Gamma = Gamma
  Delta = Delta
  Replicas = {Alpha, Beta, Gamma, Delta}
  Faulty = {Delta}
  FaultyMsgs <- FaultyChk
  CHK_FREQ = 2
  LOG_SIZE = 3
  MaxSeq = 5
  MaxCatchups = 1
  MaxLost = 1
SYMMETRY Sym
CHECK_DEADLOCK FALSE
INVARIANTS StableBacked LogBounded NoneLost NobodyStuck
