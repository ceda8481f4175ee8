\* A lost or slow primary, a faulty voter, restart.
SPECIFICATION VSpec
CONSTANTS
    Alpha = Alpha
    Beta = Beta
    Gamma = Gamma
    Delta = Delta
    None = None
    Nodes = {Alpha, Beta, Gamma, Delta}
    Pools <- OneInstance
    Scenes <- Trouble
    Leader = Alpha
    LastOrdered <- SameOrdered
    MaxRound = 0
    MaxView = 1
    Patient = TRUE
INVARIANTS VTypeOK ViewBacked NewLeader OneLeader ViewsMeet
PROPERTIES LeaderReplaced
CHECK_DEADLOCK FALSE
