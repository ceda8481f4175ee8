\* An election with re-election, timers, a late node and two instances.
SPECIFICATION Spec
CONSTANTS
    Alpha = Alpha
    Beta = Beta
    Gamma = Gamma
    Delta = Delta
    None = None
    Nodes = {Alpha, Beta, Gamma, Delta}
    Pools <- Situations
    LastOrdered <- SameOrdered
    MaxRound = 1
    Patient = TRUE
SYMMETRY Sym
INVARIANTS PrimaryAgreed LeadersApart FirstRoundSettles
CHECK_DEADLOCK FALSE
