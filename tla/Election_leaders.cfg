\* A re-election in a pool where everybody is connected; the nodes take turns.
SPECIFICATION InTurns
CONSTANTS
    Alpha = Alpha
    Beta = Beta
    Gamma = Gamma
    Delta = Delta
    None = None
    Nodes = {Alpha, Beta, Gamma, Delta}
    Pools <- WholePool
    LastOrdered <- SameOrdered
    MaxRound = 1
    Patient = TRUE
INVARIANT OnePrimaryEach
CHECK_DEADLOCK FALSE
