\* A pool of four that grows and shrinks, with restarts and a monitored master.
CONSTANTS
    Alpha = Alpha
    Beta = Beta
    Gamma = Gamma
    Delta = Delta
    Epsilon = Epsilon
    Me = Alpha
    None = None
    Genesis <- Founded
    GenesisNyms <- FoundedNyms
    stewardThreshold = 5
    Primaries = {Alpha, Delta}
    Requests <- Requested
    Instances = {1, 2}
    Scenes <- Played
    DeltaNum = 2
    DeltaDen = 5
    Lambda = 2
    Omega = 1
SPECIFICATION Spec
INVARIANTS OneNodePerSteward Authorised RegistryMatches PoolSizeKnown PrimaryLossNoticed NoneOverlooked NewMasterUnblamed
CHECK_DEADLOCK FALSE
