CONSTANTS
    c1 = c1
    c2 = c2
    Client = {c1, c2}
    Worker = {w1, w2}
    Need = 2
    MaxAttempts = 2
    LeaseTicks = 1
    MaxLease = 1
    Route <- MCRoute
    Stage = {1, 2}
    NoRoute = NoRoute
    NoStage = NoStage
    Policies <- MCPolicies
    FullRounds = 2
    Sessions = 1
    ReplicaTier = 1
    ReplicaMs = 5
    ReplicaFirst = 8
    NewTier = 1
    NewMs = 4
    NewFirst = 8
    NewMeasured = TRUE
    MaxFaults = 1
SPECIFICATION Spec
INVARIANTS PlacedWhole NothingHeldBetweenAttempts
PROPERTY SettlesAndFrees
CHECK_DEADLOCK FALSE
