SPECIFICATION FairSpec
CONSTANTS
    Conn = {c1, c2, c3}
    Peer = {p1, p2}
    Route = {r1, r2, r3}
    Stage = {s1, s2}
    NoRoute = NoRoute
    NoStage = NoStage
    MaxLease = 2
    MaxConn = 2
    MaxPerPeer = 1
INVARIANTS ExclusiveUse LeaseHasHolder ServesLeasedStage
PROPERTIES ReservationResolves ImplementsPromise
