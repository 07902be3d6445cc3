SPECIFICATION RingSpec
CONSTANTS
    MaxRoutes = 2
    Prev <- TwoPredecessors
    NoPredecessor = "nobody"
INVARIANTS CleanStart RouteKept DeliveredOwn
CHECK_DEADLOCK FALSE
