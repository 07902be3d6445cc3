CONSTANTS
    World <- MCWorld
    Reserve = 3
    Pad = 2
    DefaultSpeed = 2
    Exhaustive = 2
    LegacyLimit = 3
SPECIFICATION Spec
INVARIANTS SearchIsExact CacheNearlyAsFast FewestStages
CHECK_DEADLOCK FALSE
