SPECIFICATION FairSpec
CONSTANTS
    quick = quick
    slow = slow
    rare = rare
    Order <- ThreeJobs
    Interval <- ThreeIntervals
    Rotation <- ThreeRotations
    FireOnStartup = FALSE
    MaxAttempts = 2
    Faults = {"connect", "agent", "factory", "close", "slow", "kill"}
CHECK_DEADLOCK FALSE
INVARIANTS
    TypeOK
    OneRunPerTurn
PROPERTIES
    Spaced
    EveryJobGetsTurns
    EverySourceVisited
    ShutdownEnds
