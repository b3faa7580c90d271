\* Every plan of four tasks, and what is placed of every graph of five.
SPECIFICATION ReplaySpec
CONSTANTS
    Instance <- AllInstances
    Plan <- TwoWorkers
    Placement <- TwoSms
    Placeable <- FiveNodes
    Siblings <- ThreeWorkers
INVARIANTS
    DeadlockIsReal
    MatchesRecurrence
    SharingConservesWork
    LowerBoundHolds
    ReplayAgrees
CHECK_DEADLOCK FALSE
