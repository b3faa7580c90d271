\* Every compiled form over two launches of counters that are never cleared.
SPECIFICATION FairSpec
CONSTANTS
    StageCount = 2
    Count <- Counts31
    Kappa <- Kappas21
    Dependencies <- HaloAndWhole
    Grid = 4
    ClusterDim = 2
    Builds <- ShippedBuilds
    Owners <- ProducersUpwards
    MaxIterations = 2
INVARIANT
    RowMeansMembers
PROPERTIES
    ImplementsTaskGraph
    LaunchReturns
CHECK_DEADLOCK FALSE
