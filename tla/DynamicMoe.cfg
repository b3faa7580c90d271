\* Two workers, two launches on counters that are never cleared.
SPECIFICATION RoutedFairSpec
CONSTANTS
    StageCount = 4
    Count <- LayerCounts
    Kappa <- Kappa1
    Dependencies <- LayerEdges
    Worker <- Workers
    Expert = {1, 3}
    Ranges <- StrideRanges
    MaxIterations = 2
    Tokens = 3
    TopK = 2
    Experts = 3
    Routings <- LayerRoutings
    ChunkTokens = 2
    BlockRows = 3
    TileM = 2
    TilesN = 1
    TokenGroup = 2
    Dispatch = 0
    Down = 1
    Combine = 2
INVARIANTS
    ClaimsAreExact
    CombineReadsThisStep
    CountsMeetThresholds
PROPERTIES
    ImplementsTaskGraph
    LaunchReturns
CHECK_DEADLOCK FALSE
