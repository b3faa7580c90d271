\* Elided combine, every dense plan of two workers, a window of 2.
SPECIFICATION Spec
CONSTANTS
    StageCount = 4
    Count <- Counts1212
    Kappa <- Kappa1
    Dependencies <- SplitEdges
    Grid = 2
    PhysicalWorker <- Identity
    StageOrder <- Forward
    BalancedOwners <- NoOwners
    EftTables <- DenseTables
    ClusterDim = 1
    ClusterChunks <- NoChunks
    Window = 2
    Elided = {2}
INVARIANT
    LiftingSoundAsUploaded
CHECK_DEADLOCK FALSE
