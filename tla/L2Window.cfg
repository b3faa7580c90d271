\* W = 2, every plan of the pipeline on two workers, groups of two and single-member rows.
SPECIFICATION FairSpec
CONSTANTS
    StageCount = 3
    Count <- Counts312
    Kappa <- Kappa2First
    Dependencies <- PipelineEdges
    Grid = 2
    PhysicalWorker <- Swapped
    StageOrder <- Forward
    BalancedOwners <- AllOwners
    EftTables <- AllTables
    ClusterDim = 1
    ClusterChunks <- NoChunks
    Window = 2
    Publications = {"count", "epoch"}
    EventSolo = TRUE
    MaxIterations = 2
INVARIANTS
    LiftingSound
    EventSound
    HeadProgress
PROPERTIES
    ImplementsTaskGraph
    LaunchCompletes
CHECK_DEADLOCK FALSE
