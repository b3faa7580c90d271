\* An elided merge and a spread stage on four CTAs, in every build.
SPECIFICATION FairSpec
CONSTANTS
    StageCount = 3
    Count <- CountsMerge
    Kappa <- Kappa1
    Dependencies <- MergeEdges
    Grid = 4
    Builds <- ShippedBuilds
    PlacedBlock <- Reversed
    GemmStages = {2}
    SpreadHead = {2}
    AttentionHeads <- MergeHeads
    HandoffReduce <- MergeReduce
    Producers <- MergeProducers
    MaxSteps = 2
    MaxIterations = 3
INVARIANTS
    StagesDoNotOverlap
    NoTrap
PROPERTIES
    ImplementsTaskGraph
    LaunchReturns
