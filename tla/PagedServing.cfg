\* Split attention and a gated expert stage, both roles of three workers.
SPECIFICATION PagedFairSpec
CONSTANTS
    StageCount = 6
    Count <- ServingCounts
    Kappa <- ServingKappa
    Dependencies <- ServingEdges
    Steps = 3
    Lag <- ServingLag
    Schedule <- ServingQueues
    Reducer <- ServingReducer
    Opaque <- ServingOpaque
    Pages <- ServingPages
    Ring = 2
    Ahead = 2
    Embedding = 0
    Argmax = 5
INVARIANTS
    HistoryWritten
    PrefetchesOwnStep
PROPERTIES
    ImplementsDecodeLoop
    LoopCompletes
CHECK_DEADLOCK FALSE
