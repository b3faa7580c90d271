\* The compiled forms, over requests that follow one another on the same counters.
SPECIFICATION FairSpec
CONSTANTS
    World = 2
    Grid = 2
    Layers = 2
    XTiles = 2
    QkvTiles = 2
    KvGroups = 1
    ActTiles = 1
    HeadTiles = 2
    PacketEpochs = 2
    QueueDepth = 1
    PromptLen = 2
    NewTokens <- TwoEach
    Builds <- ServedBuilds
INVARIANTS
    InputsCurrent
    RanksAgree
PROPERTY
    GenerationsComplete
CHECK_DEADLOCK FALSE
