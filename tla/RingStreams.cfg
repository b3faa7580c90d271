\* Warps that own their pages or share them, on a ring of two slots.
SPECIFICATION RingFairSpec
CONSTANTS
    Pages = 2
    Streams <- ThreeStreams
INVARIANT
    PageIntact
PROPERTY
    PagesAllRead
CHECK_DEADLOCK FALSE
