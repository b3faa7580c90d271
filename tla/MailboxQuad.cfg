\* Four ranks, both slots used again with either parity.
SPECIFICATION FairSpec
CONSTANTS
    Ranks = 4
    Episodes = 5
    Pieces <- Uneven
INVARIANTS
    SumsThisEpisode
    SourceStable
PROPERTY
    EpisodesComplete
CHECK_DEADLOCK FALSE
