SPECIFICATION FairSpec
CONSTANTS
    Len = 3
    MaxCalls = 3
INVARIANTS
    TypeOK
    LatestRequestWins
    AnchorDescribesPlayback
    SettledViewIsCurrent
PROPERTIES
    AskedIsShown
    PlaybackEnds
