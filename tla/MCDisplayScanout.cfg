SPECIFICATION FairSpec
CONSTANTS
    w1 = w1
    w2 = w2
    Writer = {w1, w2}
    MaxDraws = 2
    CommitTicks = 1
    StableFrames = 2
CHECK_DEADLOCK FALSE
INVARIANTS NoTearing RevealShowsAll TornDownIsQuiet
PROPERTIES NeverRegresses PublishedComplete StrokesShown ImplementsOwnership
