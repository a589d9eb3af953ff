SPECIFICATION Spec
CONSTANTS
    w1 = w1
    w2 = w2
    Writer = {w1, w2}
    MaxDraws = 3
    CommitTicks = 1
    StableFrames = 2
CHECK_DEADLOCK FALSE
PROPERTY LegacyPublishedComplete
