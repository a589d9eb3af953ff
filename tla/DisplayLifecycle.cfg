SPECIFICATION FairSpec
CHECK_DEADLOCK FALSE
INVARIANTS LitIsSafe ContainedIsOff
PROPERTIES NoDelayedLight FaultContainedUnlessBlanking
