SPECIFICATION Spec
CONSTANTS
    Sampler = sampler
    Callbacks = {c1, c2}
    MaxScopes = 2
    MaxSamples = 4
INVARIANTS TypeOK LinesKeepDescription BufferIsExclusive StoppedForGood OneLateSampleEach
PROPERTIES StopReturns
CHECK_DEADLOCK FALSE
