SPECIFICATION Spec
CONSTANTS
    Sampler = sampler
    Callbacks = {}
    MaxScopes = 2
    MaxSamples = 1
INVARIANT DisabledDiscardsSamples
CHECK_DEADLOCK FALSE
