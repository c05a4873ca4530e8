SPECIFICATION Spec
CONSTANTS
    Configs <- MCConfigs
    Setups <- MCStale
    Followed <- MCFollowed
    Frames <- MCFrames
    MaxRuns = 3
    Failures = {"stage"}
INVARIANT BlocksAreBatches
CHECK_DEADLOCK FALSE
