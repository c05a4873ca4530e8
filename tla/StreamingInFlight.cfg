SPECIFICATION Spec
CONSTANTS
    Configs <- MCBatchSizes
    Frames = 1
    MaxRuns = 2
    Failures = {"copy"}
PROPERTY NothingInFlight
CHECK_DEADLOCK FALSE
