SPECIFICATION Spec
CONSTANTS
    Configs <- MCDataSets
    Frames = 1
    MaxRuns = 2
    Failures = {}
INVARIANT WholeFrameRendered
CHECK_DEADLOCK FALSE
