SPECIFICATION Spec
CONSTANTS
    Configs <- MCConfigs
    Frames = 2
    MaxRuns = 2
    Failures = {"stage", "rebuild", "copy", "signal", "register"}
INVARIANTS TypeOK PendingDrawsIntact NoDrawFromCpuSlot ReadySlotIsFound NoLostWakeup
PROPERTIES NextBatchReturns ImplementsPool
CHECK_DEADLOCK FALSE
