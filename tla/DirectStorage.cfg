SPECIFICATION Spec
CONSTANTS
    Configs <- MCConfigs
    Setups <- MCSetups
    Followed <- MCFollowed
    Frames <- MCFrames
    MaxRuns = 2
    Failures = {"stage", "rebuild", "open", "execute", "signal", "register", "present"}
INVARIANTS TypeOK DrawReadsItsBatch NoWriteUnderDraw EveryWaitIsAnswered NobodyIsStuck
           BlocksAreBatchesIfStaged OnlyCompleteFilesStreamed
PROPERTIES RunEnds ImplementsPool
CHECK_DEADLOCK FALSE
