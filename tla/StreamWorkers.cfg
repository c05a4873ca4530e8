\* stream_workers: three threads, two measured rounds.
SPECIFICATION Spec
CONSTANTS
    Parallelism = 3
    Iterations = 2
    Sizes = {2, 3, 4}
    ProblemSizes = {2, 4}
    IntMax = 12
    JoinBatch = 2
INVARIANTS
    TypeOK
    RowsCombineTheirRound
    NoSharedElements
    NobodySpins
    ObjectsOutliveThreads
PROPERTIES
    ImplementsJob
    Termination
CHECK_DEADLOCK FALSE
