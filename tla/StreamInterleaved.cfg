\* stream_interleaved: does every worker process the whole problem per round?
SPECIFICATION Spec
CONSTANTS
    Parallelism = 3
    Iterations = 2
    Sizes = {2, 3, 4}
    ProblemSizes = {2, 4}
    IntMax = 12
    JoinBatch = 2
INVARIANT WholeProblemProcessed
CHECK_DEADLOCK FALSE
