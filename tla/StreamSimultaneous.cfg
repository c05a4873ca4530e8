\* stream_simultaneous: does the barrier make the rounds of the workers overlap?
SPECIFICATION Spec
CONSTANTS
    Parallelism = 3
    Iterations = 2
    Sizes = {2, 3, 4}
    ProblemSizes = {2, 4}
    IntMax = 12
    JoinBatch = 2
INVARIANT SimultaneousAccess
CHECK_DEADLOCK FALSE
