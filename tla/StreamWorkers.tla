--------------------------- MODULE StreamWorkers ---------------------------
(***************************************************************************)
(* One configuration of the stream benchmark: stream_benchmark::run(config)*)
(* creates one worker thread per rank, joins them, copies their results    *)
(* and combines them; the workers run worker_thread::thunk.                *)
(*                                                                         *)
(* The main thread's steps are the iterations of its loops; a worker's     *)
(* steps are its accesses to what other threads see: its results_lock, the *)
(* barrier counter, and one element of the arrays at a time.               *)
(***************************************************************************)
EXTENDS Integers, Sequences, AccessPattern

CONSTANTS
    Parallelism,    \* problem::parallelism(), at least 1 by problem::allocate
    Iterations,     \* problem::iterations(); the warm-up round is added to it
    Sizes,          \* the values of the factor problem_size under test
    ProblemSizes,   \* worker_thread::problem_sizes, the compiled sizes
    IntMax,         \* INT_MAX, the largest value of the barrier counter
    JoinBatch       \* threads awaited by one call: 1, or MAXIMUM_WAIT_OBJECTS

ASSUME JobAssumption ==
    /\ Parallelism \in Nat \ {0}
    /\ Iterations \in Nat \ {0}
    /\ Sizes \subseteq Nat \ {0}
    /\ ProblemSizes \subseteq Nat \ {0}
    /\ IntMax \in Nat
    /\ JoinBatch \in Nat \ {0}

\* The counter starts at Parallelism and every worker adds one per round.
\* The assertion in synchronise only gives Parallelism * (Iterations + 1).
ASSUME CounterFits == Parallelism * (Iterations + 2) <= IntMax

Workers == 0 .. Parallelism - 1
Rounds == 0 .. Iterations

VARIABLES
    problem,        \* the access pattern and the problem size of the job
    main,           \* where stream_benchmark::run(config) is
    next,           \* the rank its current loop has reached
    alive,          \* do the worker_thread objects still exist?
    barrier,        \* the counter shared by the workers
    pc,             \* pc[w]: where worker w is in thunk
    iter,           \* iter[w]: the iteration of the loop in dispatch
    pos,            \* pos[w]: the loop counter of step<N>::apply
    results,        \* results[w]: what w's result vector holds
    lock,           \* lock[w]: is w's results_lock held by w?
    collected,      \* the local vector of collect_results
    combined        \* combined[i]: the entries that make row i of the result

mainVars == <<main, next, alive, collected, combined>>
vars == <<problem, main, next, alive, barrier, pc, iter, pos, results, lock,
          collected, combined>>

\* What an element of a result vector holds; "absent" before start sizes it.
Cells == {"absent", "zero", "accesses", "measured"}

Entries == [rank : Workers, round : 1 .. Iterations, value : Cells]

\* dispatch reaches the benchmark only if the size is one of the compiled ones.
Supported == problem.size \in ProblemSizes

Stride == Step(problem.pattern, Parallelism)
ElementOf(w) == Element(problem.pattern, problem.size, w, pos[w])

\* The 32-bit counter: an atomic increment wraps around.
Wrap(n) == IF n > IntMax THEN n - 2 * (IntMax + 1) ELSE n

Ended == main \in {"reported", "failed", "crashed"}

Init ==
    /\ problem \in [pattern : Patterns, size : Sizes]
    /\ main = "create"
    /\ next = 0
    /\ alive = TRUE
    /\ barrier = Parallelism
    /\ pc = [w \in Workers |-> "unborn"]
    /\ iter = [w \in Workers |-> 0]
    /\ pos = [w \in Workers |-> 0]
    /\ results = [w \in Workers |-> [i \in Rounds |-> "absent"]]
    /\ lock = [w \in Workers |-> FALSE]
    /\ collected = <<>>
    /\ combined = <<>>

-----------------------------------------------------------------------------
(* The main thread. *)

\* One more loop iteration of the main thread's phase `here`, or the next phase.
Advance(here, count, there) ==
    IF next + count < Parallelism
    THEN next' = next + count /\ main' = here
    ELSE next' = 0 /\ main' = there

\* worker_thread::start: size the results, then create the thread.
StartThread ==
    /\ main = "create"
    /\ pc' = [pc EXCEPT ![next] = "started"]
    /\ results' = [results EXCEPT ![next] = [i \in Rounds |-> "zero"]]
    /\ Advance("create", 1, "join")
    /\ UNCHANGED <<problem, alive, barrier, iter, pos, lock, collected, combined>>

\* start throws: the vector of workers is unwound while the threads of the
\* lower ranks are running.
StartFails ==
    /\ main = "create"
    /\ main' = "failed"
    /\ alive' = FALSE
    /\ UNCHANGED <<problem, next, barrier, pc, iter, pos, results, lock,
                   collected, combined>>

\* The ranks which one call of the thread library waits for.
Batch == {w \in Workers : next <= w /\ w < next + JoinBatch}

\* Variant: a join that does not wait.  The variants of this module are
\* plausible slips of the code; each breaks a property named in the README.
JoinNoWait ==
    /\ main = "join"
    /\ Advance("join", JoinBatch, "collect")
    /\ UNCHANGED <<problem, alive, barrier, pc, iter, pos, results, lock,
                   collected, combined>>

Join ==
    /\ main = "join"
    /\ \A w \in Batch : pc[w] = "done"
    /\ Advance("join", JoinBatch, "collect")
    /\ UNCHANGED <<problem, alive, barrier, pc, iter, pos, results, lock,
                   collected, combined>>

JoinFails ==
    /\ main = "join"
    /\ main' = "failed"
    /\ alive' = FALSE
    /\ UNCHANGED <<problem, next, barrier, pc, iter, pos, results, lock,
                   collected, combined>>

\* Variant: the warm-up round is copied and the last round is not.
CopiedWithWarmUp(w) ==
    [i \in 1 .. Iterations |->
        [rank |-> w, round |-> i - 1, value |-> results[w][i - 1]]]

\* copy_results, under the lock: all rounds but the warm-up.  An entry names the
\* rank and the round whose cell it is a copy of.
Copied(w) ==
    [i \in 1 .. Iterations |->
        [rank |-> w, round |-> i, value |-> results[w][i]]]

Collect ==
    /\ main = "collect"
    /\ ~lock[next]
    /\ collected' = collected \o Copied(next)
    /\ Advance("collect", 1, "combine")
    /\ UNCHANGED <<problem, alive, barrier, pc, iter, pos, results, lock, combined>>

\* Row i of the result reads the entry t * Iterations + i of every thread t.
\* On return the vector of workers goes out of scope.
Combine ==
    /\ main = "combine"
    /\ combined' = [i \in 0 .. Iterations - 1 |->
                       {collected[t * Iterations + i + 1] : t \in Workers}]
    /\ main' = "reported"
    /\ alive' = FALSE
    /\ UNCHANGED <<problem, next, barrier, pc, iter, pos, results, lock, collected>>

Main == StartThread \/ Join \/ Collect \/ Combine

-----------------------------------------------------------------------------
(* The worker threads. *)

\* thunk takes the lock and dispatches; an unknown size selects no benchmark.
Lock(w) ==
    /\ pc[w] = "started"
    /\ ~lock[w]
    /\ lock' = [lock EXCEPT ![w] = TRUE]
    /\ pc' = [pc EXCEPT ![w] = IF Supported THEN "arrive" ELSE "unlock"]
    /\ UNCHANGED <<problem, mainVars, barrier, iter, pos, results>>

\* Variant: the last arrival of a round resets the counter.
ArriveAndReset(w) ==
    /\ pc[w] = "arrive"
    /\ results' = [results EXCEPT ![w][iter[w]] = "accesses"]
    /\ barrier' = IF barrier + 1 < 2 * Parallelism THEN barrier + 1 ELSE 0
    /\ pc' = [pc EXCEPT ![w] = "spin"]
    /\ UNCHANGED <<problem, mainVars, iter, pos, lock>>

\* The accesses are recorded and the barrier counter is incremented.
Arrive(w) ==
    /\ pc[w] = "arrive"
    /\ results' = [results EXCEPT ![w][iter[w]] = "accesses"]
    /\ barrier' = Wrap(barrier + 1)
    /\ pc' = [pc EXCEPT ![w] = "spin"]
    /\ UNCHANGED <<problem, mainVars, iter, pos, lock>>

\* Variant: wait for all arrivals of the round, and for one more.
LeaveWhenExceeded(w) ==
    /\ pc[w] = "spin"
    /\ barrier - Parallelism * (iter[w] + 2) > 0
    /\ pos' = [pos EXCEPT ![w] = 0]
    /\ pc' = [pc EXCEPT ![w] = "apply"]
    /\ UNCHANGED <<problem, mainVars, barrier, iter, results, lock>>

\* while (barrier.load() - barrierId < 0); and then the timer starts.
Leave(w) ==
    /\ pc[w] = "spin"
    /\ barrier - iter[w] >= 0
    /\ pos' = [pos EXCEPT ![w] = 0]
    /\ pc' = [pc EXCEPT ![w] = "apply"]
    /\ UNCHANGED <<problem, mainVars, barrier, iter, results, lock>>

\* One iteration of the loop of step<N>::apply: a task on one element.
Apply(w) ==
    /\ pc[w] = "apply"
    /\ pos' = [pos EXCEPT ![w] = @ + Stride]
    /\ pc' = [pc EXCEPT ![w] = IF pos[w] + Stride < problem.size
                               THEN "apply" ELSE "stop"]
    /\ UNCHANGED <<problem, mainVars, barrier, iter, results, lock>>

\* Variant: one iteration too many.
StopTimerLate(w) ==
    /\ pc[w] = "stop"
    /\ results' = [results EXCEPT ![w][iter[w]] = "measured"]
    /\ iter' = [iter EXCEPT ![w] = @ + 1]
    /\ pc' = [pc EXCEPT ![w] = IF iter[w] <= Iterations THEN "arrive" ELSE "unlock"]
    /\ UNCHANGED <<problem, mainVars, barrier, pos, lock>>

\* The loop has ended: take the time, go on to the next iteration.
StopTimer(w) ==
    /\ pc[w] = "stop"
    /\ results' = [results EXCEPT ![w][iter[w]] = "measured"]
    /\ iter' = [iter EXCEPT ![w] = @ + 1]
    /\ pc' = [pc EXCEPT ![w] = IF iter[w] < Iterations THEN "arrive" ELSE "unlock"]
    /\ UNCHANGED <<problem, mainVars, barrier, pos, lock>>

Unlock(w) ==
    /\ pc[w] = "unlock"
    /\ lock' = [lock EXCEPT ![w] = FALSE]
    /\ pc' = [pc EXCEPT ![w] = "done"]
    /\ UNCHANGED <<problem, mainVars, barrier, iter, pos, results>>

Worker(w) ==
    /\ main # "crashed"
    /\ \/ Lock(w) \/ Arrive(w) \/ Leave(w) \/ Apply(w) \/ StopTimer(w) \/ Unlock(w)

\* A thread that uses its destroyed object goes on as if it were there (the
\* actions above), or the process dies.
UseAfterFree(w) ==
    /\ main = "failed"
    /\ pc[w] \notin {"unborn", "done"}
    /\ main' = "crashed"
    /\ UNCHANGED <<problem, next, alive, barrier, pc, iter, pos, results, lock,
                   collected, combined>>

Next ==
    \/ Main
    \/ StartFails
    \/ JoinFails
    \/ \E w \in Workers : Worker(w) \/ UseAfterFree(w)

\* The operating system schedules every thread; failures are never forced.
Fairness ==
    /\ WF_vars(Main)
    /\ \A w \in Workers : WF_vars(Worker(w))

Safety == Init /\ [][Next]_vars
Spec == Safety /\ Fairness

-----------------------------------------------------------------------------
(* Properties. *)

\* Every variable has its type.
TypeOK ==
    /\ problem \in [pattern : Patterns, size : Sizes]
    /\ main \in {"create", "join", "collect", "combine", "reported", "failed",
                 "crashed"}
    /\ next \in Workers
    /\ alive \in BOOLEAN
    /\ barrier \in -(IntMax + 1) .. IntMax
    /\ pc \in [Workers -> {"unborn", "started", "arrive", "spin", "apply",
                           "stop", "unlock", "done"}]
    /\ iter \in [Workers -> 0 .. Iterations + 1]
    /\ pos \in [Workers -> Nat]
    /\ results \in [Workers -> [Rounds -> Cells]]
    /\ lock \in [Workers -> BOOLEAN]
    /\ collected \in Seq(Entries)
    /\ \/ combined = <<>>
       \/ combined \in [0 .. Iterations - 1 -> SUBSET Entries]

\* Row i of the reported result combines the measurement of iteration i + 1 of
\* every thread and nothing else: no warm-up round, no round of another
\* iteration, no vector read before its thread had filled it.  With a problem
\* size that is not compiled in, what is combined are zeros.
RowsCombineTheirRound ==
    main = "reported" =>
        combined = [i \in 0 .. Iterations - 1 |->
                       {[rank |-> w, round |-> i + 1,
                         value |-> IF Supported THEN "measured" ELSE "zero"] :
                        w \in Workers}]

\* Two workers are never at the same element of the arrays, in whatever rounds
\* they are, and every element is one that problem::allocate has reserved: the
\* tasks of concurrent workers do not race on c.
NoSharedElements ==
    \A v \in Workers : pc[v] = "apply" =>
        /\ ElementOf(v) \in 0 .. Allocated(problem.size, Parallelism) - 1
        /\ \A w \in Workers \ {v} : pc[w] = "apply" => ElementOf(v) # ElementOf(w)

\* The rounds in which worker w has incremented the barrier counter.
Arrived(w) == {i \in Rounds : i < iter[w] \/ (i = iter[w] /\ pc[w] \in {"spin", "apply", "stop"})}

\* The counter never wraps and is never behind what a spinning worker waits
\* for: the loop in synchronise ends at its first test for every worker, so the
\* job cannot hang in it, whatever the order in which threads arrive.
NobodySpins ==
    /\ barrier >= Parallelism
    /\ \A w \in Workers : pc[w] = "spin" => barrier - iter[w] >= 0

\* As long as no call of the thread library failed, a worker_thread object is
\* destroyed only after its thread has ended.
ObjectsOutliveThreads ==
    ~alive /\ main = "reported" => \A w \in Workers : pc[w] = "done" /\ ~lock[w]

\* The caller gets an outcome, and all threads that were started end, unless
\* the process dies.
Termination ==
    <>[](Ended /\ (main = "crashed" \/ \A w \in Workers : pc[w] \in {"unborn", "done"}))

\* The comment on barrier_type: the barrier makes the workers access memory
\* simultaneously, that is, a worker is in the loop of round i only when all
\* workers have arrived in round i.
SimultaneousAccess ==
    \A w \in Workers : pc[w] = "apply" =>
        \A v \in Workers : iter[w] \in Arrived(v)

\* The comment on step: a worker processes N elements of each array per round,
\* N being the problem size.
WholeProblemProcessed ==
    \A w \in Workers : pc[w] = "stop" => pos[w] = problem.size * Stride

-----------------------------------------------------------------------------
(* The job that the workers and the main thread implement. *)

Job == INSTANCE StreamJob WITH
    Rounds <- Iterations + 1,
    required <- IF Supported THEN Iterations + 1 ELSE 0,
    done <- iter,
    outcome <- IF Ended THEN main ELSE "running"

\* A result is reported only after every worker has completed every round the
\* problem requires; only a failed job can crash.
ImplementsJob == Job!JobSpec
=============================================================================
