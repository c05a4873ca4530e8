# TLA+ models of TRRojan

TRRojan is a benchmarking framework for GPUs and memory: plugins contribute
benchmarks, an executive enumerates the configurations that a TRROLL script
asks for, runs a benchmark for each of them and writes the results. This project
models the parts whose errors would not be visible as errors but as wrong
measurements: the worker threads of the memory benchmark, the pool of GPU
buffers through which the Direct3D 12 benchmarks stream data, with and without
DirectStorage, the collector of
power samples, and the executive with its enumeration of configurations.

    tlc -config StreamWorkers.cfg StreamWorkers.tla
    tlapm StreamWorkersProofs.tla
    tlc -config DirectStorage.cfg MCDirectStorage.tla
    tlapm DirectStorageProofs.tla

`PROJECT.json` names every run with its properties, the source lines of every
definition, the hazards of the code, the findings and the theorems. All paths
below are relative to the repository.

## 1. Inventory

| component | state | operations | how it interacts |
|---|---|---|---|
| stream benchmark (`src/trrojanstream`) | worker threads with their results and locks, one shared barrier counter, three arrays | `worker_thread::create`, `join`, `thunk`, `dispatch`, `synchronise`, `collect_results` | threads share counter and arrays; the main thread reads results under a lock |
| sphere streaming context (`src/trrojand3d12/.../sphere_streaming_context.*`) | buffers, one fence value per buffer, the count of ready buffers, a fence, an event | `reshape`, `rebuild`, `next_batch`, `try_next_batch`, `signal_done` | called by the streaming benchmarks; the GPU signals the fence, Windows sets the event |
| sphere streaming benchmark (`sphere_streaming_benchmark.*`) | the context, the last configuration, the staged file | `on_run`, `stage_data`, `check_stream_changed` | called by the executive; an exception abandons a run, the object lives on |
| power collector (`src/trrojancore/src/power_collector.cpp`) | description, buffer, log file, flags, lock | `start`, `stop`, `set_description`, `sample`, `on_measurement` | the benchmark's thread, a sampler thread and threads of sensor libraries |
| DirectStorage sphere benchmark (`dstorage_sphere_benchmark.*`) | the context, request queue, staging fence | `run_batches`, `run_gdeflate`, `run_naive`, `enqueue_request`, `submit_request` | the graphics queue waits for the fence of DirectStorage, the CPU for that of the graphics queue |
| configurations (`configuration_set.cpp`, `factor*.cpp`) | an ordered list of factors | `add_factor`, `merge`, `optimise_order`, `foreach_configuration` | the executive merges defaults and script, benchmarks enumerate |
| executive and benchmark runs (`executive.cpp`, `benchmark.cpp`) | loaded plugins, current environment, devices | `run`, `trroll`, `enable_environment`, `prepare_env_devs` | activates environments, calls benchmarks, passes results to an output |
| TRROLL parser | none | `parse`, `tokenise` | feeds the executive |
| results and output | a file or stream | `operator <<` | called for each result |
| staging cache (`random_sphere_cache.*`, `stage_data`, `staging_key.cpp`, `gdeflate.cpp`) | a map from factors to temporary files and what is known about them | `get`, `put`, `gdeflate_compress` | lives as long as the benchmark; used by the streaming benchmarks at the begin of a run |
| sphere generator, data readers | none | `create`, `read` | used by the sphere benchmarks |
| Direct3D 12 infrastructure (render targets, timers, statistics) | query heaps, swap chain | thin wrappers of Direct3D calls | used by the Direct3D 12 benchmarks |
| Direct3D 11, OpenCL, system information, UWP, command line | little | sequential | - |

What is hard about these, and what would make it correct:

* **Stream benchmark.** Workers run through their rounds at their own pace; the
  barrier is a counter that only grows. A worker must not wait forever, workers
  in different rounds must not write to the same element, and row *i* of a
  result must combine round *i* of every thread. Starting or joining a thread
  may fail when others are running already.
* **Streaming context.** A slot has to be reused as early as possible, never
  too early. Whether it may be is derived from a stored fence value, a counter
  of ready slots that is remembered between calls, and an auto-reset event that
  serves all fence values. None of these is exact; together they must be. The
  context also outlives runs that ended with an exception.
* **Streaming benchmark.** Decides what has to be rebuilt from the difference
  between the last and the current configuration; failures come in between.
* **Power collector.** Samples that were taken before a scope was left must not
  be written with the description of the next one; stopping must wait for
  whoever is in the buffer, because it writes the rest without the lock.
* **Configurations and executive.** One thread, but a protocol with many calls
  that may throw: environments share the hardware and must be active one at a
  time, the list of benchmarks must belong to the current plugin, and a set of
  factors is replaced, merged, reordered and decoded into configurations by four
  pieces of code that must fit together.
* **DirectStorage.** Three actors that wait for each other: the CPU for a slot,
  the GPU for data, DirectStorage for a submission. Nobody checks anything; a
  draw reads the right batch, and a batch is not overwritten, only because of the
  values of two fences. The requests of a run that ended with an exception may
  still be read while the next run uses the same slots.
* **Staging cache.** The entry is made before the file is written, and staging
  may fail in between; the number of blocks of a compressed file and the number
  of batches of the context are computed at different times.

Not modelled: formatting and reading of files, kernels and shaders, queries of
hardware information, user interfaces. They are sequential and what could be
wrong with them is the content of strings or numbers that a test compares
better. Direct3D 11 and OpenCL render with the immediate context and blocking
enqueues, that is, without concurrency of their own.

## 2. Modules

| module | models | extends / instantiates |
|---|---|---|
| `AccessPattern` | how ranks share the arrays: `access_pattern.h`, the loop of `step<N>` | |
| `StreamWorkers` | `stream_benchmark::run(config)` and `worker_thread` | `AccessPattern`; `StreamJob` as its abstract specification |
| `StreamJob` | what a job promises: all rounds are done before a result is reported | |
| `BatchLayout` | how spheres are split into batches | |
| `SphereStreamingContext` | `sphere_streaming_context`, with the queue, fence and event it relies on | `BatchLayout` |
| `SphereStreaming` | `on_run` of the streaming benchmark, the GPU and the event, composed with the context | `SphereStreamingContext`; `SlotPool` as its abstract specification |
| `SlotPool` | what the context promises: free, CPU, GPU, free | |
| `MCSphereStreaming` | configurations for TLC | `SphereStreaming` |
| `StagingCache` | `stage_data` with its cache and keys, what `gdeflate_compress` leaves behind | |
| `DirectStorage` | `on_run` of the DirectStorage benchmark, DirectStorage itself, the GPU and the event, composed with context and cache | `SphereStreamingContext`, `StagingCache`; `SlotPool` as its abstract specification |
| `MCDirectStorage` | setups for TLC | `DirectStorage` |
| `PowerCollector` | `power_collector` and the power scopes of `benchmark.cpp` | |
| `ConfigurationSet` | `configuration_set` | |
| `Executive` | `executive::trroll`, `run`, `prepare_env_devs`, `enable_environment`, `~executive`, and `benchmark_base::run` | `ConfigurationSet` |
| `MCExecutive` | scripts, plugins, environments and devices for TLC | `Executive` |
| `AccessPatternProofs`, `StreamWorkersProofs`, `BatchLayoutProofs`, `SphereStreamingProofs`, `DirectStorageProofs`, `PowerCollectorProofs`, `ConfigurationSetProofs`, `ExecutiveProofs` | theorems and proofs | the module they are about, and the proofs of the modules it extends where they are used: `StreamWorkersProofs` those of `AccessPattern`, `SphereStreamingProofs` those of `BatchLayout`, `ExecutiveProofs` those of `ConfigurationSet` |

### Stream workers

The main thread's actions are the iterations of its loops (`StartThread`,
`Join`, `Collect`, `Combine`) and the failures of the thread library
(`StartFails`, `JoinFails`). A worker takes its results lock, and then, per
round, arrives at the barrier, leaves it, applies its task to one element after
another, and takes the time. `JoinBatch` covers both joins of the code:
`MAXIMUM_WAIT_OBJECTS` handles at a time on Windows, one thread at a time
elsewhere. The barrier counter has a width (`IntMax`) and wraps.

When starting or joining fails, the vector of workers is destroyed under running
threads. Using a destroyed object is undefined: the thread goes on, or the
process dies (`UseAfterFree`).

Left out: the values in the arrays and the times, the compile-time dispatch over
scalar and task types, thread affinity.

### Streaming context and benchmark

The context's operations are operators of `SphereStreamingContext`, and
`SphereStreaming` makes actions of them, with the program counter of `on_run`
between any two calls that the GPU or Windows can overtake: `next_batch` is
`Poll`, `Wait` and `Scan`; `signal_done` is `Signal` and `Register`, because the
GPU may reach the value in between. The queue is in order; a registered event
may be set any time after its value was reached (`Notify`) and merges with
others, since it is one auto-reset event.

Failures may come from staging, from `rebuild`, from copying the data, from
`Signal` and from `SetEventOnCompletion`. An exception leaves `on_run` without
`wait_for_gpu`; the next run starts with whatever is in the queue. A rebuild
that failed after the first heap leaves a context that the next run takes for a
complete one; it is followed up to its first use (`pc = "crashed"`).

Decisions of abstraction:

* `on_run` renders frames in several phases (prewarming, wall clock, counters,
  statistics), all with the same loop and a wait for the GPU at their end. A
  phase is a run with an unchanged configuration.
* The data of each batch are a value that is unique to run, frame and batch, so
  that overwriting is always noticed, even where the code would write the same
  data again.
* The data of `rebuild_required` that do not vary (device, `repeat_frame`) are
  the same in all configurations; `batch_count` is positive; the device is not
  removed. Failures of `create_command_allocators` after a successful rebuild
  and of `configure_camera` after `reshape` are not modelled.
* The scan of `try_next_batch` is that of `next_batch`; it has no caller in this
  benchmark, only in `DirectStorage`.
* If several registrations can be answered, their events are set in the order of
  their values (`Notify`). The event is one for all and does not tell by which
  value it was set, so the order is not observable.

### DirectStorage and staging

`StagingCache` has the operators of `stage_data`. What a file contains is known
by the shape of its data set and the size of its compressed blocks; `file` is
what the benchmark believes about the file in use (`_path`, `_batches`, the
properties of `_data`), which for the entry of a failed staging is a default
(`NewEntry`). The other factors of the key (copies, folder, `force_float`) are
the same in all configurations.

`DirectStorage` has one set of actions for `run_batches`, `run_gdeflate` and
`run_naive`, whose loops differ in how a slot is asked for (`TryNextBatch` and
`SubmitAndWait` against `NextBatch`) and in when requests are submitted. These
in turn differ in the four phases of a run: prewarming and the GPU counters submit
before the last draw is executed, the wall clock and the statistics after it
(`SubmitsEarly`, `Present`). The two fences are `fence`/`completed` of the
context and `io_completed`, of which each run has its own (`Open` begins again
with 0). The program counter stops wherever another actor can overtake:
after the request (`Enqueue`), the wait (`Hold`), the draw, the signal and the
registration.

DirectStorage is modelled by what this class relies on: nothing is read before
it has been submitted, requests are read in any order (`IoRead`), a signal is
given when everything enqueued before it has been read (`IoSignal`), and a queue
that is filling up may submit on its own at any time (`AutoSubmit`). Enqueueing a
request and its signal is one step, since no other thread uses the queue.

Decisions of abstraction:

* The data of a request are identified by its run and its value, so that two
  requests never have the same data even if the code reads the same bytes.
* `Followed` names the phases that are followed and `Frames` how often a phase
  repeats its frame. Repeating the prewarming with other counts is the
  same loop again.
* An exception releases the queue of the run (`Abandon`): what has not been submitted is
  lost. Whether closing the queue also drops what has been submitted is not
  documented, so both may happen. `lost` remembers it.
* A request into a buffer that a rebuild has released is read, but disturbs
  nothing: the new slots are other buffers. Likewise, the GPU goes on waiting for the
  fence of a run that is over, although `CreateFence` then replaces the pointer.
* If the number of batches is stale (finding 3), GDeflate reads the sizes of
  blocks that do not exist; the process is not followed further
  (`EnqueueCrashes`). A context that was built in part is treated in the same way.
* Failures of `reshape` and `configure_camera` are not modelled, nor is that a
  failure of `create_command_allocators` leaves the allocators empty for a run
  that does not rebuild.
* `gdeflate_compress` is one step. Its threads draw blocks from a counter that is
  not initialised (`gdeflate.cpp:63`, C++17); that the counter starts with
  0, which recent standard libraries make it do, is assumed.

### Power collector

`set_description` is `SetCollecting` and `FlushThenDescribe`, under the lock;
`stop` is `Stop`, `Unregister`, `Join`, `FlushRest`. The sampler and the
callbacks test `_is_collecting` (`Check`), take the lock (`Lock`) and store their
sample (`Push`). A sample is a record of who took it and which description was
valid when it was stored; what is measured and how it is written is left out.
`StartFails` is an exception in `start`, after `_is_running` has been set.

Two remarks on the sources. `unregister`ing a callback is assumed to wait for
one that is running: that is a property of the sensor library, outside of the
repository. And `enter_power_scope` and `leave_power_scope`
(`src/trrojancore/src/benchmark.cpp:183-229`) name variables that do not exist
(`powerCollector`, `powerUid`) when `TRROJAN_WITH_POWER_OVERWHELMING` is defined;
they are modelled by their evident intent: a new description when a scope is
entered, the empty one when it is left.

### Configurations and executive

`ConfigurationSet` has one operator for each operation of the class; a set is a
sequence of factors, a factor is a name and its manifestations. `Executive` has
the nested loops of the program as its `main`: the sections of the script in the
order of the two stable sorts, the environments, the devices and the
configurations of `foreach_configuration`. Its variables are the locals of these
loops: `plugin` and `benchmarks` of `trroll`, `configs`, `eds`, `env` and
`devices` of `run`, `set`, `index` and `completed` of `benchmark_base::run`.
What is not known beforehand is which calls throw: `on_activate` (`PrepareFails`,
`RunFails`), which ends the program through `~executive`, and a benchmark
(`MeasureFails`), which ends the configurations of its device.

Names are numbers or strings whose order alone matters, a result is which
configuration it is for. What a benchmark is, is its defaults, the factors its
`optimise_order` names and the devices it can run on. Left out: loading plugins,
`cool_down`, the system factors, and exceptions of `on_deactivate`. On UWP, the
Direct3D environments drop their devices when they are deactivated and do not
get them back; devices are values in the model, so this is not visible in it.
`check_required_factors` is left out because it never finds anything
(`benchmark.cpp:251` tests the length of the name).

## 3. Runs

| run | what it asks |
|---|---|
| `stream_workers` | Do the workers and the main thread implement the abstract job, whatever fails? `RowsCombineTheirRound`, `NoSharedElements`, `NobodySpins`, `ObjectsOutliveThreads`, `ImplementsJob`, `Termination` |
| `stream_simultaneous` | Does the barrier make rounds overlap? It does not (finding 1) |
| `stream_interleaved` | Does a worker process the whole problem in a round? Not with the interleaved pattern (finding 2) |
| `streaming` | Is the context a slot pool, for a benchmark that fails anywhere and runs again? `PendingDrawsIntact`, `NoDrawFromCpuSlot`, `ReadySlotIsFound`, `NoLostWakeup`, `NextBatchReturns`, `ImplementsPool` |
| `streaming_reshape` | Are all spheres of another data set rendered? Not always (finding 3) |
| `streaming_in_flight` | Is nothing in flight when the context is rebuilt? Not after an exception (finding 5) |
| `direct_storage` | Do CPU, GPU and DirectStorage keep to each other's data, and does none wait for another forever? `DrawReadsItsBatch`, `NoWriteUnderDraw`, `EveryWaitIsAnswered`, `NobodyIsStuck`, `BlocksAreBatchesIfStaged`, `OnlyCompleteFilesStreamed`, `RunEnds`, `ImplementsPool` |
| `direct_storage_blocks` | Are compressed blocks as large as the slots they are read into after a staging has failed? Not always (finding 4) |
| `power_collector` | Is each sample written with its description, by nobody else's leave, and does stopping work? `LinesKeepDescription`, `BufferIsExclusive`, `StoppedForGood`, `OneLateSampleEach`, `StopReturns` |
| `power_late_sample` | Are samples discarded while no description is set? Not one that was being taken (finding 6) |
| `executive` | Is the right environment active, the right benchmark chosen, and every combination measured once? `OnlyCurrentIsActive`, `DeactivatedFirst`, `BenchmarkOfSection`, `CreatedOnce`, `EveryCombinationMeasured`, `SessionEnds` |
| `switching` | Is a data set loaded only once while the configurations are enumerated? Not with the default methods (finding 7) |

Every module has definitions marked *Variant*: a slip of the code that would be
plausible, such as a slot marked with the fence value before the increment. With
the variant in place of the definition below it, TLC finds the property of the
run that `PROJECT.json` lists for it violated; this is how we know that the
property says something about the code.

### Bounds

* `stream_workers`: three threads, so that one can overtake one and be overtaken
  by another; a warm-up and two measured rounds, so that threads can be two
  rounds apart and rows can be confused; `JoinBatch = 2`, so that the last batch
  of handles is not full; sizes 2 and 4, which are compiled in, and 3, which is
  not; `IntMax = 12` is exactly what the counter reaches, so that it would wrap
  one step later.
* `streaming`: one or two slots, one or two batches per frame, two frames
  between waits and two runs, so that every slot is reused within a frame, from
  frame to frame and after an abandoned run; the configurations differ in the
  batches (rebuild), in the stride alone (reshape discards the heaps) or not at
  all (reuse). `Frames` and `MaxRuns` bound counters that the code bounds by the
  configuration and by the script.
* The two violated streaming properties need two data sets or two batch sizes,
  which are their configurations. `direct_storage_blocks` needs three runs: one
  that builds the context, one with another batch size that fails to stage, and
  one with that size again; two runs, as in `direct_storage`, are not enough for it.
* `direct_storage`: two runs of any two of four setups, which contain each
  implementation and each phase: three batches in two slots (the requests of a
  full pool have to be submitted, and the last one at the end of the frame), three
  batches in one slot, and two data sets that are compressed with different
  batch sizes. The second run follows a complete one or one abandoned at any
  call, with the same slots or others, so that requests and draws of both runs
  meet. The `naive` setup goes through three phases and repeats its frame; `batches`
  is followed in the wall clock, which submits late, and `gdeflate` in prewarming,
  which submits early. (Nothing in the loops of the first two differs
  but the block of the file.) 531,048 distinct states.
* `power_collector`: two scopes, one sampler and two callbacks, four samples:
  each thread can be late for a scope and one more sample can be in the buffer.
* `executive`: two scripts of four and six sections, with plugins that are not
  loaded before, between and after others, a benchmark,
  an environment and a device that do not exist, an environment without devices, a script that asks
  for the empty environment by asking for none; up to twelve configurations of
  factors with one to three manifestations, given in different orders. `Benchmarks`
  has a benchmark that cannot run without a device; `ContinueAt = 1` skips a
  configuration. All lengths are those of the scripts.
* The runs do not check for deadlock because the systems stop: the job ends, the
  runs are used up, the collector is stopped, the script has been run. That none stops early is what the
  liveness properties say, and `NobodyIsStuck` and `NoLostWakeup` say of the states
  in which somebody waits.

### Fairness

Every thread of the program is scheduled by the operating system (weak fairness
of each thread's steps). The GPU works through its queue, and Windows sets an
event registered for a value that has been reached (`Gpu`, `Event`). Starting a
run, entering a scope, taking a sample, ending the program and all failures are
never forced. The lock of the power collector is not fair, but the number of
samples is bounded, as it is in effect by the sampling interval.

The executive has one thread, which goes on, and every call returns or throws.

DirectStorage reads and signals what has been submitted (`Io`). `AutoSubmit` has
no fairness: when DirectStorage submits on its own depends on the capacity of its
queue, and `RunEnds` says that the benchmark does not need it.

`NextBatchReturns` has two exceptions, both from the code: a slot that was
handed out in an abandoned run is never returned, and when the last one is lost
`next_batch` waits forever, as the comment on `signal_done` warns; and if
`Signal` or `SetEventOnCompletion` failed, nobody sets the event. `RunEnds` has
the same two and a third: requests that were lost in an exception after
`ID3D12CommandQueue::Wait` block the graphics queue for every later run.

## 4. Findings

1. `worker_thread::synchronise` never waits (`worker_thread.cpp:202`), since the
   counter starts at `parallelism` and the loop compares it with the round; the
   comment promises simultaneous memory access (`worker_thread.h:112`). The
   safety of the benchmark does not depend on it, which `stream_workers` shows.
2. With the interleaved access pattern, a worker processes one in `parallelism`
   of its elements (`worker_thread.h:278`), while the reported rate counts all.
   `WholeProblemNeedsUnitStride` gives the exact extent: a round is complete if and
   only if the stride is 1 or there is only one element, and thus always with the
   contiguous pattern (`ContiguousProcessesWholeProblem`).
3. `reshape` keeps the number of batches of the previous data set
   (`sphere_streaming_context.cpp:346`). Nothing else goes wrong: with the number
   of the current data set the frame is whole (`FrameIsWholeAfterRebuild`), and it
   always is if all data sets have the same size (`FrameIsWholeForOneSize`).
4. A changed batch size is forgotten when the run that should have applied it
   fails before it does (`benchmark.inl:43`). The streaming benchmark then renders
   batches of the old size. With GDeflate it is worse, and this is what the run shows: the
   file comes from `stage_data` with blocks of the new size, and
   `make_gdeflate_request` reads each of them into a slot of the old one
   (`dstorage_sphere_benchmark.cpp:248`). Both need a failure of staging; those of
   `rebuild` and in the loops are not enough (`BatchSizeHoldsWithoutStagingFailure`
   and `BlocksFitUnlessStagingFailed`).
5. An abandoned run leaves draws in the queue, and `rebuild` assumes there are
   none (`sphere_streaming_context.cpp:322`). It needs an exception in the loop over
   the batches (`NothingInFlightWithoutFailure`).
6. A sample may be stored after the empty description has been set and is
   then written with it (`power_collector.cpp:324`). It is at most one round of
   samples per thread, the one the thread was taking (`OneLateSample`).
7. `optimise_order` places the expensive factors last among those of the script
   (`configuration_set.cpp:125`), where they change slowest, but the defaults are
   appended behind them later (`benchmark.cpp:128`): with the default methods of
   the sphere benchmarks, all data sets are loaded again for each method. Without
   the defaults behind them the order is right (`OrderMinimisesSwitching`). The
   comment in `configuration_set.h:114-125` moreover says that the factors go to
   the beginning and that those change least often; the code has both reversed.

## 5. Theorems

The theorems hold for all values of the constants that satisfy the assumptions,
which TLC evaluates in every run:

* `JobAssumption`, `ConfigsAssumption`, `StreamingAssumption`,
  `DirectStorageAssumption`, `CollectorAssumption`: types of the constants; counts
  and sizes are positive.
* `CounterFits` is one round more than the assertion in
  `synchronise` gives, because the counter starts at `parallelism` instead of 0;
  with only what is asserted, the counter may wrap in the last round.
* `ScriptAssumption`, `BenchmarkAssumption`: the factors of a script and the
  defaults of a benchmark are configuration sets, that is, names and
  manifestations occur once. `add_factor` sees to the names; that the manifestations of
  a factor are different is what `factor::size` is said to count
  (`src/trrojancore/include/trrojan/factor.h:141`), but nobody checks it: a script
  that lists a value twice measures it twice. The names given to `optimise_order` are constants in the
  code and different.
* `EnvironmentAssumption`: environments are the keys of a map, and each lists a
  device once.

* **Access pattern.** `RanksDisjoint`: ranks share no element; `RanksInBounds`:
  they stay in the arrays; `ContiguousCoversArrays`: with contiguous access they
  leave nothing out. All three are arithmetic on multiples.
* **Stream workers.** The inductive invariant `IInv` has a part for each
  question: which phases of main thread and workers fit together (`join` has
  reached `next`, so all ranks below have ended); that the cell of a round is
  `measured` once the worker is past it, and zero before; that the barrier counter is
  `Parallelism` plus the arrivals of all workers, which needs the sum over
  workers and its bound; and that position `t * Iterations + i` of the collected
  vector holds round `i` of thread `t`. From it follow `TypeCorrect`,
  `BarrierNeverBlocks`, `NoRacesOnArrays` (with `RanksDisjoint`),
  `ResultsAreComplete`, `ObjectsAreJoined` and `WorkersImplementJob`. `RoundInv`
  adds with how many steps of its stride a worker comes to the end of a round
  (`RoundsEndAtProblemSize`), from which the extent of finding 2 follows.
* **Batches.** `BatchesCoverSpheres` and `BatchesAreDisjoint`: the batches of a
  layout are a partition of the spheres it was computed for. Finding 3 is thus
  not in the arithmetic but in the layout being that of another data set.
* **Streaming.** `NoBatchOverwritten` is not inductive, because it does not say
  why a slot that looks reusable is: `IInv` adds that signals are queued in
  increasing order and above the completed value, that no signal in front of a
  pending draw releases the draw's slot and the value its slot waits for has not
  been reached (unless the slot is still the CPU's), and that `ready_count` never exceeds the reusable slots. The
  last is what `NextBatchFindsSlot` needs, and it holds since slots only
  become reusable behind the scan's back, never the reverse.
  `ContextIsSlotPool` maps every step to a step of `SlotPool` or a stutter.
  `WaitersAreWoken` is about the event. `WakeInv` says in which way the
  approximate pieces make up for each other: either `ready_count` is exact, or what
  has become reusable since the last scan has set the event or is registered and
  reached; and what is not yet reusable has a signal in the queue and a registration. The one
  exception is the value that `signal_done` has signalled but not registered, which
  the registration itself makes good (`Register`). The theorem needs that
  `signal_done` has never failed since the last rebuild, and that not all slots have been lost to abandoned
  runs; TLC finds it wrong without either.
  The theorems for findings 3 to 5 take the failure or the variety of
  configurations away that the finding needs, and show that what is left is correct.
* **DirectStorage.** `NoWriteUnderDraw` needs to know for which slots a write
  can be pending (`WriteInv`: only where a draw is pending, too, or the slot is
  still marked as the CPU's) and that none is pending for the slot the CPU has just
  been given (`CpuWriteInv`); that in turn needs what `ContextInv` says of the fence values,
  as in the streaming benchmark. `DrawReadsItsBatch` follows
  because in front of each draw there is a wait for its request or the request
  has been signalled (`HeldInv`), signals come in the order of the values
  (`ValueInv`, `OrderInv`), and data that are not in their slot have a request that
  was not yet read or was lost (`DataInv`), whose signal thus cannot have been
  given (`LostInv`: what is lost comes after everything else of its run).
  `WaitsAreAnswered` is the same argument for the waits. `NoDeadlock` puts both
  kinds of waiting together: the GPU waits for requests that have been submitted,
  since the CPU never waits with requests of its own (`WaitingInv`), DirectStorage
  can always read or signal one of what has been submitted (the signal of the smallest value, so here the
  natural numbers being well-founded is used), and when the GPU has nothing
  left, the CPU's slot has been signalled and the event is set or due (`WakeInv` as above). `StreamsCompleteFiles`
  follows from `CacheInv`: entries are complete and fit their key or are
  as `put` made them, and the latter never get as far as the loop, since heaps
  exist only for data sets that are not empty. The blocks are thus always those of the
  configuration, and whether they fit the slots depends on the context:
  `BlocksFitUnlessStagingFailed` has as its condition that nothing in the cache is
  incomplete, that is, that no staging has failed yet (entries stay), and
  `SizeInv` says that until then the context has the batch size of the last
  configuration. Without the condition this is wrong (finding 4). `ContextIsSlotPool` as above.
* **Power collector.** `SamplesAreAttributed`, `NoRaceOnBuffer`,
  `StopIsComplete` and `OneLateSample`, for any number of callback threads. `IInv`
  says that what is in the buffer carries the current description and where the
  other threads can be in each phase of `stop`. For `OneLateSample`, `LateInv` adds
  that `_is_collecting` follows the description except within `set_description`,
  and that under the empty description a thread with a sample in the buffer is not
  taking another.
* **Configurations.** `EnumerationIsComplete` and `ConfigurationsDiffer`: decoding
  the numbers below the product of the sizes gives every combination, and each
  once. A combination is made from its digits, one factor after the other
  (`EveryChoiceIsMade`), and the number is recovered from the last digit down
  (`ChoicesDiffer`). `OptimiseOrderPermutes`: the loop of `optimise_order` keeps all factors
  and ends with the ones it has found in the promised order, although each swap
  displaces whatever is in its way; the invariant of the loop is that the last `n` places hold
  the first `n` names (`ArePlaced`), so what is swapped away is never one of them.
  `OrderMinimisesSwitching` combines both: in the enumeration of what
  `optimise_order` returns, the first factor it found goes through its manifestations
  once. The induction theorems of the library take an operator and cannot
  be used; `Induction` and `Recursion` prove what is needed of them from the
  natural numbers being well-founded, with a set or a function in place of the
  operator.
* **Executive.** `CurrentIsActive` and `NoneFinalisedWhileActive` follow from
  `Activation`, which adds that the current environment is active as long as the
  stack is not unwound: that is what lets `enable_environment` skip
  `on_activate` when the environment does not change. `RunByItsPlugin` follows
  from `Selection`: the list of benchmarks may be that of another plugin only
  while the current one is null. `BenchmarksCreatedOnce` needs that the sections
  of a plugin are neighbours: the jobs are totally ordered, the rank of a job is
  the number of those before it, ranks are different and thus all taken
  (`EveryPlaceIsTaken`), so plugins never descend (`SectionsAreGrouped`). If a
  plugin that has been selected for an earlier section comes again, it is the one
  of the section before, and `Selected` says that it is still current.
  `AllCombinationsMeasured` takes three parts, `Counted`: nothing is visited
  twice (`VisitedOnce`: environments are asked for once each and leave the list when they
  are entered); there are no results yet for what is still to be visited (`Visited`);
  and the results for the current device are the configurations enumerated so far, from
  `ContinueAt` on, once each (`Measured`). At the end of the enumeration the
  theorems on configurations turn the numbers of the results into combinations.
  `TypesAreKept` carries along (`Shape`) that the factors are a configuration set
  after being replaced, merged and ordered, which both need.

Only model-checked: what relies on fairness (`Termination`, `NextBatchReturns`,
`RunEnds`, `StopReturns`, `SessionEnds` and the liveness part of
`ImplementsJob`). For two of them the theorems have the safety part, that no state
is reached in which nobody can help the one who waits: `WaitersAreWoken` and
`NoDeadlock`. All other properties of the passing runs are theorems.

## 6. Plan and what is not modelled

Done: 1. stream workers, 2. streaming context and benchmark, 3. power collector,
4. configurations and benchmark runs, 5. executive, 6. DirectStorage, 7. staging
cache, each with its abstract specification where it has one, and its proofs;
8. theorems that tell the causes of findings 2 to 5 and 7 apart from what is correct.

Open:

9. The views of the staged file over several runs: what is copied is the
   requested part of the file of this run.
10. The threads of `gdeflate_compress`: each block is compressed by one thread
    and none is left out.

Modelled, but no property says more about it than that the others hold all the
same: jobs whose start or join has failed (`UseAfterFree`), a power scope that a
benchmark has left by an exception without `leave_power_scope`, and the deactivation
of an environment whose activation has failed. That the counter of the barrier
does not wrap is an assumption (`CounterFits`).

Not modelled:

* How the streaming benchmark reads a batch from the staged file (the methods in
  `sphere_streaming_benchmark.cpp:175-378`: from memory, through views of the file, with
  `ReadFile`, through DirectStorage into memory): one step (`Copy`) in
  `SphereStreaming`, because each waits for its data before it returns. Two
  things in them deserve a model of their own: `batch_memory_mapping` keeps its view
  (234) when the next run opens another file (`open_staged_file` resets the mapping and the
  file, not the view), and `ReadFile` at the end of the file makes its loop
  endless (285).
* Most of the repository by size is code of others (CImg, the OpenCL and Direct3D
  headers, the tables of shader techniques) or sequential: parsers, output
  formats, the volume and sphere renderers of Direct3D 11 and OpenCL, queries of
  hardware. `PROJECT.json` lists these components with the reason for each.
* `check_required_factors` never reports anything: it compares the length of the
  factor's name (`src/trrojancore/src/benchmark.cpp:251`). A factor that is missing
  makes the run throw, which `MeasureFails` covers.
