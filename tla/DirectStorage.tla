--------------------------- MODULE DirectStorage ---------------------------
(***************************************************************************)
(* trrojan::d3d12::dstorage_sphere_benchmark: instead of copying a batch   *)
(* to its slot, the CPU thread requests DirectStorage to read it from the  *)
(* staged file, and lets the GPU wait for a second fence, which            *)
(* DirectStorage signals after the request.  The requests are collected    *)
(* and submitted together ("batches", "gdeflate") or one by one ("naive"). *)
(*                                                                         *)
(* DirectStorage itself is modelled by what this class relies on: nothing  *)
(* is read unless it is submitted, requests are read in any order, and a   *)
(* signal is given once all that was enqueued before it has been read.  A  *)
(* queue that is filling up may submit on its own.                         *)
(***************************************************************************)
EXTENDS SphereStreamingContext, StagingCache

CONSTANTS
    Setups,      \* the configurations with an implementation
    Frames,      \* bound: how often a phase repeats the frame, by implementation
    Followed,    \* bound: the phases that are followed, by implementation
    MaxRuns,     \* bound: how many runs are started
    Failures     \* the calls that may throw

Implementations == {"batches", "gdeflate", "naive"}

\* Prewarming, wall clock, GPU counters and pipeline statistics.
Phases == 1 .. 4

ASSUME DirectStorageAssumption ==
    /\ Setups \subseteq [config : Configs, implementation : Implementations]
    /\ Frames \in [Implementations -> Nat \ {0}]
    /\ Followed \in [Implementations -> (SUBSET Phases) \ {{}}]
    /\ MaxRuns \in Nat
    /\ Failures \subseteq {"stage", "rebuild", "open", "execute", "signal",
                           "register", "present"}

VARIABLES
    pc,              \* what the CPU does next
    setup,           \* _last_config
    runs,            \* how many runs have been started
    phase,           \* the phase of the run
    frame, batch,    \* what is being rendered: the batch `t` of a frame
    slot,            \* the slot `b` it is rendered from
    buffer,          \* buffer[b]: the data in slot b
    unregistered,    \* did a call of signal_done fail since the last rebuild?
    enqueued,        \* requests, with their signals, in the queue of this run
    submitted,       \* requests that DirectStorage may read
    read,            \* requests that it has read, but not yet signalled
    io_next,         \* _next_fence_value, the last one given to a signal
    io_completed,    \* io_completed[r]: the value of the fence of run r
    lost             \* history: requests that went with the queue of their run

cpuVars == <<pc, setup, runs, phase, frame, batch, slot, unregistered>>
ioVars == <<buffer, enqueued, submitted, read, io_next, io_completed, lost>>
vars == <<contextVars, stagingVars, cpuVars, ioVars>>

NoSetup == [config |-> [batch_count |-> 0, batch_size |-> 0, stride |-> 0,
                        spheres |-> 0],
            implementation |-> "none"]

\* What is in a slot is known by the request that has put it there.
NoData == [run |-> 0, request |-> 0]
DataOf(r) == [run |-> r.run, request |-> r.value]

\* The data of the last request: each request has a value of its own.
Data == [run |-> runs, request |-> io_next]

Init ==
    /\ ContextInit /\ StagingInit
    /\ pc = "idle" /\ setup = NoSetup /\ runs = 0
    /\ phase = 1 /\ frame = 0 /\ batch = 0 /\ slot = 0
    /\ buffer = <<>> /\ unregistered = FALSE
    /\ enqueued = {} /\ submitted = {} /\ read = {}
    /\ io_next = 0
    /\ io_completed = [r \in 1 .. MaxRuns |-> 0]
    /\ lost = {}

-----------------------------------------------------------------------------
(* The begin of a run: stage_data, reshape and check_stream_changed.        *)

Compressed(s) == s.implementation = "gdeflate"

First(p, phases) == p \in phases /\ \A q \in phases : p <= q

StartRun(s) ==
    /\ pc = "idle"
    /\ runs < MaxRuns
    /\ runs' = runs + 1
    /\ setup' = s
    /\ \E p \in Phases : First(p, Followed[s.implementation]) /\ phase' = p
    /\ frame' = 0 /\ batch' = 0
    /\ UNCHANGED <<slot, enqueued, submitted, read, io_next, io_completed, lost>>

\* The configuration with the properties of the data that have been staged.
Effective(s) ==
    LET f == Staged(s.config, Compressed(s))
    IN  [s.config EXCEPT !.stride = f.stride, !.spheres = f.spheres]

\* Variant: the size of the batches is not among these factors.
ChangedCount(s) == s.config.batch_count # setup.config.batch_count

\* The changed factors that require the context to be rebuilt.
Changed(s) == \/ s.config.batch_count # setup.config.batch_count
              \/ s.config.batch_size # setup.config.batch_size

RunFailsToStage(s) ==
    /\ "stage" \in Failures
    /\ StartRun(s)
    /\ StageFails(s.config, Compressed(s))
    /\ UNCHANGED <<contextVars, pc, buffer, unregistered>>

RunWithRebuild(s) ==
    /\ StartRun(s)
    /\ Stage(s.config, Compressed(s))
    /\ Effective(s).stride > 0
    /\ RebuildRequired(Effective(s), Changed(s))
    /\ Rebuild(Effective(s))
    /\ buffer' = [b \in 0 .. s.config.batch_count - 1 |-> NoData]
    /\ unregistered' = FALSE
    /\ pc' = "open"

\* A Direct3D call fails, or the cache knows nothing about the data, which
\* makes for an empty heap: then rebuild throws before it creates one.
RunFailsToRebuild(s) ==
    /\ StartRun(s)
    /\ Stage(s.config, Compressed(s))
    /\ RebuildRequired(Effective(s), Changed(s))
    /\ RebuildFails(Effective(s))
    /\ IF Effective(s).stride = 0 THEN built' = "no" ELSE "rebuild" \in Failures
    /\ UNCHANGED <<pc, buffer, unregistered>>

\* A context that has been built in part only crashes the run, as it does in
\* SphereStreaming.
RunWithoutRebuild(s) ==
    /\ StartRun(s)
    /\ Stage(s.config, Compressed(s))
    /\ ~RebuildRequired(Effective(s), Changed(s))
    /\ Reshape(Effective(s))
    /\ pc' = IF built = "half" THEN "crashed" ELSE "open"
    /\ UNCHANGED <<buffer, unregistered>>

\* An exception releases the queue of the run: what has not been submitted is
\* lost with it; what has been submitted may be lost, too.
Abandon ==
    /\ pc' = "idle"
    /\ enqueued' = {}
    /\ \/ UNCHANGED <<submitted, read>> /\ lost' = lost \cup enqueued
       \/ /\ submitted' = {} /\ read' = {}
          /\ lost' = lost \cup enqueued \cup submitted \cup read

\* OpenFile, CreateQueue and CreateFence.
Open ==
    /\ pc = "open"
    /\ io_next' = 0
    /\ pc' = "poll"
    /\ UNCHANGED <<contextVars, stagingVars, setup, runs, phase, frame, batch, slot,
                   unregistered, buffer, enqueued, submitted, read, io_completed, lost>>

OpenFails ==
    /\ "open" \in Failures
    /\ pc = "open"
    /\ pc' = "idle"
    /\ UNCHANGED <<contextVars, stagingVars, setup, runs, phase, frame, batch, slot,
                   unregistered, ioVars>>

-----------------------------------------------------------------------------
(* The loop over the batches: a slot for the next one.                      *)

Naive == setup.implementation = "naive"

\* try_next_batch scans the slots, whatever ready_count says.
TryNextBatch ==
    /\ pc = "poll" /\ ~Naive
    /\ \/ \E b \in DOMAIN fence_values :
              Take(b) /\ UNCHANGED event /\ slot' = b /\ pc' = "enqueue"
       \/ NextBatchNothing /\ UNCHANGED slot /\ pc' = "submit"
    /\ UNCHANGED <<stagingVars, setup, runs, phase, frame, batch, unregistered, ioVars>>

\* Variant: the requests are kept for later.
WaitUnsubmitted ==
    /\ pc = "submit"
    /\ NextBatchMustWait
    /\ pc' = "wait"
    /\ UNCHANGED <<contextVars, stagingVars, setup, runs, phase, frame, batch, slot,
                   unregistered, ioVars>>

\* There is no slot: the requests are submitted, and next_batch is called,
\* which has to wait because the scan has just set ready_count to 0.
SubmitAndWait ==
    /\ pc = "submit"
    /\ NextBatchMustWait
    /\ submitted' = submitted \cup enqueued
    /\ enqueued' = {}
    /\ pc' = "wait"
    /\ UNCHANGED <<contextVars, stagingVars, setup, runs, phase, frame, batch, slot,
                   unregistered, buffer, read, io_next, io_completed, lost>>

\* The naive implementation calls next_batch right away.
NextBatch ==
    /\ pc = "poll" /\ Naive
    /\ \/ /\ NextBatchMustWait
          /\ pc' = "wait"
          /\ UNCHANGED <<contextVars, slot>>
       \/ \E b \in DOMAIN fence_values :
              NextBatchReady(b) /\ slot' = b /\ pc' = "enqueue"
    /\ UNCHANGED <<stagingVars, setup, runs, phase, frame, batch, unregistered, ioVars>>

Wait ==
    /\ pc = "wait"
    /\ EventWait
    /\ pc' = "scan"
    /\ UNCHANGED <<stagingVars, setup, runs, phase, frame, batch, slot, unregistered, ioVars>>

Scan ==
    /\ pc = "scan"
    /\ \/ NextBatchNothing /\ pc' = "wait" /\ UNCHANGED slot
       \/ \E b \in DOMAIN fence_values :
              NextBatchRescan(b) /\ slot' = b /\ pc' = "enqueue"
    /\ UNCHANGED <<stagingVars, setup, runs, phase, frame, batch, unregistered, ioVars>>

-----------------------------------------------------------------------------
(* The loop over the batches: the request, the draw and the signals.        *)

LastBatch == batch + 1 >= shape.total_batches

\* Prewarming and counting submit before the last draw is executed, the other
\* phases after it.
SubmitsEarly == phase \in {1, 3}

\* The request in the making, if its signal is given the value.
Request(value) == [run |-> runs, value |-> value, slot |-> slot, fence |-> fence]

\* make_gdeflate_request reads behind the end of _batches.
BeyondBlocks ==
    setup.implementation = "gdeflate" /\ batch >= TotalBatches(file.spheres, file.block)

EnqueueAs(r) ==
    /\ pc = "enqueue" /\ ~BeyondBlocks
    /\ io_next' = io_next + 1
    /\ IF Naive \/ (LastBatch /\ SubmitsEarly)
       THEN submitted' = submitted \cup enqueued \cup {r} /\ enqueued' = {}
       ELSE enqueued' = enqueued \cup {r} /\ UNCHANGED submitted
    /\ pc' = "hold"
    /\ UNCHANGED <<contextVars, stagingVars, setup, runs, phase, frame, batch, slot,
                   unregistered, buffer, read, io_completed, lost>>

\* Variant: the signal has the value before the increment.
EnqueueTooLow == EnqueueAs(Request(io_next))

\* enqueue_request, enqueue_gdeflate_request and submit_request.
Enqueue == EnqueueAs(Request(io_next + 1))

\* The process is not followed further.
EnqueueCrashes ==
    /\ pc = "enqueue" /\ BeyondBlocks
    /\ pc' = "crashed"
    /\ UNCHANGED <<contextVars, stagingVars, setup, runs, phase, frame, batch, slot,
                   unregistered, ioVars>>

HoldFor(value) ==
    /\ pc = "hold"
    /\ queue' = Append(queue, [op |-> "wait", fence |-> runs, value |-> value])
    /\ pc' = "execute"
    /\ UNCHANGED <<shape, batch_count, built, fence, completed, fence_values,
                   ready_count, next_fence_value, event, armed, stagingVars, setup,
                   runs, phase, frame, batch, slot, unregistered, ioVars>>

\* Variant: the GPU waits for the request before.
HoldForPrevious == HoldFor(io_next - 1)

\* ID3D12CommandQueue::Wait
Hold == HoldFor(io_next)

\* close_and_execute_command_list
Draw ==
    /\ pc = "execute"
    /\ Execute(slot, Data)
    /\ pc' = "signal"
    /\ UNCHANGED <<stagingVars, setup, runs, phase, frame, batch, slot, unregistered, ioVars>>

DrawFails ==
    /\ "execute" \in Failures
    /\ pc = "execute"
    /\ Abandon
    /\ UNCHANGED <<contextVars, stagingVars, setup, runs, phase, frame, batch, slot,
                   unregistered, buffer, io_next, io_completed>>

Signal ==
    /\ pc = "signal"
    /\ SignalDone(slot)
    /\ pc' = "register"
    /\ UNCHANGED <<stagingVars, setup, runs, phase, frame, batch, slot, unregistered, ioVars>>

SignalFails ==
    /\ "signal" \in Failures
    /\ pc = "signal"
    /\ SignalDoneFails(slot)
    /\ unregistered' = TRUE
    /\ Abandon
    /\ UNCHANGED <<stagingVars, setup, runs, phase, frame, batch, slot, buffer,
                   io_next, io_completed>>

Register ==
    /\ pc = "register"
    /\ RegisterEvent
    /\ IF LastBatch THEN pc' = "present" /\ UNCHANGED batch
       ELSE pc' = "poll" /\ batch' = batch + 1
    /\ UNCHANGED <<stagingVars, setup, runs, phase, frame, slot, unregistered, ioVars>>

RegisterFails ==
    /\ "register" \in Failures
    /\ pc = "register"
    /\ unregistered' = TRUE
    /\ Abandon
    /\ UNCHANGED <<contextVars, stagingVars, setup, runs, phase, frame, batch, slot,
                   buffer, io_next, io_completed>>

-----------------------------------------------------------------------------
(* The end of a frame, of a phase and of a run.                             *)

FramesLeft == frame + 1 < Frames[setup.implementation]

\* Prewarming and the wall clock render the next frame at once; the counters
\* are evaluated after each frame, and the statistics are of one frame only.
NextFrame ==
    IF phase \in {1, 2} /\ FramesLeft
    THEN pc' = "poll" /\ frame' = frame + 1 /\ batch' = 0
    ELSE pc' = "drain" /\ UNCHANGED <<frame, batch>>

\* Variant: the requests are not submitted at the end of a frame.
PresentUnsubmitted ==
    /\ pc = "present"
    /\ NextFrame
    /\ UNCHANGED <<contextVars, stagingVars, setup, runs, phase, slot, unregistered, ioVars>>

\* Submit, where it has not been called before, and present_target.
Present ==
    /\ pc = "present"
    /\ IF Naive \/ SubmitsEarly THEN UNCHANGED <<enqueued, submitted>>
       ELSE submitted' = submitted \cup enqueued /\ enqueued' = {}
    /\ NextFrame
    /\ UNCHANGED <<contextVars, stagingVars, setup, runs, phase, slot, unregistered,
                   buffer, read, io_next, io_completed, lost>>

\* The requests have been submitted by then; closing the queue may still lose them.
PresentFails ==
    /\ "present" \in Failures
    /\ pc = "present"
    /\ pc' = "idle"
    /\ enqueued' = {}
    /\ \/ submitted' = submitted \cup enqueued /\ UNCHANGED <<read, lost>>
       \/ /\ submitted' = {} /\ read' = {}
          /\ lost' = lost \cup enqueued \cup submitted \cup read
    /\ UNCHANGED <<contextVars, stagingVars, setup, runs, phase, frame, batch, slot,
                   unregistered, buffer, io_next, io_completed>>

LaterPhases == {p \in Followed[setup.implementation] : phase < p}

\* wait_for_gpu returns; the counters of the next frame, the next phase or the
\* end of the run follow.
Drain ==
    /\ pc = "drain"
    /\ queue = <<>>
    /\ \/ /\ phase = 3 /\ FramesLeft
          /\ pc' = "poll" /\ frame' = frame + 1 /\ batch' = 0 /\ UNCHANGED phase
       \/ /\ ~(phase = 3 /\ FramesLeft)
          /\ \E p \in Phases : First(p, LaterPhases) /\ phase' = p
          /\ pc' = "poll" /\ frame' = 0 /\ batch' = 0
       \/ /\ ~(phase = 3 /\ FramesLeft)
          /\ LaterPhases = {}
          /\ pc' = "idle" /\ UNCHANGED <<phase, frame, batch>>
    /\ UNCHANGED <<contextVars, stagingVars, setup, runs, slot, unregistered, ioVars>>

-----------------------------------------------------------------------------
(* DirectStorage and the GPU.                                               *)

\* A request is read into its slot; one for a slot that a rebuild has discarded
\* does not disturb the new ones.
IoRead ==
    \E r \in submitted :
        /\ submitted' = submitted \ {r}
        /\ read' = read \cup {r}
        /\ buffer' = IF r.fence = fence THEN [buffer EXCEPT ![r.slot] = DataOf(r)]
                     ELSE buffer
        /\ UNCHANGED <<contextVars, stagingVars, cpuVars, enqueued, io_next,
                       io_completed, lost>>

\* The signal after r: what was enqueued before it has been read and signalled.
IoSignal ==
    \E r \in read :
        /\ \A q \in submitted \cup read : q.run = r.run => r.value <= q.value
        /\ read' = read \ {r}
        /\ io_completed' = [io_completed EXCEPT ![r.run] = r.value]
        /\ UNCHANGED <<contextVars, stagingVars, cpuVars, buffer, enqueued,
                       submitted, io_next, lost>>

\* The queue of DirectStorage is half full; how full it is is not modelled.
AutoSubmit ==
    /\ enqueued # {}
    /\ submitted' = submitted \cup enqueued
    /\ enqueued' = {}
    /\ UNCHANGED <<contextVars, stagingVars, cpuVars, buffer, read, io_next,
                   io_completed, lost>>

\* The GPU gets past a wait once the fence of that run has reached the value.
GpuWait ==
    /\ queue # <<>>
    /\ Head(queue).op = "wait"
    /\ Head(queue).value <= io_completed[Head(queue).fence]
    /\ queue' = Tail(queue)
    /\ UNCHANGED <<shape, batch_count, built, fence, completed, fence_values,
                   ready_count, next_fence_value, event, armed>>

Start == \E s \in Setups : \/ RunFailsToStage(s) \/ RunFailsToRebuild(s)
                           \/ RunWithRebuild(s) \/ RunWithoutRebuild(s)
Work == \/ Open \/ TryNextBatch \/ SubmitAndWait \/ NextBatch \/ Wait \/ Scan
        \/ Enqueue \/ EnqueueCrashes \/ Hold \/ Draw \/ Signal \/ Register
        \/ Present \/ Drain
Fail == OpenFails \/ DrawFails \/ SignalFails \/ RegisterFails \/ PresentFails
Io == IoRead \/ IoSignal
Gpu == (GpuDraw \/ GpuSignal \/ GpuWait) /\ UNCHANGED <<stagingVars, cpuVars, ioVars>>
Event == Notify /\ UNCHANGED <<stagingVars, cpuVars, ioVars>>

Next == Start \/ Work \/ Fail \/ Io \/ AutoSubmit \/ Gpu \/ Event

\* The thread, the GPU, Windows and DirectStorage do what they can do, but
\* nobody may rely on DirectStorage to submit on its own.
Fairness == WF_vars(Work) /\ WF_vars(Gpu) /\ WF_vars(Io) /\ WF_vars(Event)

Spec == Init /\ [][Next]_vars /\ Fairness
-----------------------------------------------------------------------------
(* Properties.                                                              *)

Requests == [run : 1 .. MaxRuns, value : Nat, slot : Nat, fence : Nat]
DataTags == [run : Nat, request : Nat]
Operations ==
    [op : {"draw"}, fence : Nat, slot : Nat, data : DataTags] \cup
    [op : {"signal"}, fence : Nat, value : Nat] \cup
    [op : {"wait"}, fence : 1 .. MaxRuns, value : Nat]
Entries == [complete : BOOLEAN, stride : Nat, spheres : Nat, block : Nat]
InLoop == pc \notin {"idle", "open", "crashed"}
HasSlot == pc \in {"enqueue", "hold", "execute", "signal", "register"}

\* The types of all variables; fence_values and buffer have an entry for each
\* slot if the context has been built, and requests are about such slots.
TypeOK ==
    /\ shape \in [batch_size : Nat, stride : Nat, total_spheres : Nat,
                  total_batches : Nat]
    /\ batch_count \in Nat
    /\ built \in {"no", "half", "yes"}
    /\ fence \in Nat /\ completed \in Nat
    /\ fence_values \in [DOMAIN buffer -> Nat \cup {Never}]
    /\ buffer \in [DOMAIN buffer -> DataTags]
    /\ DOMAIN buffer \subseteq Nat
    /\ built = "yes" => DOMAIN buffer = Slots
    /\ ready_count \in Nat /\ next_fence_value \in Nat
    /\ event \in BOOLEAN
    /\ armed \subseteq [fence : Nat, value : Nat]
    /\ queue \in Seq(Operations)
    /\ cache \in [DOMAIN cache -> Entries] /\ file \in Entries
    /\ pc \in {"idle", "open", "poll", "submit", "wait", "scan", "enqueue", "hold",
               "execute", "signal", "register", "present", "drain", "crashed"}
    /\ setup \in Setups \cup {NoSetup}
    /\ runs \in 0 .. MaxRuns /\ phase \in Phases
    /\ frame \in Nat /\ batch \in Nat /\ slot \in Nat
    /\ unregistered \in BOOLEAN
    /\ enqueued \subseteq Requests /\ submitted \subseteq Requests
    /\ read \subseteq Requests /\ lost \subseteq Requests
    /\ \A r \in enqueued \cup submitted : r.fence = fence => r.slot \in DOMAIN buffer
    /\ io_next \in Nat /\ io_completed \in [1 .. MaxRuns -> Nat]
    /\ pc \notin {"idle", "crashed"} => built = "yes"
    /\ HasSlot => slot \in Slots

\* When the GPU comes to a draw, the slot holds the batch that was requested
\* for it ("Make command queue wait for I/O before rendering.").
DrawReadsItsBatch ==
    queue # <<>> =>
        (Head(queue).op = "draw" /\ Head(queue).fence = fence
            => buffer[Head(queue).slot] = Head(queue).data)

\* No batch is read into a slot from which another one has still to be drawn,
\* also not by a request of a run that has been abandoned.
NoWriteUnderDraw ==
    \A r \in enqueued \cup submitted : \A i \in 1 .. Len(queue) :
        queue[i].op = "draw" /\ queue[i].fence = fence
                /\ r.fence = fence /\ r.slot = queue[i].slot
            => queue[i].data = DataOf(r)

\* The GPU does not wait for a value that nobody is going to signal, but for
\* what an exception has made DirectStorage forget.
Outstanding == enqueued \cup submitted \cup read
EveryWaitIsAnswered ==
    \A i \in 1 .. Len(queue) : queue[i].op = "wait" =>
        \/ queue[i].value <= io_completed[queue[i].fence]
        \/ \E r \in Outstanding \cup lost :
               r.run = queue[i].fence /\ r.value = queue[i].value

\* Whoever waits, for a slot or for the GPU, can go on or is waiting for somebody who
\* can: Windows, the GPU, or DirectStorage with what has been submitted.  The CPU
\* waits for slots, the GPU for requests, and DirectStorage for the CPU to submit.
CpuGoesOn == IF pc = "wait" THEN event ELSE queue = <<>>
EventIsDue == \E a \in armed : a.fence = fence /\ a.value <= completed
GpuGoesOn ==
    /\ queue # <<>>
    /\ Head(queue).op = "wait" => Head(queue).value <= io_completed[Head(queue).fence]
IoGoesOn ==
    \/ submitted # {}
    \/ \E r \in read : \A q \in read : q.run = r.run => r.value <= q.value
NobodyIsStuck ==
    /\ pc \in {"wait", "drain"} /\ lost = {}
    /\ pc = "wait" => ~unregistered /\ \E b \in DOMAIN fence_values : fence_values[b] # Never
    => CpuGoesOn \/ EventIsDue \/ GpuGoesOn \/ IoGoesOn

\* A run comes to its end: the CPU does not wait for slots that the GPU can only
\* give back after requests the CPU has not submitted.  Where a call has failed
\* before, the GPU or next_batch may wait forever.
RunEnds ==
    pc \notin {"idle", "crashed"} ~>
        \/ pc \in {"idle", "crashed"}
        \/ lost # {}
        \/ unregistered
        \/ \A b \in DOMAIN fence_values : fence_values[b] = Never

\* The context is a slot pool for this benchmark, too.
Owner == [b \in DOMAIN fence_values |->
             IF fence_values[b] = Never THEN "cpu"
             ELSE IF fence_values[b] <= completed THEN "free" ELSE "gpu"]
Pool == INSTANCE SlotPool WITH owner <- Owner
ImplementsPool == Pool!PoolSpec

\* With GDeflate, a request decompresses one block of the staged file into one
\* slot of the context, so the blocks must be as large as the batches for which the
\* context has been built: check_stream_changed "checks whether the stream and any
\* derived GPU resources [...] need to be adjusted to match the given
\* configuration" (dstorage_sphere_benchmark.h), and the size of the blocks is that
\* of the configuration (stage_data).
BlocksAreBatches ==
    InLoop /\ setup.implementation = "gdeflate" => file.block = shape.batch_size

\* Without a staging that failed, blocks and slots do fit: the file comes from a
\* cache that other configurations have filled, and the context from the last run
\* that had to rebuild it.  An entry whose staging has failed stays in the cache,
\* so the condition is that there has been no such failure, ever.
NothingFailedToStage == \A k \in DOMAIN cache : cache[k].complete
BlocksAreBatchesIfStaged == NothingFailedToStage => BlocksAreBatches

\* A file whose staging has failed is never streamed, although the cache has an
\* entry for it, and what is streamed is the data set of the configuration.
OnlyCompleteFilesStreamed ==
    InLoop => /\ file.complete
              /\ file.spheres = setup.config.spheres
              /\ file.stride = setup.config.stride
=============================================================================
