-------------------------- MODULE SphereStreaming --------------------------
(***************************************************************************)
(* trrojan::d3d12::sphere_streaming_benchmark: one CPU thread that streams *)
(* the batches of every frame through the slots of the context, and the    *)
(* GPU that draws them.  The benchmark object, and with it the context,    *)
(* lives on when a run is abandoned because of an exception: benchmark_base*)
(* logs it, and the executive goes on to the next section of the script.   *)
(*                                                                         *)
(* There is one device.  The phases of on_run (prewarming, wall clock, GPU *)
(* counters, pipeline statistics) render frames in the same way and end    *)
(* with wait_for_gpu; a phase is modelled as a run of its own, which       *)
(* differs from the next phase in nothing if the configuration is the same.*)
(***************************************************************************)
EXTENDS SphereStreamingContext

CONSTANTS
    Frames,      \* bound: the frames rendered between two waits for the GPU
    MaxRuns,     \* bound: how many runs are started
    Failures     \* the calls that may throw: "stage", "rebuild", "copy",
                 \* "signal", "register"

ASSUME StreamingAssumption ==
    /\ Frames \in Nat \ {0}
    /\ MaxRuns \in Nat
    /\ Failures \subseteq {"stage", "rebuild", "copy", "signal", "register"}

VARIABLES
    pc,              \* what the CPU does next
    config,          \* _last_config
    runs,            \* how many runs have been started
    frame, batch,    \* what is being rendered: the batch `t` of a frame
    slot,            \* the slot `b` it is rendered from
    buffer,          \* buffer[b]: the data in slot b
    unregistered     \* did a call of signal_done fail since the last rebuild?

clientVars == <<pc, config, runs, frame, batch, slot, buffer, unregistered>>
vars == <<contextVars, clientVars>>

NoConfig == [batch_count |-> 0, batch_size |-> 0, stride |-> 0, spheres |-> 0]
NoData == [run |-> 0, frame |-> 0, batch |-> 0]

\* The data of the current batch.
Data == [run |-> runs, frame |-> frame, batch |-> batch]

Init ==
    /\ ContextInit
    /\ pc = "idle"
    /\ config = NoConfig
    /\ runs = 0
    /\ frame = 0 /\ batch = 0 /\ slot = 0
    /\ buffer = <<>>
    /\ unregistered = FALSE

-----------------------------------------------------------------------------
(* The begin of a run: check_changed_factors, stage_data, reshape and       *)
(* check_stream_changed.                                                    *)

StartRun(c) ==
    /\ pc = "idle"
    /\ runs < MaxRuns
    /\ runs' = runs + 1
    /\ config' = c

\* check_changed_factors, for the factors of rebuild_required that vary here;
\* the device and repeat_frame are the same in all configurations.
Changed(c) == c.batch_count # config.batch_count \/ c.batch_size # config.batch_size

\* stage_data throws; the configuration has been recorded as the last one.
StageFails(c) ==
    /\ "stage" \in Failures
    /\ StartRun(c)
    /\ UNCHANGED <<contextVars, pc, frame, batch, slot, buffer, unregistered>>

RunWithRebuild(c) ==
    /\ StartRun(c)
    /\ RebuildRequired(c, Changed(c))
    /\ Rebuild(c)
    /\ buffer' = [b \in 0 .. c.batch_count - 1 |-> NoData]
    /\ unregistered' = FALSE
    /\ pc' = "poll" /\ frame' = 0 /\ batch' = 0
    /\ UNCHANGED slot

RunFailsToRebuild(c) ==
    /\ "rebuild" \in Failures
    /\ StartRun(c)
    /\ RebuildRequired(c, Changed(c))
    /\ RebuildFails(c)
    /\ UNCHANGED <<pc, frame, batch, slot, buffer, unregistered>>

\* What the context holds already is used.  If it has been built in part only,
\* next_batch goes through a null fence or the copy through a null pointer: the
\* process is not followed further.
RunWithoutRebuild(c) ==
    /\ StartRun(c)
    /\ ~RebuildRequired(c, Changed(c))
    /\ Reshape(c)
    /\ pc' = IF built = "half" THEN "crashed" ELSE "poll"
    /\ frame' = 0 /\ batch' = 0
    /\ UNCHANGED <<slot, buffer, unregistered>>

-----------------------------------------------------------------------------
(* The loop over frames and batches.                                        *)

\* next_batch, as far as it goes without waiting.
Poll ==
    /\ pc = "poll"
    /\ \/ /\ NextBatchMustWait
          /\ pc' = "wait"
          /\ UNCHANGED <<contextVars, slot>>
       \/ \E b \in DOMAIN fence_values :
              NextBatchReady(b) /\ slot' = b /\ pc' = "copy"
    /\ UNCHANGED <<config, runs, frame, batch, buffer, unregistered>>

Wait ==
    /\ pc = "wait"
    /\ EventWait
    /\ pc' = "scan"
    /\ UNCHANGED <<config, runs, frame, batch, slot, buffer, unregistered>>

Scan ==
    /\ pc = "scan"
    /\ \/ NextBatchNothing /\ pc' = "wait" /\ UNCHANGED slot
       \/ \E b \in DOMAIN fence_values :
              NextBatchRescan(b) /\ slot' = b /\ pc' = "copy"
    /\ UNCHANGED <<config, runs, frame, batch, buffer, unregistered>>

\* copy_data
Copy ==
    /\ pc = "copy"
    /\ buffer' = [buffer EXCEPT ![slot] = Data]
    /\ pc' = "execute"
    /\ UNCHANGED <<contextVars, config, runs, frame, batch, slot, unregistered>>

\* An exception leaves the run; nobody gives the slot back or waits for the GPU.
CopyFails ==
    /\ "copy" \in Failures
    /\ pc = "copy"
    /\ pc' = "idle"
    /\ UNCHANGED <<contextVars, config, runs, frame, batch, slot, buffer,
                   unregistered>>

\* close_and_execute_command_list
Submit ==
    /\ pc = "execute"
    /\ Execute(slot, buffer[slot])
    /\ pc' = "signal"
    /\ UNCHANGED <<config, runs, frame, batch, slot, buffer, unregistered>>

Signal ==
    /\ pc = "signal"
    /\ SignalDone(slot)
    /\ pc' = "register"
    /\ UNCHANGED <<config, runs, frame, batch, slot, buffer, unregistered>>

SignalFails ==
    /\ "signal" \in Failures
    /\ pc = "signal"
    /\ SignalDoneFails(slot)
    /\ unregistered' = TRUE
    /\ pc' = "idle"
    /\ UNCHANGED <<config, runs, frame, batch, slot, buffer>>

\* The next batch is that of this frame or the first one of the next frame.
NextBatch ==
    IF batch + 1 < shape.total_batches
    THEN batch' = batch + 1 /\ pc' = "poll" /\ UNCHANGED frame
    ELSE IF frame + 1 < Frames
         THEN batch' = 0 /\ frame' = frame + 1 /\ pc' = "poll"
         ELSE pc' = "drain" /\ UNCHANGED <<batch, frame>>

Register ==
    /\ pc = "register"
    /\ RegisterEvent
    /\ NextBatch
    /\ UNCHANGED <<config, runs, slot, buffer, unregistered>>

RegisterFails ==
    /\ "register" \in Failures
    /\ pc = "register"
    /\ unregistered' = TRUE
    /\ pc' = "idle"
    /\ UNCHANGED <<contextVars, config, runs, frame, batch, slot, buffer>>

\* wait_for_gpu returns once the queue has been executed up to its own signal.
Drain ==
    /\ pc = "drain"
    /\ queue = <<>>
    /\ pc' = "idle"
    /\ UNCHANGED <<contextVars, config, runs, frame, batch, slot, buffer,
                   unregistered>>

Gpu == (GpuDraw \/ GpuSignal) /\ UNCHANGED clientVars
Event == Notify /\ UNCHANGED clientVars

Start == \E c \in Configs : \/ StageFails(c) \/ RunFailsToRebuild(c)
                            \/ RunWithRebuild(c) \/ RunWithoutRebuild(c)
Work == Poll \/ Wait \/ Scan \/ Copy \/ Submit \/ Signal \/ Register \/ Drain
Fail == CopyFails \/ SignalFails \/ RegisterFails

Next == Start \/ Work \/ Fail \/ Gpu \/ Event

\* Nothing in the program lasts forever on its own: the thread goes on unless
\* it waits, the GPU works through its queue, and Windows sets the event.
Fairness == WF_vars(Work) /\ WF_vars(Gpu) /\ WF_vars(Event)

Spec == Init /\ [][Next]_vars /\ Fairness
-----------------------------------------------------------------------------
(* Properties.                                                              *)

Operations ==
    [op : {"draw"}, fence : Nat, slot : Nat,
     data : [run : Nat, frame : Nat, batch : Nat]] \cup
    [op : {"signal"}, fence : Nat, value : Nat]

\* The types of all variables; fence_values and buffer have an entry for each
\* slot if the context has been built.
TypeOK ==
    /\ shape \in [batch_size : Nat, stride : Nat, total_spheres : Nat,
                  total_batches : Nat]
    /\ batch_count \in Nat
    /\ built \in {"no", "half", "yes"}
    /\ fence \in Nat /\ completed \in Nat
    /\ fence_values \in [DOMAIN buffer -> Nat \cup {Never}]
    /\ buffer \in [DOMAIN buffer -> [run : Nat, frame : Nat, batch : Nat]]
    /\ DOMAIN buffer \subseteq Nat
    /\ built = "yes" => DOMAIN buffer = Slots
    /\ ready_count \in Nat /\ next_fence_value \in Nat
    /\ event \in BOOLEAN
    /\ armed \subseteq [fence : Nat, value : Nat]
    /\ queue \in Seq(Operations)
    /\ pc \in {"idle", "poll", "wait", "scan", "copy", "execute", "signal",
               "register", "drain", "crashed"}
    /\ config \in Configs \cup {NoConfig}
    /\ runs \in Nat /\ frame \in Nat /\ batch \in Nat /\ slot \in Nat
    /\ unregistered \in BOOLEAN
    /\ pc \notin {"idle", "crashed"} => built = "yes"
    /\ pc \in {"copy", "execute", "signal", "register"} => slot \in Slots

\* A batch that the GPU has still to draw is still in its slot: it has not been
\* overwritten with another one (sphere_streaming_context.h, signal_done: the
\* slot is free for reuse once the GPU is past the fence).  Draws that are left
\* over from before a rebuild read memory that has been released, see
\* NothingInFlight.
PendingDrawsIntact ==
    \A i \in 1 .. Len(queue) :
        queue[i].op = "draw" /\ queue[i].fence = fence
            => queue[i].data = buffer[queue[i].slot]

\* While a slot belongs to the CPU, which resets its command allocator and maps
\* new data into it, the GPU does not have to draw from it ("List must have been
\* completed at this point", sphere_streaming_benchmark.inl).
NoDrawFromCpuSlot ==
    pc \in {"copy", "execute"} =>
        \A i \in 1 .. Len(queue) :
            queue[i].op = "draw" /\ queue[i].fence = fence => queue[i].slot # slot

\* If a slot is counted as ready, the scan of next_batch finds one; otherwise
\* the index it returns would be that of no slot.
ReadySlotIsFound == ready_count >= 1 /\ built = "yes" => Reusable # {}

\* The thread that waits in next_batch gets a slot, unless every slot has been
\* leaked or a signal has failed: then it hangs, as the header warns.
NextBatchReturns ==
    pc = "wait" ~> \/ pc \notin {"wait", "scan"}
                   \/ unregistered
                   \/ \A b \in DOMAIN fence_values : fence_values[b] = Never

\* The thread that waits in next_batch is not forgotten: the event is set, or a
\* value is registered for which it will be set, because the fence has reached it or
\* because its signal is in the queue.  One event serves all values and waiting
\* resets it, whatever slots have become reusable meanwhile.
NoLostWakeup ==
    pc = "wait" /\ ~unregistered /\ (\E b \in DOMAIN fence_values : fence_values[b] # Never) =>
        \/ event
        \/ \E a \in armed : /\ a.fence = fence
                            /\ \/ a.value <= completed
                               \/ \E i \in 1 .. Len(queue) :
                                      /\ queue[i].op = "signal" /\ queue[i].fence = fence
                                      /\ queue[i].value = a.value

\* The context is a slot pool: a slot is handed out only while it is free, and
\* is free again only when the GPU has passed the fence value signalled for it.
Owner == [b \in DOMAIN fence_values |->
             IF fence_values[b] = Never THEN "cpu"
             ELSE IF fence_values[b] <= completed THEN "free" ELSE "gpu"]
Pool == INSTANCE SlotPool WITH owner <- Owner
ImplementsPool == Pool!PoolSpec

\* "the total number of batches that need to be rendered for streaming a whole
\* frame given the current configuration" (sphere_streaming_context.h): the
\* batches of a frame are all spheres of the data set.
WholeFrameRendered ==
    pc \notin {"idle", "crashed"} =>
        UNION {BatchSpheres(shape.total_batches, shape.total_spheres,
                            shape.batch_size, t) :
               t \in 0 .. shape.total_batches - 1} = 0 .. config.spheres - 1

\* The factor batch_size "determines how many particles are rendered at once"
\* (sphere_streaming_context.h).
BatchSizeIsConfigured ==
    pc \notin {"idle", "crashed"} => shape.batch_size = config.batch_size

\* "We also assume that nothing is in flight while we are asked to rebuild the
\* context" (sphere_streaming_context.cpp).
NothingInFlight == [][fence' # fence => queue = <<>>]_vars
=============================================================================
