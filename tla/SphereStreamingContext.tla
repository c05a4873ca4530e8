----------------------- MODULE SphereStreamingContext -----------------------
(***************************************************************************)
(* trrojan::d3d12::sphere_streaming_context: a pool of GPU buffers (slots) *)
(* for streaming batches of spheres, the fence that tells which slots the  *)
(* GPU has finished with, and the event on which the CPU waits for it.     *)
(*                                                                         *)
(* The command queue, the fence and the event belong to Direct3D and to    *)
(* Windows; they are modelled by what this class relies on: the queue is   *)
(* executed in order, a fence value is visible before the event registered *)
(* for it is set, and a wait resets the event.                             *)
(***************************************************************************)
EXTENDS Integers, Sequences, FiniteSets, BatchLayout

CONSTANT Configs    \* configurations: [batch_count, batch_size, stride, spheres]

ASSUME ConfigsAssumption ==
    Configs \subseteq [batch_count : Nat \ {0}, batch_size : Nat \ {0},
                       stride : Nat \ {0}, spheres : Nat \ {0}]

VARIABLES
    shape,              \* _batch_size, _stride, _total_spheres, _total_batches
    batch_count,        \* the size of _buffers
    built,              \* "no": _heaps is empty; "half": it is not, but a
                        \* buffer, a mapping or the fence is missing; "yes"
    fence,              \* counts the fence objects; the last one is in use
    completed,          \* the value of that fence
    fence_values,       \* fence_values[b]: when slot b becomes reusable
    ready_count,        \* how many slots are known to be reusable
    next_fence_value,   \* the last value given to a signal
    event,              \* the auto-reset event
    armed,              \* fence values for which the event will be set
    queue               \* what the GPU has still to execute, in order

contextVars == <<shape, batch_count, built, fence, completed, fence_values,
                 ready_count, next_fence_value, event, armed, queue>>

\* Stands for UINT64_MAX: a value that the fence does not reach.
Never == -1

Slots == 0 .. batch_count - 1

ContextInit ==
    /\ shape = [batch_size |-> 0, stride |-> 0, total_spheres |-> 0,
                total_batches |-> 0]
    /\ batch_count = 0
    /\ built = "no"
    /\ fence = 0
    /\ completed = 0
    /\ fence_values = <<>>
    /\ ready_count = 0
    /\ next_fence_value = 0
    /\ event = FALSE
    /\ armed = {}
    /\ queue = <<>>

-----------------------------------------------------------------------------
(* reshape and rebuild. *)

\* reshape(spheres, stride): another stride discards the heaps.
ReshapeDiscards(c) == shape.stride # c.stride

\* rebuild_required, after reshape; `changed` tells whether the number or the
\* size of the batches differ from the previous configuration.
RebuildRequired(c, changed) == changed \/ built = "no" \/ ReshapeDiscards(c)

\* Variant: the fence values are reset, but there are as many as before.
RebuildWithoutResize(c) ==
    /\ shape' = [batch_size |-> c.batch_size, stride |-> c.stride,
                 total_spheres |-> c.spheres,
                 total_batches |-> TotalBatches(c.spheres, c.batch_size)]
    /\ batch_count' = c.batch_count
    /\ built' = "yes"
    /\ fence' = fence + 1
    /\ completed' = 0
    /\ fence_values' = [b \in DOMAIN fence_values |-> 0]
    /\ ready_count' = c.batch_count
    /\ next_fence_value' = 0
    /\ UNCHANGED <<event, armed, queue>>

\* rebuild: all slots are new and reusable, the fence starts again at 0.  The
\* event and the command queue are not touched.
Rebuild(c) ==
    /\ shape' = [batch_size |-> c.batch_size, stride |-> c.stride,
                 total_spheres |-> c.spheres,
                 total_batches |-> TotalBatches(c.spheres, c.batch_size)]
    /\ batch_count' = c.batch_count
    /\ built' = "yes"
    /\ fence' = fence + 1
    /\ completed' = 0
    /\ fence_values' = [b \in 0 .. c.batch_count - 1 |-> 0]
    /\ ready_count' = c.batch_count
    /\ next_fence_value' = 0
    /\ UNCHANGED <<event, armed, queue>>

\* A Direct3D call in rebuild fails, for the first heap or for something later.
\* The slots and the fence values are as they were before.
RebuildFails(c) ==
    /\ shape' = [batch_size |-> c.batch_size, stride |-> c.stride,
                 total_spheres |-> c.spheres,
                 total_batches |-> TotalBatches(c.spheres, c.batch_size)]
    /\ batch_count' = c.batch_count
    /\ built' \in {"no", "half"}
    /\ UNCHANGED <<fence, completed, fence_values, ready_count, next_fence_value,
                   event, armed, queue>>

\* reshape alone.
Reshape(c) ==
    /\ shape' = [shape EXCEPT !.total_spheres = c.spheres]
    /\ UNCHANGED <<batch_count, built, fence, completed, fence_values,
                   ready_count, next_fence_value, event, armed, queue>>

-----------------------------------------------------------------------------
(* next_batch, try_next_batch and signal_done. *)

\* Variant: a slot is reusable before its value has been reached.
ReusableTooEarly == {b \in DOMAIN fence_values :
                        fence_values[b] # Never /\ fence_values[b] <= completed + 1}

\* The slots which the scan over _fence_values finds reusable, and the one it
\* returns: the last of them.
Reusable == {b \in DOMAIN fence_values :
                fence_values[b] # Never /\ fence_values[b] <= completed}

IsLast(b, slots) == b \in slots /\ \A c \in slots : c <= b

\* Variant: the slot that is handed out still counts as ready.
TakeUncounted(b) ==
    /\ IsLast(b, Reusable)
    /\ fence_values' = [fence_values EXCEPT ![b] = Never]
    /\ ready_count' = Cardinality(Reusable)
    /\ UNCHANGED <<shape, batch_count, built, fence, completed,
                   next_fence_value, armed, queue>>

\* The end of next_batch and of try_next_batch: slot b is handed out.
Take(b) ==
    /\ IsLast(b, Reusable)
    /\ fence_values' = [fence_values EXCEPT ![b] = Never]
    /\ ready_count' = Cardinality(Reusable) - 1
    /\ UNCHANGED <<shape, batch_count, built, fence, completed,
                   next_fence_value, armed, queue>>

\* next_batch when a slot is known to be ready: no wait, but a new scan.
NextBatchReady(b) == ready_count >= 1 /\ Take(b) /\ UNCHANGED event

\* next_batch when no slot is known to be ready: it will wait for the event.
NextBatchMustWait == ready_count < 1

\* wait_for_event returns, which resets the event.
EventWait ==
    /\ event
    /\ event' = FALSE
    /\ UNCHANGED <<shape, batch_count, built, fence, completed,
                   fence_values, ready_count, next_fence_value, armed, queue>>

\* After the wait the completed value is read again and the slots are scanned.
NextBatchRescan(b) == Take(b) /\ UNCHANGED event
NextBatchNothing ==
    /\ Reusable = {}
    /\ ready_count' = 0
    /\ UNCHANGED <<shape, batch_count, built, fence, completed,
                   fence_values, next_fence_value, event, armed, queue>>

\* Variant: the value of the slot is the one before the increment.
SignalDoneTooLow(b) ==
    /\ next_fence_value' = next_fence_value + 1
    /\ fence_values' = [fence_values EXCEPT ![b] = next_fence_value]
    /\ queue' = Append(queue, [op |-> "signal", fence |-> fence,
                               value |-> next_fence_value + 1])
    /\ UNCHANGED <<shape, batch_count, built, fence, completed,
                   ready_count, event, armed>>

\* signal_done up to ID3D12CommandQueue::Signal.
SignalDone(b) ==
    /\ next_fence_value' = next_fence_value + 1
    /\ fence_values' = [fence_values EXCEPT ![b] = next_fence_value + 1]
    /\ queue' = Append(queue, [op |-> "signal", fence |-> fence,
                               value |-> next_fence_value + 1])
    /\ UNCHANGED <<shape, batch_count, built, fence, completed,
                   ready_count, event, armed>>

\* Signal fails: the slot has its value, but the queue has not.
SignalDoneFails(b) ==
    /\ next_fence_value' = next_fence_value + 1
    /\ fence_values' = [fence_values EXCEPT ![b] = next_fence_value + 1]
    /\ UNCHANGED <<shape, batch_count, built, fence, completed,
                   ready_count, event, armed, queue>>

\* Variant: a value that has been reached already does not set the event.
RegisterFutureOnly ==
    /\ armed' = IF completed >= next_fence_value THEN armed
                ELSE armed \cup {[fence |-> fence, value |-> next_fence_value]}
    /\ UNCHANGED <<shape, batch_count, built, fence, completed,
                   fence_values, ready_count, next_fence_value, event, queue>>

\* The rest of signal_done: SetEventOnCompletion sets the event at once if the
\* value has been reached.
RegisterEvent ==
    /\ IF completed >= next_fence_value
       THEN event' = TRUE /\ UNCHANGED armed
       ELSE armed' = armed \cup {[fence |-> fence, value |-> next_fence_value]}
            /\ UNCHANGED event
    /\ UNCHANGED <<shape, batch_count, built, fence, completed,
                   fence_values, ready_count, next_fence_value, queue>>

\* ExecuteCommandLists with a draw that reads slot b, which holds `data`.
Execute(b, data) ==
    /\ queue' = Append(queue, [op |-> "draw", fence |-> fence, slot |-> b,
                               data |-> data])
    /\ UNCHANGED <<shape, batch_count, built, fence, completed,
                   fence_values, ready_count, next_fence_value, event, armed>>

-----------------------------------------------------------------------------
(* The GPU and the fence. *)

GpuDraw ==
    /\ queue # <<>>
    /\ Head(queue).op = "draw"
    /\ queue' = Tail(queue)
    /\ UNCHANGED <<shape, batch_count, built, fence, completed,
                   fence_values, ready_count, next_fence_value, event, armed>>

\* The queue reaches a signal; one of an abandoned fence only sets the event.
GpuSignal ==
    /\ queue # <<>>
    /\ Head(queue).op = "signal"
    /\ queue' = Tail(queue)
    /\ IF Head(queue).fence = fence
       THEN completed' = Head(queue).value /\ UNCHANGED <<event, armed>>
       ELSE LET fired == {a \in armed : a.fence = Head(queue).fence /\
                                        a.value <= Head(queue).value}
            IN  /\ event' = (event \/ fired # {})
                /\ armed' = armed \ fired
                /\ UNCHANGED completed
    /\ UNCHANGED <<shape, batch_count, built, fence, fence_values,
                   ready_count, next_fence_value>>

\* The event is set for a value that the fence has reached; values are reached
\* in their order.
Notify ==
    \E a \in armed :
        /\ a.fence = fence /\ a.value <= completed
        /\ \A c \in armed : c.fence = fence => a.value <= c.value
        /\ armed' = armed \ {a}
        /\ event' = TRUE
        /\ UNCHANGED <<shape, batch_count, built, fence, completed,
                       fence_values, ready_count, next_fence_value, queue>>
=============================================================================
