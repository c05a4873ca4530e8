------------------------ MODULE DirectStorageProofs ------------------------
(***************************************************************************)
(* What holds of the DirectStorage benchmark for any setups, any number of *)
(* frames and runs, and whichever calls fail: the invariants of            *)
(* DirectStorage, and that the context is a SlotPool for it, too.          *)
(***************************************************************************)
EXTENDS DirectStorage, FiniteSetTheorems, WellFoundedInduction, TLAPS

-----------------------------------------------------------------------------
(* The inductive invariant.                                                 *)

IsDraw(i) == queue[i].op = "draw" /\ queue[i].fence = fence
IsSignal(i) == queue[i].op = "signal" /\ queue[i].fence = fence
IsWait(i, run, value) ==
    queue[i].op = "wait" /\ queue[i].fence = run /\ queue[i].value = value

\* Signals of the current fence are pending in the order of their values; they
\* have not been reached, and no value beyond the last one has been used.
SignalInv ==
    /\ completed <= next_fence_value
    /\ \A i \in 1 .. Len(queue) : queue[i].op # "wait" => queue[i].fence <= fence
    /\ \A i \in 1 .. Len(queue) :
          IsSignal(i) => completed < queue[i].value /\ queue[i].value <= next_fence_value
    /\ \A i, j \in 1 .. Len(queue) :
          i < j /\ IsSignal(i) /\ IsSignal(j) => queue[i].value < queue[j].value
    /\ \A b \in DOMAIN fence_values :
          fence_values[b] # Never => fence_values[b] <= next_fence_value

\* A slot with a pending draw becomes reusable only by a signal behind the draw.
DrawInv ==
    \A i \in 1 .. Len(queue) : IsDraw(i) =>
        /\ queue[i].slot \in DOMAIN fence_values
        /\ fence_values[queue[i].slot] # Never =>
              /\ completed < fence_values[queue[i].slot]
              /\ \A j \in 1 .. i : IsSignal(j) =>
                     queue[j].value < fence_values[queue[i].slot]

\* The slot that the CPU works with is marked, and nobody draws from it.
CpuSlotInv ==
    /\ pc \in {"enqueue", "hold", "execute", "signal"} => fence_values[slot] = Never
    /\ pc \in {"enqueue", "hold", "execute"} =>
          \A i \in 1 .. Len(queue) : IsDraw(i) => queue[i].slot # slot

ContextInv == SignalInv /\ DrawInv /\ CpuSlotInv

\* The values of requests increase within a run and have not been signalled.
ValueInv ==
    /\ \A r \in Outstanding : /\ r.run <= runs /\ r.fence <= fence
                              /\ io_completed[r.run] < r.value
                              /\ r.run = runs => r.value <= io_next /\ pc # "open"
    /\ \A n \in 1 .. MaxRuns : runs < n => io_completed[n] = 0
    /\ pc # "idle" => runs > 0
    /\ runs > 0 => /\ io_completed[runs] <= io_next
                   /\ pc = "open" => io_completed[runs] = 0

\* What is enqueued belongs to this run and comes after all that is submitted;
\* a request is known by its run and its value.
OrderInv ==
    /\ \A e \in enqueued : e.run = runs
    /\ pc \in {"idle", "open"} => enqueued = {}
    /\ \A e \in enqueued, r \in submitted \cup read : r.run = e.run => r.value < e.value
    /\ submitted \cap read = {}
    /\ \A q, r \in Outstanding : q.run = r.run /\ q.value = r.value => q = r

\* What is lost comes after all that has not been lost of the same run.
LostInv ==
    \A l \in lost : /\ l.run <= runs /\ l.fence <= fence
                    /\ pc # "idle" => l.run < runs
                    /\ io_completed[l.run] < l.value
                    /\ \A r \in Outstanding : r.run = l.run => r.value < l.value

\* All requests have been submitted at the end of a frame.
SubmitInv ==
    /\ pc \in {"hold", "execute", "signal", "register"}
            /\ (Naive \/ (LastBatch /\ SubmitsEarly)) => enqueued = {}
    /\ pc = "present" /\ (Naive \/ SubmitsEarly) => enqueued = {}
    /\ pc = "drain" => enqueued = {}

RequestInv == ValueInv /\ OrderInv /\ LostInv /\ SubmitInv

Answered(run, value) ==
    \/ value <= io_completed[run]
    \/ \E r \in Outstanding \cup lost : r.run = run /\ r.value = value

Held(run, value) ==
    \/ value <= io_completed[run]
    \/ \E j \in 1 .. Len(queue) : IsWait(j, run, value)

\* The GPU comes to a draw only after the signal for its request.
HeldInv ==
    /\ \A i \in 1 .. Len(queue) : IsDraw(i) =>
          /\ queue[i].data.run \in 1 .. MaxRuns
          /\ \/ queue[i].data.request <= io_completed[queue[i].data.run]
             \/ \E j \in 1 .. i : IsWait(j, queue[i].data.run, queue[i].data.request)
    /\ pc = "execute" => Held(runs, io_next)

\* What is waited for has been requested.
AnswerInv ==
    /\ EveryWaitIsAnswered
    /\ pc = "hold" => Answered(runs, io_next)

\* The requests that have still to write to a slot.
Writes == enqueued \cup submitted

\* A slot with a pending write has a pending draw, too, or is marked.
WriteInv ==
    \A r \in Writes : r.fence = fence =>
        \/ \E i \in 1 .. Len(queue) : IsDraw(i) /\ queue[i].slot = r.slot
        \/ fence_values[r.slot] = Never /\ ~(pc = "signal" /\ slot = r.slot)

\* Only the last request writes to the slot that the CPU works with.
CpuWriteInv ==
    \A r \in Writes : r.fence = fence /\ r.slot = slot =>
        /\ pc # "enqueue"
        /\ pc \in {"hold", "execute"} => DataOf(r) = Data

\* The data of a draw are in its slot, requested for it, or lost.
Requested(b, data) ==
    \/ buffer[b] = data
    \/ \E r \in Writes \cup lost : DataOf(r) = data /\ r.slot = b /\ r.fence = fence

DataInv ==
    /\ \A i \in 1 .. Len(queue) : IsDraw(i) => Requested(queue[i].slot, queue[i].data)
    /\ pc \in {"hold", "execute"} => Requested(slot, Data)

BufferInv == NoWriteUnderDraw /\ WriteInv /\ CpuWriteInv /\ DataInv

\* A complete entry of the cache fits its key, the others are as put made them;
\* heaps exist for complete files only.
CacheInv ==
    /\ \A k \in DOMAIN cache :
          \/ cache[k] = NewEntry
          \/ /\ cache[k].complete /\ cache[k].stride = k.stride
             /\ cache[k].spheres = k.spheres /\ cache[k].block = k.batch_size
    /\ built # "no" => shape.stride > 0
    /\ pc \notin {"idle", "crashed"} =>
          /\ setup \in Setups
          /\ file = Written(setup.config, Compressed(setup))

IInv == TypeOK /\ ContextInv /\ RequestInv /\ HeldInv /\ AnswerInv /\ BufferInv /\ CacheInv

-----------------------------------------------------------------------------
(* Lemmas about the queue and about the scan of the context.                *)

\* The elements of the queue.
LEMMA QueueTypes ==
    ASSUME TypeOK, NEW i \in 1 .. Len(queue)
    PROVE  /\ queue[i] \in Operations
           /\ queue[i].op \in {"draw", "signal", "wait"}
           /\ queue[i].fence \in Nat
           /\ queue[i].op = "draw" => queue[i].slot \in Nat /\ queue[i].data \in DataTags
           /\ queue[i].op = "signal" => queue[i].value \in Nat
           /\ queue[i].op = "wait" => /\ queue[i].value \in Nat
                                      /\ queue[i].fence \in 1 .. MaxRuns
<1>1. queue[i] \in Operations
  BY DEF TypeOK
<1>2. MaxRuns \in Nat
  BY DirectStorageAssumption
<1> QED
  BY <1>1, <1>2 DEF Operations

\* The queue after an operation has been appended to it.
LEMMA AppendQueue ==
    ASSUME TypeOK, NEW e \in Operations, queue' = Append(queue, e)
    PROVE  /\ queue' \in Seq(Operations)
           /\ Len(queue) \in Nat
           /\ Len(queue') = Len(queue) + 1
           /\ \A i \in 1 .. Len(queue) : queue'[i] = queue[i] /\ i \in 1 .. Len(queue')
           /\ queue'[Len(queue) + 1] = e
           /\ \A i \in 1 .. Len(queue') : i \in 1 .. Len(queue) \/ i = Len(queue) + 1
<1>1. queue \in Seq(Operations)
  BY DEF TypeOK
<1> QED
  BY <1>1

\* The queue after its first operation has been executed.
LEMMA TailQueue ==
    ASSUME TypeOK, queue # <<>>, queue' = Tail(queue)
    PROVE  /\ queue' \in Seq(Operations)
           /\ Len(queue) \in Nat \ {0}
           /\ Len(queue') = Len(queue) - 1
           /\ Head(queue) = queue[1]
           /\ \A i \in 1 .. Len(queue') :
                 /\ queue'[i] = queue[i + 1]
                 /\ i + 1 \in 1 .. Len(queue)
<1>1. queue \in Seq(Operations)
  BY DEF TypeOK
<1> QED
  BY <1>1

\* The slots of a context that has been built.
LEMMA SlotsAreFinite ==
    ASSUME TypeOK, built = "yes"
    PROVE  IsFiniteSet(Reusable) /\ Cardinality(Reusable) \in Nat
<1>1. DOMAIN fence_values = 0 .. batch_count - 1 /\ batch_count \in Nat
  BY DEF TypeOK, Slots
<1>2. IsFiniteSet(0 .. batch_count - 1)
  BY <1>1, FS_Interval
<1>3. Reusable \subseteq 0 .. batch_count - 1
  BY <1>1 DEF Reusable
<1>4. IsFiniteSet(Reusable)
  BY <1>2, <1>3, FS_Subset
<1> QED
  BY <1>4, FS_CardinalityType

\* Handing out a slot removes it, and only it, from the reusable ones.
LEMMA TakeTypes ==
    ASSUME TypeOK, built = "yes", NEW b \in DOMAIN fence_values, Take(b)
    PROVE  /\ fence_values[b] # Never /\ fence_values[b] <= completed
           /\ ready_count' \in Nat
           /\ ready_count' = Cardinality(Reusable')
           /\ fence_values' = [fence_values EXCEPT ![b] = Never]
<1>1. b \in Reusable /\ fence_values[b] # Never /\ fence_values[b] <= completed
  BY DEF Take, IsLast, Reusable
<1>2. Reusable' = Reusable \ {b}
  BY <1>1 DEF Take, Reusable, TypeOK
<1>3. /\ Cardinality(Reusable \ {b}) = Cardinality(Reusable) - 1
      /\ IsFiniteSet(Reusable \ {b})
  BY <1>1, SlotsAreFinite, FS_RemoveElement
<1>4. Cardinality(Reusable \ {b}) \in Nat
  BY <1>3, FS_CardinalityType
<1> QED
  BY <1>1, <1>2, <1>3, <1>4 DEF Take

\* Requests and what identifies them.
LEMMA RequestTypes ==
    ASSUME TypeOK
    PROVE  /\ MaxRuns \in Nat /\ runs \in Nat /\ io_next \in Nat /\ fence \in Nat
           /\ \A r \in Outstanding \cup lost :
                 /\ r \in Requests /\ r.run \in 1 .. MaxRuns /\ r.run \in Nat
                 /\ r.value \in Nat /\ r.slot \in Nat /\ r.fence \in Nat
           /\ \A n \in 1 .. MaxRuns : io_completed[n] \in Nat
<1>1. MaxRuns \in Nat
  BY DirectStorageAssumption
<1>2. \A r \in Outstanding \cup lost : r \in Requests
  BY DEF TypeOK, Outstanding
<1> QED
  BY <1>1, <1>2, SMTT(20) DEF TypeOK, Requests

-----------------------------------------------------------------------------
(* The initial state.                                                       *)

LEMMA InitInv == Init => IInv
<1> SUFFICES ASSUME Init PROVE IInv
  OBVIOUS
<1>1. /\ queue = <<>> /\ fence_values = <<>> /\ buffer = <<>> /\ armed = {}
      /\ cache = <<>> /\ pc = "idle" /\ enqueued = {} /\ submitted = {}
      /\ read = {} /\ lost = {} /\ runs = 0
  BY DEF Init, ContextInit, StagingInit
<1>2. Len(queue) = 0 /\ queue \in Seq(Operations) /\ DOMAIN fence_values = {}
      /\ DOMAIN cache = {} /\ MaxRuns \in Nat
  BY <1>1, DirectStorageAssumption
<1>3. /\ fence_values \in [DOMAIN buffer -> Nat \cup {Never}]
      /\ buffer \in [DOMAIN buffer -> DataTags]
      /\ DOMAIN buffer \subseteq Nat
      /\ cache \in [DOMAIN cache -> Entries] /\ file \in Entries
  BY <1>1 DEF Init, StagingInit, NewEntry, Entries
<1>4. TypeOK
  <2>1. /\ shape \in [batch_size : Nat, stride : Nat, total_spheres : Nat,
                       total_batches : Nat]
        /\ batch_count = 0 /\ built = "no" /\ fence = 0 /\ completed = 0
        /\ ready_count = 0 /\ next_fence_value = 0 /\ event = FALSE
    BY DEF Init, ContextInit
  <2>2. /\ setup \in Setups \cup {NoSetup} /\ phase \in Phases /\ frame = 0
        /\ batch = 0 /\ slot = 0 /\ unregistered = FALSE /\ io_next = 0
        /\ runs \in 0 .. MaxRuns
        /\ io_completed \in [1 .. MaxRuns -> Nat]
    BY <1>1, <1>2 DEF Init, Phases
  <2> QED
    BY <1>1, <1>2, <1>3, <2>1, <2>2 DEF TypeOK, HasSlot
<1>5. ContextInv
  BY <1>2 DEF Init, ContextInit, ContextInv, SignalInv, DrawInv, CpuSlotInv
<1>6. RequestInv
  BY <1>1 DEF Init, RequestInv, ValueInv, OrderInv, LostInv, SubmitInv, Outstanding
<1>7. HeldInv /\ AnswerInv /\ BufferInv
  BY <1>1, <1>2 DEF HeldInv, AnswerInv, EveryWaitIsAnswered, BufferInv,
     NoWriteUnderDraw, WriteInv, CpuWriteInv, DataInv, Writes
<1>8. CacheInv
  BY <1>1, <1>2 DEF Init, ContextInit, CacheInv
<1> QED
  BY <1>4, <1>5, <1>6, <1>7, <1>8 DEF IInv
-----------------------------------------------------------------------------
(* Steps that, at most, submit what has been enqueued.                      *)

LEMMA MoveInv ==
    ASSUME IInv, TypeOK', SubmitInv',
           UNCHANGED <<shape, built, fence, completed, fence_values, next_fence_value,
                       queue, buffer, stagingVars, setup, runs, slot, read, io_next,
                       io_completed, lost>>,
           \/ UNCHANGED <<enqueued, submitted>>
           \/ enqueued' = {} /\ submitted' = submitted \cup enqueued,
           pc' = pc \/ pc' \notin {"open", "enqueue", "hold", "execute", "signal"},
           pc' \notin {"idle", "crashed"} => pc \notin {"idle", "crashed"},
           pc' # "idle" => pc # "idle",
           pc' = "idle" => enqueued' = {}
    PROVE  IInv'
<1>1. Outstanding' = Outstanding /\ Writes' = Writes
  BY DEF Outstanding, Writes
<1>2. ContextInv'
  BY DEF IInv, ContextInv, SignalInv, DrawInv, CpuSlotInv, IsDraw, IsSignal
<1>3. ValueInv' /\ LostInv'
  BY <1>1 DEF IInv, RequestInv, ValueInv, LostInv
<1>4. OrderInv'
  <2>1. /\ \A e \in enqueued' : e.run = runs'
        /\ pc' \in {"idle", "open"} => enqueued' = {}
        /\ \A q, r \in Outstanding' : q.run = r.run /\ q.value = r.value => q = r
    BY <1>1 DEF IInv, RequestInv, OrderInv
  <2>2. \A e \in enqueued', r \in submitted' \cup read' :
            r.run = e.run => r.value < e.value
    BY DEF IInv, RequestInv, OrderInv
  <2>3. \A e \in enqueued, r \in read : e # r
    <3>1. SUFFICES ASSUME NEW e \in enqueued, e \in read PROVE FALSE
      OBVIOUS
    <3>2. e.value < e.value /\ e.value \in Nat
      BY <3>1, RequestTypes DEF IInv, RequestInv, OrderInv, Outstanding
    <3> QED
      BY <3>2
  <2>4. submitted' \cap read' = {}
    BY <2>3 DEF IInv, RequestInv, OrderInv
  <2> QED
    BY <2>1, <2>2, <2>4 DEF OrderInv
<1>5. HeldInv'
  BY DEF IInv, HeldInv, Held, IsDraw, IsWait
<1>6. AnswerInv'
  BY <1>1 DEF IInv, AnswerInv, Answered, EveryWaitIsAnswered
<1>7. NoWriteUnderDraw' /\ WriteInv' /\ CpuWriteInv' /\ DataInv'
  <2>1. NoWriteUnderDraw'
    BY <1>1 DEF IInv, BufferInv, NoWriteUnderDraw, Writes, DataOf
  <2>2. WriteInv' /\ CpuWriteInv'
    BY <1>1 DEF IInv, BufferInv, WriteInv, CpuWriteInv, IsDraw, DataOf, Data
  <2>3. DataInv'
    BY <1>1 DEF IInv, BufferInv, DataInv, Requested, IsDraw, DataOf, Data
  <2> QED
    BY <2>1, <2>2, <2>3
<1>8. CacheInv'
  BY DEF IInv, CacheInv, stagingVars
<1> QED
  BY <1>2, <1>3, <1>4, <1>5, <1>6, <1>7, <1>8 DEF IInv, RequestInv, BufferInv
\* Moving requests keeps their types.
LEMMA MoveTypes ==
    ASSUME TypeOK,
           \/ UNCHANGED <<enqueued, submitted>>
           \/ enqueued' = {} /\ submitted' = submitted \cup enqueued,
           UNCHANGED <<fence, buffer>>
    PROVE  /\ enqueued' \subseteq Requests /\ submitted' \subseteq Requests
           /\ \A r \in enqueued' \cup submitted' : r.fence = fence' => r.slot \in DOMAIN buffer'
  BY DEF TypeOK

\* next_batch and try_next_batch, if they do not hand out a slot.
LEMMA NoSlotInv ==
    IInv /\ (\/ TryNextBatch /\ pc' = "submit"
             \/ NextBatch /\ pc' = "wait"
             \/ Scan /\ pc' = "wait"
             \/ Wait \/ SubmitAndWait)
        => IInv'
<1>1. ASSUME IInv, TryNextBatch, pc' = "submit" PROVE IInv'
  <2>1. NextBatchNothing /\ UNCHANGED slot /\ pc = "poll"
    BY <1>1 DEF TryNextBatch
  <2>2. TypeOK'
    BY <1>1, <2>1 DEF IInv, TypeOK, TryNextBatch, NextBatchNothing, Slots, HasSlot,
                      stagingVars, ioVars
  <2>3. SubmitInv'
    BY <1>1 DEF SubmitInv
  <2> QED
    BY <1>1, <2>1, <2>2, <2>3, MoveInv DEF TryNextBatch, NextBatchNothing, ioVars
<1>2. ASSUME IInv, NextBatch, pc' = "wait" PROVE IInv'
  <2>1. UNCHANGED <<contextVars, slot>> /\ pc = "poll"
    BY <1>2 DEF NextBatch
  <2>2. TypeOK'
    BY <1>2, <2>1 DEF IInv, TypeOK, NextBatch, contextVars, Slots, HasSlot,
                      stagingVars, ioVars
  <2>3. SubmitInv'
    BY <1>2 DEF SubmitInv
  <2> QED
    BY <1>2, <2>1, <2>2, <2>3, MoveInv DEF NextBatch, contextVars, ioVars
<1>3. ASSUME IInv, Scan, pc' = "wait" PROVE IInv'
  <2>1. NextBatchNothing /\ UNCHANGED slot /\ pc = "scan"
    BY <1>3 DEF Scan
  <2>2. TypeOK'
    BY <1>3, <2>1 DEF IInv, TypeOK, Scan, NextBatchNothing, Slots, HasSlot,
                      stagingVars, ioVars
  <2>3. SubmitInv'
    BY <1>3 DEF SubmitInv
  <2> QED
    BY <1>3, <2>1, <2>2, <2>3, MoveInv DEF Scan, NextBatchNothing, ioVars
<1>4. ASSUME IInv, Wait PROVE IInv'
  <2>1. TypeOK' /\ SubmitInv'
    BY <1>4 DEF IInv, TypeOK, Wait, EventWait, Slots, HasSlot, stagingVars, ioVars,
                SubmitInv
  <2> QED
    BY <1>4, <2>1, MoveInv DEF Wait, EventWait, ioVars
<1>5. ASSUME IInv, SubmitAndWait PROVE IInv'
  <2>1. TypeOK' /\ SubmitInv'
    BY <1>5, MoveTypes DEF IInv, TypeOK, SubmitAndWait, contextVars, Slots, HasSlot,
                           stagingVars, SubmitInv
  <2> QED
    BY <1>5, <2>1, MoveInv DEF SubmitAndWait, contextVars
<1> QED
  BY <1>1, <1>2, <1>3, <1>4, <1>5

\* The end of a frame, of a phase or of a run.
LEMMA FrameEndInv == IInv /\ (Register \/ Present \/ Drain) => IInv'
<1>1. ASSUME IInv, Register PROVE IInv'
  <2>1. /\ batch' \in Nat /\ pc' \in {"poll", "present"} /\ pc = "register"
        /\ event' \in BOOLEAN /\ armed' \subseteq [fence : Nat, value : Nat]
    <3>1. batch \in Nat /\ fence \in Nat /\ next_fence_value \in Nat
          /\ event \in BOOLEAN /\ armed \subseteq [fence : Nat, value : Nat]
      BY <1>1 DEF IInv, TypeOK
    <3>2. batch' \in Nat /\ pc' \in {"poll", "present"} /\ pc = "register"
      BY <1>1, <3>1 DEF Register
    <3>3. CASE completed >= next_fence_value
      BY <1>1, <3>1, <3>2, <3>3 DEF Register, RegisterEvent
    <3>4. CASE ~(completed >= next_fence_value)
      BY <1>1, <3>1, <3>2, <3>4 DEF Register, RegisterEvent
    <3> QED
      BY <3>3, <3>4
  <2>2. TypeOK'
    BY <1>1, <2>1 DEF IInv, TypeOK, Register, RegisterEvent, Slots, HasSlot,
                      stagingVars, ioVars
  <2>3. SubmitInv'
    BY <1>1, <2>1 DEF IInv, RequestInv, SubmitInv, Register, RegisterEvent, ioVars,
                      LastBatch, SubmitsEarly, Naive
  <2> QED
    BY <1>1, <2>1, <2>2, <2>3, MoveInv DEF Register, RegisterEvent, ioVars
<1>2. ASSUME IInv, Present PROVE IInv'
  <2>1. /\ frame' \in Nat /\ batch' \in Nat /\ pc = "present"
        /\ pc' \in {"poll", "drain"}
        /\ \/ UNCHANGED <<enqueued, submitted>>
           \/ enqueued' = {} /\ submitted' = submitted \cup enqueued
    BY <1>2, SMTT(20) DEF IInv, TypeOK, Present, NextFrame
  <2>2. TypeOK'
    BY <1>2, <2>1, MoveTypes DEF IInv, TypeOK, Present, contextVars, Slots, HasSlot,
                                 stagingVars
  <2>3. enqueued' = {}
    BY <1>2 DEF IInv, RequestInv, SubmitInv, Present
  <2> QED
    BY <1>2, <2>1, <2>2, <2>3, MoveInv DEF Present, contextVars, SubmitInv
<1>3. ASSUME IInv, Drain PROVE IInv'
  <2>1. /\ frame' \in Nat /\ batch' \in Nat /\ pc = "drain"
        /\ pc' \in {"poll", "idle"} /\ phase' \in Phases
    BY <1>3, SMTT(20) DEF IInv, TypeOK, Drain
  <2>2. TypeOK'
    BY <1>3, <2>1 DEF IInv, TypeOK, Drain, contextVars, Slots, HasSlot, stagingVars,
                      ioVars
  <2>3. enqueued = {} /\ SubmitInv'
    BY <1>3, <2>1 DEF IInv, RequestInv, SubmitInv, Drain
  <2> QED
    BY <1>3, <2>1, <2>2, <2>3, MoveInv DEF Drain, contextVars, ioVars
<1> QED
  BY <1>1, <1>2, <1>3

\* Steps that the CPU is not part of, and those that end the process or the run
\* before there is a request.
LEMMA AsideInv ==
    IInv /\ (OpenFails \/ EnqueueCrashes \/ AutoSubmit \/ Event \/ UNCHANGED vars)
        => IInv'
<1>1. ASSUME IInv, OpenFails PROVE IInv'
  <2>1. TypeOK' /\ SubmitInv' /\ enqueued = {}
    BY <1>1 DEF IInv, TypeOK, OpenFails, contextVars, Slots, HasSlot, stagingVars,
                ioVars, RequestInv, OrderInv, SubmitInv
  <2> QED
    BY <1>1, <2>1, MoveInv DEF OpenFails, contextVars, ioVars
<1>2. ASSUME IInv, EnqueueCrashes PROVE IInv'
  <2>1. TypeOK' /\ SubmitInv'
    BY <1>2 DEF IInv, TypeOK, EnqueueCrashes, contextVars, Slots, HasSlot,
                stagingVars, ioVars, SubmitInv
  <2> QED
    BY <1>2, <2>1, MoveInv DEF EnqueueCrashes, contextVars, ioVars
<1>3. ASSUME IInv, AutoSubmit PROVE IInv'
  <2>1. SubmitInv'
    BY <1>3 DEF AutoSubmit, SubmitInv
  <2>2. /\ UNCHANGED <<contextVars, stagingVars, cpuVars, buffer, read, io_next,
                       io_completed, lost>>
        /\ enqueued' = {} /\ submitted' = submitted \cup enqueued
    BY <1>3 DEF AutoSubmit
  <2>3. /\ enqueued' \subseteq Requests /\ submitted' \subseteq Requests
        /\ \A r \in enqueued' \cup submitted' : r.fence = fence' => r.slot \in DOMAIN buffer'
    BY <1>3, <2>2, MoveTypes DEF IInv, contextVars
  <2>4. TypeOK'
    BY <1>3, <2>2, <2>3 DEF IInv, TypeOK, contextVars, cpuVars, Slots, HasSlot, stagingVars
  <2> QED
    BY <1>3, <2>1, <2>4, MoveInv DEF AutoSubmit, contextVars, cpuVars, IInv, RequestInv,
       OrderInv
<1>4. ASSUME IInv, Event PROVE IInv'
  <2>1. /\ event' \in BOOLEAN /\ armed' \subseteq armed
        /\ UNCHANGED <<shape, batch_count, built, fence, completed, fence_values,
                       ready_count, next_fence_value, queue, stagingVars, cpuVars,
                       ioVars>>
    BY <1>4 DEF Event, Notify
  <2>2. TypeOK'
    BY <1>4, <2>1 DEF IInv, TypeOK, cpuVars, Slots, HasSlot, stagingVars, ioVars
  <2>3. SubmitInv'
    BY <1>4, <2>1 DEF IInv, RequestInv, SubmitInv, cpuVars, ioVars, Naive, LastBatch,
                      SubmitsEarly
  <2> QED
    BY <1>4, <2>1, <2>2, <2>3, MoveInv DEF cpuVars, ioVars, IInv, RequestInv, OrderInv
<1>5. ASSUME IInv, UNCHANGED vars PROVE IInv'
  <2>1. TypeOK'
    BY <1>5 DEF IInv, TypeOK, vars, contextVars, cpuVars, Slots, HasSlot, stagingVars,
                ioVars
  <2>2. SubmitInv'
    BY <1>5 DEF IInv, vars, contextVars, cpuVars, ioVars, RequestInv, SubmitInv, Naive,
                LastBatch, SubmitsEarly
  <2> QED
    BY <1>5, <2>1, <2>2, MoveInv DEF vars, contextVars, cpuVars, ioVars, IInv, RequestInv,
       OrderInv
<1> QED
  BY <1>1, <1>2, <1>3, <1>4, <1>5
-----------------------------------------------------------------------------
(* The begin of a run.                                                      *)

LEMMA SetupTypes ==
    ASSUME NEW s \in Setups
    PROVE  /\ s.config \in Configs /\ s.implementation \in Implementations
           /\ s.config.batch_count \in Nat \ {0} /\ s.config.batch_size \in Nat \ {0}
           /\ s.config.stride \in Nat \ {0} /\ s.config.spheres \in Nat \ {0}
<1>1. s \in [config : Configs, implementation : Implementations]
  BY DirectStorageAssumption
<1>2. s.config \in [batch_count : Nat \ {0}, batch_size : Nat \ {0},
                    stride : Nat \ {0}, spheres : Nat \ {0}]
  BY <1>1, ConfigsAssumption
<1> QED
  BY <1>1, <1>2

\* What is written to a file, and what a cached file is known to be.
LEMMA StagedTypes ==
    ASSUME IInv, NEW s \in Setups
    PROVE  /\ Written(s.config, Compressed(s)) \in Entries
           /\ Staged(s.config, Compressed(s)) \in Entries
           /\ \/ Staged(s.config, Compressed(s)) = NewEntry
              \/ Staged(s.config, Compressed(s)) = Written(s.config, Compressed(s))
<1> DEFINE k == Key(s.config, Compressed(s))
           w == Written(s.config, Compressed(s))
<1>1. /\ w \in Entries /\ w.complete /\ w.stride = s.config.stride
      /\ w.spheres = s.config.spheres /\ NewEntry \in Entries
      /\ k.stride = s.config.stride /\ k.spheres = s.config.spheres
      /\ w.block = k.batch_size
  BY SetupTypes DEF Written, Entries, NewEntry, Key
<1>2. CASE k \in DOMAIN cache
  <2>1. Staged(s.config, Compressed(s)) = cache[k] /\ cache[k] \in Entries
    BY <1>2 DEF Staged, IsCached, IInv, TypeOK
  <2>2. CASE cache[k] = NewEntry
    BY <1>1, <2>1, <2>2
  <2>3. CASE /\ cache[k].complete /\ cache[k].stride = k.stride
             /\ cache[k].spheres = k.spheres /\ cache[k].block = k.batch_size
    <3>1. w \in Entries /\ cache[k] \in Entries
          /\ w.complete \in BOOLEAN /\ cache[k].complete \in BOOLEAN
      BY <1>1, <2>1 DEF Entries
    <3>2. cache[k] = w
      BY <1>1, <2>3, <3>1 DEF Entries
    <3> QED
      BY <1>1, <2>1, <3>2
  <2> QED
    BY <1>2, <2>2, <2>3 DEF IInv, CacheInv
<1>3. CASE k \notin DOMAIN cache
  BY <1>1, <1>3 DEF Staged, IsCached
<1> QED
  BY <1>2, <1>3

\* The cache with an entry that fits the key, or that is a new one.
LEMMA PutInv ==
    ASSUME IInv, NEW s \in Setups,
           NEW e \in {NewEntry, Written(s.config, Compressed(s))},
           cache' = Put(Key(s.config, Compressed(s)), e)
    PROVE  /\ cache' \in [DOMAIN cache' -> Entries]
           /\ \A k \in DOMAIN cache' :
                 \/ cache'[k] = NewEntry
                 \/ /\ cache'[k].complete /\ cache'[k].stride = k.stride
                    /\ cache'[k].spheres = k.spheres /\ cache'[k].block = k.batch_size
<1> DEFINE key == Key(s.config, Compressed(s))
           w == Written(s.config, Compressed(s))
<1>1. /\ w.complete /\ w.stride = key.stride /\ w.spheres = key.spheres
      /\ w.block = key.batch_size
  BY DEF Written, Key
<1>2. e \in Entries /\ cache \in [DOMAIN cache -> Entries]
  <2>1. NewEntry \in Entries
    BY DEF NewEntry, Entries
  <2>2. w \in Entries
    BY StagedTypes
  <2>3. cache \in [DOMAIN cache -> Entries]
    BY DEF IInv, TypeOK
  <2> QED
    BY <2>1, <2>2, <2>3
<1>3. /\ DOMAIN cache' = DOMAIN cache \cup {key}
      /\ \A k \in DOMAIN cache' : cache'[k] = IF k = key THEN e ELSE cache[k]
  BY DEF Put
<1>4. cache' = [k \in DOMAIN cache \cup {key} |-> IF k = key THEN e ELSE cache[k]]
  BY DEF Put
<1> HIDE DEF key, w
<1>5. cache' \in [DOMAIN cache' -> Entries]
  BY <1>2, <1>3, <1>4
<1>6. \A k \in DOMAIN cache' : k # key => k \in DOMAIN cache
  BY <1>3
<1>7. e = NewEntry \/ e = w
  BY DEF w
<1> QED
  BY <1>1, <1>3, <1>5, <1>6, <1>7 DEF IInv, CacheInv

\* stage_data leaves the cache as it should be.
LEMMA StageInv ==
    ASSUME IInv, NEW s \in Setups, Stage(s.config, Compressed(s))
    PROVE  /\ cache' \in [DOMAIN cache' -> Entries] /\ file' \in Entries
           /\ \A k \in DOMAIN cache' :
                 \/ cache'[k] = NewEntry
                 \/ /\ cache'[k].complete /\ cache'[k].stride = k.stride
                    /\ cache'[k].spheres = k.spheres /\ cache'[k].block = k.batch_size
           /\ Effective(s).stride > 0 =>
                 file' = Written(s.config, Compressed(s)) /\ Effective(s) = s.config
           /\ Effective(s).stride \in Nat /\ Effective(s).spheres \in Nat
           /\ Effective(s).batch_count = s.config.batch_count
           /\ Effective(s).batch_size = s.config.batch_size
           /\ TotalBatches(Effective(s).spheres, Effective(s).batch_size) \in Nat
<1> DEFINE f == Staged(s.config, Compressed(s))
<1>1. /\ f \in Entries /\ file' = f
      /\ f = NewEntry \/ f = Written(s.config, Compressed(s))
  BY StagedTypes DEF Stage
<1>2. /\ Effective(s).stride = f.stride /\ Effective(s).spheres = f.spheres
      /\ Effective(s).batch_count = s.config.batch_count
      /\ Effective(s).batch_size = s.config.batch_size
      /\ Effective(s) = [s.config EXCEPT !.stride = f.stride, !.spheres = f.spheres]
      /\ f.stride \in Nat /\ f.spheres \in Nat
  <2>1. s.config \in [batch_count : Nat \ {0}, batch_size : Nat \ {0},
                      stride : Nat \ {0}, spheres : Nat \ {0}]
    BY SetupTypes, ConfigsAssumption
  <2> QED
    BY <1>1, <2>1 DEF Effective, Entries
<1>3. TotalBatches(f.spheres, s.config.batch_size) \in Nat
  BY <1>2, SetupTypes DEF TotalBatches
<1>4. f.stride > 0 => f = Written(s.config, Compressed(s)) /\ Effective(s) = s.config
  <2>1. SUFFICES ASSUME f.stride > 0
                 PROVE  f = Written(s.config, Compressed(s)) /\ Effective(s) = s.config
    OBVIOUS
  <2>2. f = Written(s.config, Compressed(s))
    BY <1>1, <2>1 DEF NewEntry
  <2>3. f.stride = s.config.stride /\ f.spheres = s.config.spheres
    BY <2>2 DEF Written
  <2>4. s.config \in [batch_count : Nat \ {0}, batch_size : Nat \ {0},
                      stride : Nat \ {0}, spheres : Nat \ {0}]
    BY SetupTypes, ConfigsAssumption
  <2> QED
    BY <1>2, <2>2, <2>3, <2>4
<1>5. /\ cache' \in [DOMAIN cache' -> Entries]
      /\ \A k \in DOMAIN cache' :
            \/ cache'[k] = NewEntry
            \/ /\ cache'[k].complete /\ cache'[k].stride = k.stride
               /\ cache'[k].spheres = k.spheres /\ cache'[k].block = k.batch_size
  <2>1. CASE cache' = cache
    BY <2>1 DEF IInv, TypeOK, CacheInv
  <2>2. CASE cache' = Put(Key(s.config, Compressed(s)), Written(s.config, Compressed(s)))
    BY <2>2, PutInv
  <2> QED
    BY <2>1, <2>2 DEF Stage
<1> QED
  BY <1>1, <1>2, <1>3, <1>4, <1>5
LEMMA StartTypes ==
    ASSUME IInv, NEW s \in Setups, StartRun(s)
    PROVE  /\ pc = "idle" /\ setup' \in Setups /\ setup' = s /\ runs' = runs + 1
           /\ runs' \in 0 .. MaxRuns
           /\ phase' \in Phases /\ frame' = 0 /\ batch' = 0
           /\ UNCHANGED <<slot, enqueued, submitted, read, io_next, io_completed, lost>>
           /\ enqueued = {} /\ Outstanding' = Outstanding /\ Writes' = Writes
           /\ runs \in Nat /\ runs' > 0
<1>1. runs \in 0 .. MaxRuns /\ MaxRuns \in Nat
  BY DirectStorageAssumption DEF IInv, TypeOK
<1> QED
  BY <1>1 DEF StartRun, IInv, RequestInv, OrderInv, Outstanding, Writes

\* The requests that are left over belong to earlier runs.
LEMMA StartRequests ==
    ASSUME IInv, NEW s \in Setups, StartRun(s), pc' \in {"idle", "open", "crashed"},
           fence' \in Nat, fence <= fence'
    PROVE  RequestInv'
<1>1. /\ pc = "idle" /\ runs' = runs + 1 /\ runs' \in 1 .. MaxRuns
      /\ Outstanding' = Outstanding /\ enqueued' = {} /\ enqueued = {}
      /\ UNCHANGED <<submitted, read, io_next, io_completed, lost>>
      /\ runs \in Nat /\ MaxRuns \in Nat /\ fence \in Nat /\ io_next \in Nat
  BY StartTypes, RequestTypes DEF IInv
<1>2. ValueInv'
  <2>1. \A r \in Outstanding : /\ r.run <= runs' /\ r.run # runs' /\ r.fence <= fence'
                               /\ io_completed[r.run] < r.value
    BY <1>1, RequestTypes DEF IInv, RequestInv, ValueInv
  <2>2. \A n \in 1 .. MaxRuns : runs < n => io_completed[n] = 0
    BY DEF IInv, RequestInv, ValueInv
  <2>3. io_completed[runs'] = 0
    BY <1>1, <2>2
  <2> QED
    BY <1>1, <2>1, <2>2, <2>3 DEF ValueInv
<1>3. OrderInv'
  BY <1>1 DEF IInv, RequestInv, OrderInv
<1>4. LostInv'
  <2>1. \A l \in lost : l.run <= runs' /\ l.run < runs' /\ l.fence <= fence'
    BY <1>1, RequestTypes DEF IInv, RequestInv, LostInv
  <2> QED
    BY <1>1, <2>1 DEF IInv, RequestInv, LostInv
<1>5. SubmitInv'
  BY <1>1 DEF SubmitInv
<1> QED
  BY <1>2, <1>3, <1>4, <1>5 DEF RequestInv

\* What a run that does not touch the slots leaves as it is.
LEMMA StartKeeps ==
    ASSUME IInv, NEW s \in Setups, StartRun(s), pc' \in {"idle", "open", "crashed"},
           UNCHANGED <<fence, completed, fence_values, next_fence_value, queue, buffer>>
    PROVE  ContextInv' /\ HeldInv' /\ AnswerInv' /\ BufferInv'
<1>1. /\ Outstanding' = Outstanding /\ Writes' = Writes
      /\ UNCHANGED <<slot, io_completed, lost>>
  BY StartTypes
<1>2. ContextInv'
  BY DEF IInv, ContextInv, SignalInv, DrawInv, CpuSlotInv, IsDraw, IsSignal
<1>3. HeldInv' /\ AnswerInv'
  BY <1>1 DEF IInv, HeldInv, AnswerInv, EveryWaitIsAnswered, IsDraw, IsWait
<1>4. NoWriteUnderDraw' /\ DataInv'
  BY <1>1 DEF IInv, BufferInv, NoWriteUnderDraw, DataInv, Requested, IsDraw, DataOf,
              Writes
<1>5. WriteInv' /\ CpuWriteInv'
  BY <1>1 DEF IInv, BufferInv, WriteInv, CpuWriteInv, IsDraw
<1> QED
  BY <1>2, <1>3, <1>4, <1>5 DEF BufferInv
LEMMA RunFailsToStageInv ==
    ASSUME IInv, NEW s \in Setups, RunFailsToStage(s)
    PROVE  IInv'
<1>1. /\ StartRun(s) /\ StageFails(s.config, Compressed(s)) /\ pc' = "idle"
      /\ UNCHANGED <<contextVars, pc, buffer, unregistered>>
  BY DEF RunFailsToStage, StartRun
<1>2. /\ cache' \in [DOMAIN cache' -> Entries] /\ file' = file
      /\ CacheInv'
  <2>1. cache' = Put(Key(s.config, Compressed(s)), NewEntry) /\ file' = file
    BY <1>1 DEF StageFails
  <2> QED
    BY <1>1, <2>1, PutInv DEF CacheInv, IInv, contextVars
<1>3. TypeOK'
  <2>1. /\ setup' \in Setups /\ runs' \in 0 .. MaxRuns /\ phase' \in Phases
        /\ frame' = 0 /\ batch' = 0
        /\ UNCHANGED <<slot, enqueued, submitted, read, io_next, io_completed, lost>>
    BY <1>1, StartTypes
  <2> QED
    BY <1>1, <1>2, <2>1 DEF IInv, TypeOK, contextVars, Slots, HasSlot
<1>4. RequestInv'
  <2>1. fence' \in Nat /\ fence <= fence'
    BY <1>1 DEF IInv, TypeOK, contextVars
  <2> QED
    BY <1>1, <2>1, StartRequests
<1>5. ContextInv' /\ HeldInv' /\ AnswerInv' /\ BufferInv'
  BY <1>1, StartKeeps DEF contextVars
<1> QED
  BY <1>2, <1>3, <1>4, <1>5 DEF IInv

LEMMA RunFailsToRebuildInv ==
    ASSUME IInv, NEW s \in Setups, RunFailsToRebuild(s)
    PROVE  IInv'
<1>1. /\ StartRun(s) /\ Stage(s.config, Compressed(s)) /\ pc' = "idle" /\ pc = "idle"
      /\ RebuildFails(Effective(s))
      /\ Effective(s).stride = 0 => built' = "no"
      /\ UNCHANGED <<buffer, unregistered>>
  BY DEF RunFailsToRebuild, StartRun
<1>2. /\ shape' = [batch_size |-> Effective(s).batch_size, stride |-> Effective(s).stride,
                   total_spheres |-> Effective(s).spheres,
                   total_batches |-> TotalBatches(Effective(s).spheres,
                                                  Effective(s).batch_size)]
      /\ batch_count' = Effective(s).batch_count /\ built' \in {"no", "half"}
      /\ UNCHANGED <<fence, completed, fence_values, ready_count, next_fence_value,
                     event, armed, queue>>
  BY <1>1 DEF RebuildFails
<1>3. /\ cache' \in [DOMAIN cache' -> Entries] /\ file' \in Entries
      /\ CacheInv'
  <2>1. built' # "no" => shape'.stride > 0
    BY <1>1, <1>2, StageInv
  <2> QED
    BY <1>1, <2>1, StageInv DEF CacheInv
<1>4. TypeOK'
  <2>1. /\ shape' \in [batch_size : Nat, stride : Nat, total_spheres : Nat,
                       total_batches : Nat]
        /\ batch_count' \in Nat
    BY <1>1, <1>2, StageInv, SetupTypes
  <2>2. /\ setup' \in Setups /\ runs' \in 0 .. MaxRuns /\ phase' \in Phases
        /\ frame' = 0 /\ batch' = 0
        /\ UNCHANGED <<slot, enqueued, submitted, read, io_next, io_completed, lost>>
    BY <1>1, StartTypes
  <2> QED
    BY <1>1, <1>2, <1>3, <2>1, <2>2 DEF IInv, TypeOK, HasSlot
<1>5. RequestInv'
  <2>1. fence' \in Nat /\ fence <= fence'
    BY <1>2 DEF IInv, TypeOK
  <2> QED
    BY <1>1, <2>1, StartRequests
<1>6. ContextInv' /\ HeldInv' /\ AnswerInv' /\ BufferInv'
  BY <1>1, <1>2, StartKeeps
<1> QED
  BY <1>3, <1>4, <1>5, <1>6 DEF IInv

\* Heaps that need not be rebuilt are those of a complete file.
LEMMA RunWithoutRebuildInv ==
    ASSUME IInv, NEW s \in Setups, RunWithoutRebuild(s)
    PROVE  IInv'
<1>1. /\ StartRun(s) /\ Stage(s.config, Compressed(s)) /\ pc = "idle"
      /\ pc' \in {"crashed", "open"} /\ (pc' = "open" => built # "half")
      /\ built # "no" /\ shape.stride = Effective(s).stride
      /\ Reshape(Effective(s))
      /\ UNCHANGED <<buffer, unregistered>>
  BY DEF RunWithoutRebuild, StartRun, RebuildRequired, ReshapeDiscards
<1>2. /\ shape' = [shape EXCEPT !.total_spheres = Effective(s).spheres]
      /\ UNCHANGED <<batch_count, built, fence, completed, fence_values, ready_count,
                     next_fence_value, event, armed, queue>>
  BY <1>1 DEF Reshape
<1>3. Effective(s).stride > 0
  BY <1>1 DEF IInv, CacheInv
<1>4. /\ cache' \in [DOMAIN cache' -> Entries] /\ file' \in Entries
      /\ CacheInv'
  <2>1. shape'.stride > 0
    BY <1>1, <1>2, <1>3 DEF IInv, TypeOK
  <2>2. setup' = s
    BY <1>1, StartTypes
  <2> QED
    BY <1>1, <1>3, <2>1, <2>2, StageInv DEF CacheInv, Compressed
<1>5. TypeOK'
  <2>1. shape' \in [batch_size : Nat, stride : Nat, total_spheres : Nat,
                    total_batches : Nat]
    BY <1>1, <1>2, StageInv DEF IInv, TypeOK
  <2>2. pc' # "crashed" => built' = "yes"
    BY <1>1, <1>2 DEF IInv, TypeOK
  <2>3. /\ setup' \in Setups /\ runs' \in 0 .. MaxRuns /\ phase' \in Phases
        /\ frame' = 0 /\ batch' = 0
        /\ UNCHANGED <<slot, enqueued, submitted, read, io_next, io_completed, lost>>
    BY <1>1, StartTypes
  <2> QED
    BY <1>1, <1>2, <1>4, <2>1, <2>2, <2>3 DEF IInv, TypeOK, HasSlot, Slots
<1>6. RequestInv'
  <2>1. fence' \in Nat /\ fence <= fence'
    BY <1>2 DEF IInv, TypeOK
  <2> QED
    BY <1>1, <2>1, StartRequests
<1>7. ContextInv' /\ HeldInv' /\ AnswerInv' /\ BufferInv'
  BY <1>1, <1>2, StartKeeps
<1> QED
  BY <1>4, <1>5, <1>6, <1>7 DEF IInv

\* Nothing in the queue and no request belongs to the new fence.
LEMMA RunWithRebuildInv ==
    ASSUME IInv, NEW s \in Setups, RunWithRebuild(s)
    PROVE  IInv'
<1> DEFINE all == 0 .. s.config.batch_count - 1
<1>1. /\ StartRun(s) /\ Stage(s.config, Compressed(s)) /\ pc = "idle"
      /\ pc' = "open" /\ Effective(s).stride > 0
      /\ buffer' = [b \in all |-> NoData] /\ unregistered' = FALSE
  BY DEF RunWithRebuild, StartRun
<1>2. /\ shape' = [batch_size |-> Effective(s).batch_size, stride |-> Effective(s).stride,
                   total_spheres |-> Effective(s).spheres,
                   total_batches |-> TotalBatches(Effective(s).spheres,
                                                  Effective(s).batch_size)]
      /\ batch_count' = s.config.batch_count /\ built' = "yes"
      /\ fence' = fence + 1 /\ completed' = 0 /\ next_fence_value' = 0
      /\ fence_values' = [b \in all |-> 0]
      /\ ready_count' = s.config.batch_count
      /\ UNCHANGED <<event, armed, queue>>
  BY <1>1, StageInv DEF RunWithRebuild, Rebuild
<1>3. s.config.batch_count \in Nat \ {0} /\ fence \in Nat /\ Len(queue) \in Nat
  BY SetupTypes DEF IInv, TypeOK
<1>4. /\ cache' \in [DOMAIN cache' -> Entries] /\ file' \in Entries
      /\ CacheInv'
  <2>1. setup' = s
    BY <1>1, StartTypes
  <2> QED
    BY <1>1, <1>2, <2>1, StageInv DEF CacheInv, Compressed
<1>5. TypeOK'
  <2>1. shape' \in [batch_size : Nat, stride : Nat, total_spheres : Nat,
                    total_batches : Nat]
    BY <1>1, <1>2, StageInv, SetupTypes
  <2>2. /\ fence_values' \in [DOMAIN buffer' -> Nat \cup {Never}]
        /\ buffer' \in [DOMAIN buffer' -> DataTags]
        /\ DOMAIN buffer' \subseteq Nat
        /\ DOMAIN buffer' = Slots'
    BY <1>1, <1>2, <1>3 DEF NoData, DataTags, Slots
  <2>3. \A r \in enqueued' \cup submitted' : r.fence # fence'
    <3>1. enqueued' = enqueued /\ submitted' = submitted /\ fence' = fence + 1
      BY <1>1, <1>2, StartTypes
    <3>2. \A r \in enqueued \cup submitted : r.fence \in Nat /\ r.fence <= fence
      BY RequestTypes DEF IInv, RequestInv, ValueInv, Outstanding
    <3> QED
      BY <1>3, <3>1, <3>2
  <2>4. /\ fence' \in Nat /\ completed' \in Nat /\ next_fence_value' \in Nat
        /\ ready_count' \in Nat /\ batch_count' \in Nat
    BY <1>2, <1>3
  <2> QED
    BY <1>1, <1>2, <1>4, <2>1, <2>2, <2>3, <2>4, StartTypes DEF IInv, TypeOK, HasSlot
<1>6. RequestInv'
  <2>1. fence' \in Nat /\ fence <= fence'
    BY <1>2, <1>3
  <2> QED
    BY <1>1, <2>1, StartRequests
<1>7. \A i \in 1 .. Len(queue) : queue[i].op # "wait" => queue[i].fence < fence'
  BY <1>2, <1>3, QueueTypes DEF IInv, ContextInv, SignalInv
<1>8. \A i \in 1 .. Len(queue) : ~(IsDraw(i)') /\ ~(IsSignal(i)')
  BY <1>2, <1>3, <1>7, QueueTypes DEF IInv, IsDraw, IsSignal
<1>9. ContextInv'
  <2>1. SignalInv'
    BY <1>2, <1>3, <1>7, <1>8, QueueTypes DEF IInv, SignalInv, Never
  <2> QED
    BY <1>1, <1>2, <1>8, <2>1 DEF ContextInv, DrawInv, CpuSlotInv
<1>10. HeldInv' /\ AnswerInv'
  <2>1. /\ Outstanding' = Outstanding /\ UNCHANGED <<io_completed, lost>>
    BY <1>1, StartTypes
  <2> QED
    BY <1>1, <1>2, <1>8, <2>1 DEF IInv, HeldInv, AnswerInv, EveryWaitIsAnswered
<1>11. BufferInv'
  <2>1. \A r \in Writes' : r.fence # fence'
    BY <1>1, <1>2, <1>3, StartTypes, RequestTypes
       DEF IInv, RequestInv, ValueInv, Outstanding, Writes
  <2> QED
    BY <1>1, <1>2, <1>8, <2>1 DEF BufferInv, NoWriteUnderDraw, WriteInv, CpuWriteInv,
       DataInv, Writes, IsDraw
<1> QED
  BY <1>4, <1>5, <1>6, <1>9, <1>10, <1>11 DEF IInv

\* The fence of the run is new.
LEMMA OpenInv == IInv /\ Open => IInv'
<1> SUFFICES ASSUME IInv, Open PROVE IInv'
  OBVIOUS
<1>1. /\ pc = "open" /\ pc' = "poll" /\ io_next' = 0
      /\ UNCHANGED <<contextVars, stagingVars, setup, runs, phase, frame, batch, slot,
                     unregistered, buffer, enqueued, submitted, read, io_completed, lost>>
      /\ Outstanding' = Outstanding /\ Writes' = Writes
  BY DEF Open, Outstanding, Writes
<1>2. TypeOK'
  BY <1>1 DEF IInv, TypeOK, contextVars, Slots, HasSlot, stagingVars
<1>3. ContextInv' /\ CacheInv'
  BY <1>1 DEF IInv, ContextInv, SignalInv, DrawInv, CpuSlotInv, IsDraw, IsSignal,
              contextVars, CacheInv, stagingVars
<1>4. RequestInv'
  BY <1>1 DEF IInv, RequestInv, ValueInv, OrderInv, LostInv, SubmitInv, contextVars
<1>5. HeldInv' /\ AnswerInv'
  BY <1>1 DEF IInv, HeldInv, AnswerInv, EveryWaitIsAnswered, IsDraw, IsWait, contextVars
<1>6. BufferInv'
  BY <1>1 DEF IInv, BufferInv, NoWriteUnderDraw, WriteInv, CpuWriteInv, DataInv,
              Requested, IsDraw, DataOf, Writes, contextVars
<1> QED
  BY <1>2, <1>3, <1>4, <1>5, <1>6 DEF IInv
-----------------------------------------------------------------------------
(* The steps of the CPU that stream a batch.                                *)

\* A slot is handed out: a pending draw or a pending write would keep it from
\* being so.
LEMMA TakeInv ==
    ASSUME IInv, pc \in {"poll", "scan"}, NEW b \in DOMAIN fence_values, Take(b),
           slot' = b, pc' = "enqueue",
           UNCHANGED <<event, stagingVars, setup, runs, phase, frame, batch,
                       unregistered, ioVars>>
    PROVE  IInv'
<1>1. built = "yes"
  BY DEF IInv, TypeOK
<1>2. /\ fence_values[b] # Never /\ fence_values[b] <= completed
      /\ ready_count' \in Nat
      /\ fence_values' = [fence_values EXCEPT ![b] = Never]
      /\ UNCHANGED <<shape, batch_count, built, fence, completed, next_fence_value,
                     armed, queue, buffer, enqueued, submitted, read, io_next,
                     io_completed, lost, cache, file>>
      /\ Outstanding' = Outstanding /\ Writes' = Writes
  BY <1>1, TakeTypes DEF IInv, Take, ioVars, stagingVars, Outstanding, Writes
<1>3. /\ fence_values \in [DOMAIN fence_values -> Nat \cup {Never}]
      /\ completed \in Nat /\ fence_values'[b] = Never
      /\ \A c \in DOMAIN fence_values : c # b => fence_values'[c] = fence_values[c]
      /\ DOMAIN fence_values' = DOMAIN fence_values
  BY <1>2 DEF IInv, TypeOK
<1>4. TypeOK'
  BY <1>1, <1>2, <1>3 DEF IInv, TypeOK, Slots
<1>5. \A i \in 1 .. Len(queue) : IsDraw(i) => queue[i].slot # b
  <2> SUFFICES ASSUME NEW i \in 1 .. Len(queue), IsDraw(i), queue[i].slot = b
               PROVE  FALSE
    OBVIOUS
  <2>1. completed < fence_values[b]
    BY <1>2 DEF IInv, ContextInv, DrawInv
  <2> QED
    BY <1>2, <1>3, <2>1
<1>6. ContextInv'
  <2>1. SignalInv'
    BY <1>2, <1>3 DEF IInv, ContextInv, SignalInv, IsSignal
  <2>2. DrawInv'
    BY <1>2, <1>3, <1>5 DEF IInv, ContextInv, DrawInv, IsDraw, IsSignal
  <2>3. CpuSlotInv'
    BY <1>2, <1>3, <1>5 DEF CpuSlotInv, IsDraw
  <2> QED
    BY <2>1, <2>2, <2>3 DEF ContextInv
<1>7. RequestInv'
  BY <1>2 DEF IInv, RequestInv, ValueInv, OrderInv, LostInv, SubmitInv
<1>8. HeldInv' /\ AnswerInv' /\ CacheInv'
  BY <1>2 DEF IInv, HeldInv, AnswerInv, EveryWaitIsAnswered, IsDraw, IsWait, CacheInv
<1>9. \A r \in Writes : r.fence = fence => r.slot # b
  <2> SUFFICES ASSUME NEW r \in Writes, r.fence = fence, r.slot = b PROVE FALSE
    OBVIOUS
  <2>1. fence_values[b] = Never
    BY <1>5 DEF IInv, BufferInv, WriteInv
  <2> QED
    BY <1>2, <2>1
<1>10. BufferInv'
  <2>1. NoWriteUnderDraw' /\ DataInv'
    BY <1>2 DEF IInv, BufferInv, NoWriteUnderDraw, DataInv, Requested, IsDraw,
                DataOf, Writes
  <2>2. WriteInv'
    <3> SUFFICES ASSUME NEW r \in Writes, r.fence = fence
                 PROVE  \/ \E i \in 1 .. Len(queue) : IsDraw(i) /\ queue[i].slot = r.slot
                        \/ fence_values'[r.slot] = Never
      BY <1>2 DEF WriteInv, IsDraw
    <3>1. r.slot \in DOMAIN fence_values
      BY DEF IInv, TypeOK, Writes
    <3> QED
      BY <1>3, <1>9, <3>1 DEF IInv, BufferInv, WriteInv
  <2>3. CpuWriteInv'
    BY <1>2, <1>9 DEF CpuWriteInv
  <2> QED
    BY <2>1, <2>2, <2>3 DEF BufferInv
<1> QED
  BY <1>4, <1>6, <1>7, <1>8, <1>10 DEF IInv

LEMMA SlotStepInv ==
    IInv /\ (\/ TryNextBatch /\ pc' = "enqueue"
             \/ NextBatch /\ pc' = "enqueue"
             \/ Scan /\ pc' = "enqueue")
        => IInv'
<1>1. ASSUME IInv, TryNextBatch, pc' = "enqueue" PROVE IInv'
  BY <1>1, TakeInv DEF TryNextBatch, ioVars, stagingVars
<1>2. ASSUME IInv, NextBatch, pc' = "enqueue" PROVE IInv'
  BY <1>2, TakeInv DEF NextBatch, NextBatchReady, ioVars, stagingVars
<1>3. ASSUME IInv, Scan, pc' = "enqueue" PROVE IInv'
  BY <1>3, TakeInv DEF Scan, NextBatchRescan, ioVars, stagingVars
<1> QED
  BY <1>1, <1>2, <1>3

\* The new request has the largest value of its run.
LEMMA EnqueueInv == IInv /\ Enqueue => IInv'
<1> SUFFICES ASSUME IInv, Enqueue PROVE IInv'
  OBVIOUS
<1> DEFINE new == Request(io_next + 1)
<1>1. /\ pc = "enqueue" /\ pc' = "hold" /\ io_next' = io_next + 1
      /\ \/ submitted' = submitted \cup enqueued \cup {new} /\ enqueued' = {}
         \/ /\ enqueued' = enqueued \cup {new} /\ submitted' = submitted
            /\ ~(Naive \/ (LastBatch /\ SubmitsEarly))
      /\ UNCHANGED <<contextVars, stagingVars, setup, runs, phase, frame, batch, slot,
                     unregistered, buffer, read, io_completed, lost>>
  BY DEF Enqueue, EnqueueAs
<1>2. /\ Outstanding' = Outstanding \cup {new} /\ Writes' = Writes \cup {new}
      /\ UNCHANGED <<fence, queue, fence_values, completed, next_fence_value>>
  BY <1>1 DEF Outstanding, Writes, contextVars
<1>3. /\ runs \in 1 .. MaxRuns /\ runs \in Nat /\ io_next \in Nat /\ fence \in Nat
      /\ slot \in Nat /\ slot \in DOMAIN buffer /\ MaxRuns \in Nat
  <2>1. /\ MaxRuns \in Nat /\ runs \in Nat /\ io_next \in Nat /\ fence \in Nat
    BY RequestTypes DEF IInv
  <2>2. runs \in 1 .. MaxRuns
    <3>1. runs \in 0 .. MaxRuns
      BY DEF IInv, TypeOK
    <3>2. runs > 0
      BY <1>1 DEF IInv, RequestInv, ValueInv
    <3> QED
      BY <2>1, <3>1, <3>2
  <2>3. slot \in Nat /\ slot \in DOMAIN buffer
    <3>1. slot \in Slots /\ slot \in Nat /\ built = "yes"
      BY <1>1 DEF IInv, TypeOK, HasSlot
    <3> QED
      BY <3>1 DEF IInv, TypeOK
  <2> QED
    BY <2>1, <2>2, <2>3
<1>4. /\ new \in Requests /\ new.run = runs /\ new.value = io_next + 1
      /\ new.slot = slot /\ new.fence = fence
  BY <1>3 DEF Request, Requests
<1> HIDE DEF new
<1>5. TypeOK'
  <2>1. enqueued' \subseteq Requests /\ submitted' \subseteq Requests
    BY <1>1, <1>4 DEF IInv, TypeOK
  <2>2. \A r \in enqueued' \cup submitted' : r.fence = fence => r.slot \in DOMAIN buffer
    BY <1>1, <1>3, <1>4 DEF IInv, TypeOK
  <2>3. /\ UNCHANGED <<shape, batch_count, built, fence, completed, fence_values,
                       ready_count, next_fence_value, event, armed, queue, cache, file,
                       setup, runs, phase, frame, batch, slot, unregistered, buffer,
                       read, io_completed, lost>>
        /\ pc' = "hold" /\ io_next' \in Nat /\ slot \in Slots /\ built = "yes"
    BY <1>1, <1>3, SMTT(20) DEF IInv, TypeOK, contextVars, stagingVars, HasSlot
  <2> QED
    BY <2>1, <2>2, <2>3 DEF IInv, TypeOK, Slots, HasSlot
<1>6. ContextInv' /\ CacheInv'
  BY <1>1 DEF IInv, ContextInv, SignalInv, DrawInv, CpuSlotInv, IsDraw, IsSignal,
              contextVars, CacheInv, stagingVars
<1>7. \A r \in Outstanding : r.run = runs => r.value < new.value /\ r # new
  BY <1>3, <1>4, RequestTypes DEF IInv, RequestInv, ValueInv
<1>8. \A l \in lost : l.run # runs
  BY <1>1, <1>3, RequestTypes DEF IInv, RequestInv, LostInv
<1>9. ValueInv'
  <2>1. io_completed[runs] <= io_next /\ io_completed[runs] \in Nat
    BY <1>3, RequestTypes DEF IInv, RequestInv, ValueInv
  <2>2. \A r \in Outstanding' : /\ r.run <= runs /\ r.fence <= fence
                                /\ io_completed[r.run] < r.value
                                /\ r.run = runs => r.value <= io_next + 1
    <3>1. \A r \in Outstanding : r.run = runs => r.value <= io_next + 1
      BY <1>3, <1>4, <1>7, RequestTypes DEF IInv
    <3> QED
      BY <1>2, <1>3, <1>4, <2>1, <3>1 DEF IInv, RequestInv, ValueInv
  <2> QED
    BY <1>1, <1>2, <1>3, <2>1, <2>2 DEF IInv, RequestInv, ValueInv
<1>10. OrderInv'
  <2>1. \A q, r \in Outstanding' : q.run = r.run /\ q.value = r.value => q = r
    BY <1>2, <1>3, <1>4, <1>7, RequestTypes DEF IInv, RequestInv, OrderInv
  <2>2. \A e \in enqueued : e \notin read /\ e \notin submitted
    <3> SUFFICES ASSUME NEW e \in enqueued, e \in submitted \cup read PROVE FALSE
      OBVIOUS
    <3>1. e.value < e.value /\ e.value \in Nat
      BY RequestTypes DEF IInv, RequestInv, OrderInv, Outstanding
    <3> QED
      BY <3>1
  <2>3. new \notin read
    BY <1>4, <1>7 DEF Outstanding
  <2>4. submitted' \cap read' = {}
    BY <1>1, <2>2, <2>3 DEF IInv, RequestInv, OrderInv
  <2>5. \A e \in enqueued', r \in submitted' \cup read' :
            r.run = e.run => r.value < e.value
    BY <1>1, <1>4, <1>7 DEF IInv, RequestInv, OrderInv, Outstanding
  <2>6. \A e \in enqueued' : e.run = runs
    BY <1>1, <1>4 DEF IInv, RequestInv, OrderInv
  <2> QED
    BY <1>1, <2>1, <2>4, <2>5, <2>6 DEF OrderInv
<1>11. LostInv'
  BY <1>1, <1>2, <1>4, <1>8 DEF IInv, RequestInv, LostInv
<1>12. SubmitInv'
  BY <1>1 DEF SubmitInv, Naive, LastBatch, SubmitsEarly, contextVars
<1>13. HeldInv' /\ AnswerInv'
  <2>1. HeldInv'
    BY <1>1, <1>2 DEF IInv, HeldInv, IsDraw, IsWait
  <2>2. EveryWaitIsAnswered'
    BY <1>1, <1>2 DEF IInv, AnswerInv, EveryWaitIsAnswered
  <2>3. Answered(runs, io_next)'
    BY <1>1, <1>2, <1>4 DEF Answered
  <2> QED
    BY <2>1, <2>2, <2>3 DEF AnswerInv
<1>14. BufferInv'
  <2>1. \A i \in 1 .. Len(queue) : IsDraw(i) => queue[i].slot # slot
    BY <1>1 DEF IInv, ContextInv, CpuSlotInv
  <2>2. NoWriteUnderDraw'
    BY <1>2, <1>4, <2>1 DEF IInv, BufferInv, NoWriteUnderDraw, Writes, IsDraw, DataOf
  <2>3. WriteInv'
    <3>1. fence_values[slot] = Never
      BY <1>1 DEF IInv, ContextInv, CpuSlotInv
    <3> QED
      BY <1>1, <1>2, <1>4, <3>1 DEF IInv, BufferInv, WriteInv, IsDraw
  <2>4. DataOf(new) = Data'
    BY <1>1, <1>4 DEF DataOf, Data
  <2>5. CpuWriteInv'
    BY <1>1, <1>2, <2>4 DEF IInv, BufferInv, CpuWriteInv
  <2>6. DataInv'
    <3>1. \A i \in 1 .. Len(queue) : IsDraw(i) =>
              Requested(queue[i].slot, queue[i].data)'
      BY <1>1, <1>2 DEF IInv, BufferInv, DataInv, Requested, DataOf
    <3>2. Requested(slot, Data)'
      BY <1>1, <1>2, <1>4, <2>4 DEF Requested, DataOf
    <3> QED
      BY <1>1, <1>2, <3>1, <3>2 DEF DataInv, IsDraw
  <2> QED
    BY <2>2, <2>3, <2>5, <2>6 DEF BufferInv
<1> QED
  BY <1>5, <1>6, <1>9, <1>10, <1>11, <1>12, <1>13, <1>14 DEF IInv, RequestInv
\* What an appended operation leaves as it was.
LEMMA AppendKeeps ==
    ASSUME TypeOK, NEW e \in Operations, queue' = Append(queue, e), UNCHANGED fence
    PROVE  /\ \A i \in 1 .. Len(queue) :
                 /\ queue'[i] = queue[i] /\ i \in 1 .. Len(queue')
                 /\ IsDraw(i)' <=> IsDraw(i)
                 /\ IsSignal(i)' <=> IsSignal(i)
                 /\ \A run, value : IsWait(i, run, value)' <=> IsWait(i, run, value)
           /\ \A i \in 1 .. Len(queue') : i \in 1 .. Len(queue) \/ queue'[i] = e
           /\ \A i \in 1 .. Len(queue) : \A j \in 1 .. i : j \in 1 .. Len(queue)
  BY AppendQueue DEF IsDraw, IsSignal, IsWait

\* The GPU is told to wait for the request.
LEMMA HoldInv == IInv /\ Hold => IInv'
<1> SUFFICES ASSUME IInv, Hold PROVE IInv'
  OBVIOUS
<1> DEFINE e == [op |-> "wait", fence |-> runs, value |-> io_next]
<1>1. /\ pc = "hold" /\ pc' = "execute" /\ queue' = Append(queue, e)
      /\ UNCHANGED <<shape, batch_count, built, fence, completed, fence_values,
                     ready_count, next_fence_value, event, armed, cache, file, setup,
                     runs, phase, frame, batch, slot, unregistered, buffer, enqueued,
                     submitted, read, io_next, io_completed, lost>>
      /\ Outstanding' = Outstanding /\ Writes' = Writes
  BY DEF Hold, HoldFor, stagingVars, ioVars, Outstanding, Writes
<1>2. /\ e \in Operations /\ e.op = "wait" /\ e.fence = runs /\ e.value = io_next
      /\ runs \in 1 .. MaxRuns /\ io_next \in Nat
  BY <1>1, RequestTypes DEF IInv, TypeOK, RequestInv, ValueInv, Operations
<1> HIDE DEF e
<1>3. /\ queue' \in Seq(Operations) /\ Len(queue) \in Nat
      /\ Len(queue') = Len(queue) + 1 /\ queue'[Len(queue) + 1] = e
  BY <1>1, <1>2, AppendQueue DEF IInv
<1>4. /\ \A i \in 1 .. Len(queue) :
            /\ queue'[i] = queue[i] /\ i \in 1 .. Len(queue')
            /\ IsDraw(i)' <=> IsDraw(i)
            /\ IsSignal(i)' <=> IsSignal(i)
            /\ \A run, value : IsWait(i, run, value)' <=> IsWait(i, run, value)
      /\ \A i \in 1 .. Len(queue') : i \in 1 .. Len(queue) \/ queue'[i] = e
      /\ \A i \in 1 .. Len(queue) : \A j \in 1 .. i : j \in 1 .. Len(queue)
  BY <1>1, <1>2, AppendKeeps DEF IInv
<1>5. \A i \in 1 .. Len(queue') : IsDraw(i)' \/ IsSignal(i)' => i \in 1 .. Len(queue)
  BY <1>2, <1>4 DEF IsDraw, IsSignal
<1>6. TypeOK'
  BY <1>1, <1>3 DEF IInv, TypeOK, Slots, HasSlot
<1>7. ContextInv'
  <2>1. SignalInv'
    BY <1>1, <1>2, <1>4, <1>5 DEF IInv, ContextInv, SignalInv
  <2>2. DrawInv'
    BY <1>1, <1>4, <1>5 DEF IInv, ContextInv, DrawInv
  <2>3. CpuSlotInv'
    BY <1>1, <1>4, <1>5 DEF IInv, ContextInv, CpuSlotInv
  <2> QED
    BY <2>1, <2>2, <2>3 DEF ContextInv
<1>8. RequestInv' /\ CacheInv'
  BY <1>1 DEF IInv, RequestInv, ValueInv, OrderInv, LostInv, SubmitInv, CacheInv,
              Naive, LastBatch, SubmitsEarly
<1>9. HeldInv'
  <2>1. ASSUME NEW i \in 1 .. Len(queue'), IsDraw(i)'
        PROVE  /\ queue'[i].data.run \in 1 .. MaxRuns
               /\ \/ queue'[i].data.request <= io_completed'[queue'[i].data.run]
                  \/ \E j \in 1 .. i : IsWait(j, queue[i].data.run, queue[i].data.request)'
    <3>1. i \in 1 .. Len(queue) /\ IsDraw(i) /\ queue'[i] = queue[i]
      BY <1>4, <1>5, <2>1
    <3>2. CASE queue[i].data.request <= io_completed[queue[i].data.run]
      BY <1>1, <3>1, <3>2 DEF IInv, HeldInv
    <3>3. CASE \E j \in 1 .. i : IsWait(j, queue[i].data.run, queue[i].data.request)
      <4>1. PICK j \in 1 .. i : IsWait(j, queue[i].data.run, queue[i].data.request)
        BY <3>3
      <4>2. IsWait(j, queue[i].data.run, queue[i].data.request)'
        BY <1>4, <3>1, <4>1 DEF IsWait
      <4> QED
        BY <3>1, <4>2 DEF IInv, HeldInv
    <3> QED
      BY <3>1, <3>2, <3>3 DEF IInv, HeldInv
  <2>2. Held(runs, io_next)'
    BY <1>1, <1>2, <1>3 DEF Held, IsWait
  <2> QED
    BY <2>1, <2>2 DEF HeldInv
<1>10. AnswerInv'
  <2>1. \A i \in 1 .. Len(queue') : queue'[i].op = "wait" =>
            Answered(queue'[i].fence, queue'[i].value)
    BY <1>1, <1>2, <1>4 DEF IInv, AnswerInv, EveryWaitIsAnswered, Answered
  <2> QED
    BY <1>1, <2>1 DEF AnswerInv, EveryWaitIsAnswered, Answered
<1>11. BufferInv'
  <2>1. NoWriteUnderDraw'
    BY <1>1, <1>4, <1>5 DEF IInv, BufferInv, NoWriteUnderDraw, IsDraw, DataOf
  <2>2. WriteInv'
    BY <1>1, <1>4 DEF IInv, BufferInv, WriteInv
  <2>3. CpuWriteInv'
    BY <1>1 DEF IInv, BufferInv, CpuWriteInv, DataOf, Data
  <2>4. DataInv'
    <3>1. \A i \in 1 .. Len(queue) : IsDraw(i) =>
              Requested(queue[i].slot, queue[i].data)'
      BY <1>1 DEF IInv, BufferInv, DataInv, Requested, DataOf
    <3>2. Requested(slot, Data)'
      BY <1>1 DEF IInv, BufferInv, DataInv, Requested, DataOf, Data
    <3> QED
      BY <1>1, <1>4, <1>5, <3>1, <3>2 DEF DataInv
  <2> QED
    BY <2>1, <2>2, <2>3, <2>4 DEF BufferInv
<1> QED
  BY <1>6, <1>7, <1>8, <1>9, <1>10, <1>11 DEF IInv
\* A draw is appended, for which the GPU has been told to wait.
LEMMA DrawStepInv == IInv /\ Draw => IInv'
<1> SUFFICES ASSUME IInv, Draw PROVE IInv'
  OBVIOUS
<1> DEFINE e == [op |-> "draw", fence |-> fence, slot |-> slot, data |-> Data]
<1>1. /\ pc = "execute" /\ pc' = "signal" /\ queue' = Append(queue, e)
      /\ UNCHANGED <<shape, batch_count, built, fence, completed, fence_values,
                     ready_count, next_fence_value, event, armed, cache, file, setup,
                     runs, phase, frame, batch, slot, unregistered, buffer, enqueued,
                     submitted, read, io_next, io_completed, lost>>
      /\ Outstanding' = Outstanding /\ Writes' = Writes
  BY DEF Draw, Execute, stagingVars, ioVars, Outstanding, Writes
<1>2. /\ runs \in 1 .. MaxRuns /\ runs \in Nat /\ io_next \in Nat /\ fence \in Nat
      /\ slot \in Nat /\ slot \in DOMAIN fence_values /\ fence_values[slot] = Never
  BY <1>1, RequestTypes DEF IInv, TypeOK, RequestInv, ValueInv, HasSlot, ContextInv,
                            CpuSlotInv
<1>3. /\ e \in Operations /\ e.op = "draw" /\ e.fence = fence /\ e.slot = slot
      /\ e.data = Data /\ Data.run = runs /\ Data.request = io_next
  <2>1. Data \in DataTags
    BY <1>2 DEF Data, DataTags
  <2> QED
    BY <1>2, <2>1 DEF Operations, Data
<1> HIDE DEF e
<1>4. /\ queue' \in Seq(Operations) /\ Len(queue) \in Nat
      /\ Len(queue') = Len(queue) + 1 /\ queue'[Len(queue) + 1] = e
      /\ \A i \in 1 .. Len(queue') : i \in 1 .. Len(queue) \/ i = Len(queue) + 1
  BY <1>1, <1>3, AppendQueue DEF IInv
<1>5. /\ \A i \in 1 .. Len(queue) :
            /\ queue'[i] = queue[i] /\ i \in 1 .. Len(queue')
            /\ IsDraw(i)' <=> IsDraw(i)
            /\ IsSignal(i)' <=> IsSignal(i)
            /\ \A run, value : IsWait(i, run, value)' <=> IsWait(i, run, value)
      /\ \A i \in 1 .. Len(queue') : i \in 1 .. Len(queue) \/ queue'[i] = e
      /\ \A i \in 1 .. Len(queue) : \A j \in 1 .. i : j \in 1 .. Len(queue)
  BY <1>1, <1>3, AppendKeeps DEF IInv
<1>6. \A i \in 1 .. Len(queue') : IsSignal(i)' => i \in 1 .. Len(queue)
  BY <1>3, <1>5 DEF IsSignal
<1>7. TypeOK'
  BY <1>1, <1>4 DEF IInv, TypeOK, Slots, HasSlot
<1>8. ContextInv'
  <2>1. SignalInv'
    BY <1>1, <1>2, <1>3, <1>5, <1>6 DEF IInv, ContextInv, SignalInv
  <2>2. DrawInv'
    <3> SUFFICES ASSUME NEW i \in 1 .. Len(queue'), IsDraw(i)'
                 PROVE  /\ queue'[i].slot \in DOMAIN fence_values
                        /\ fence_values[queue'[i].slot] # Never =>
                              /\ completed < fence_values[queue'[i].slot]
                              /\ \A j \in 1 .. i : IsSignal(j)' =>
                                     queue'[j].value < fence_values[queue'[i].slot]
      BY <1>1 DEF DrawInv
    <3>1. CASE i \in 1 .. Len(queue)
      BY <1>5, <3>1 DEF IInv, ContextInv, DrawInv
    <3>2. CASE queue'[i] = e
      BY <1>2, <1>3, <3>2
    <3> QED
      BY <1>5, <3>1, <3>2
  <2>3. CpuSlotInv'
    BY <1>1, <1>2 DEF CpuSlotInv
  <2> QED
    BY <2>1, <2>2, <2>3 DEF ContextInv
<1>9. RequestInv' /\ CacheInv'
  BY <1>1 DEF IInv, RequestInv, ValueInv, OrderInv, LostInv, SubmitInv, CacheInv,
              Naive, LastBatch, SubmitsEarly
<1>10. HeldInv'
  <2> SUFFICES ASSUME NEW i \in 1 .. Len(queue'), IsDraw(i)'
               PROVE  /\ queue'[i].data.run \in 1 .. MaxRuns
                      /\ \/ queue'[i].data.request <= io_completed[queue'[i].data.run]
                         \/ \E j \in 1 .. i : /\ queue'[j].op = "wait"
                                              /\ queue'[j].fence = queue'[i].data.run
                                              /\ queue'[j].value = queue'[i].data.request
    BY <1>1 DEF HeldInv, IsWait
  <2>1. CASE i \in 1 .. Len(queue)
    <3>1. IsDraw(i) /\ queue'[i] = queue[i] /\ \A j \in 1 .. i : queue'[j] = queue[j]
      BY <1>5, <2>1
    <3> QED
      BY <2>1, <3>1 DEF IInv, HeldInv, IsWait
  <2>2. CASE i = Len(queue) + 1
    <3>1. queue'[i].data = Data
      BY <1>3, <1>4, <2>2
    <3>2. Held(runs, io_next)
      BY <1>1 DEF IInv, HeldInv
    <3>3. CASE io_next <= io_completed[runs]
      BY <1>2, <1>3, <3>1, <3>3
    <3>4. CASE \E j \in 1 .. Len(queue) : IsWait(j, runs, io_next)
      <4>1. PICK j \in 1 .. Len(queue) : IsWait(j, runs, io_next)
        BY <3>4
      <4>2. j \in 1 .. i /\ queue'[j] = queue[j]
        BY <1>4, <1>5, <2>2
      <4> QED
        BY <1>2, <1>3, <3>1, <4>1, <4>2 DEF IsWait
    <3> QED
      BY <3>2, <3>3, <3>4 DEF Held
  <2> QED
    BY <1>4, <2>1, <2>2
<1>11. AnswerInv'
  BY <1>1, <1>3, <1>5 DEF IInv, AnswerInv, EveryWaitIsAnswered
<1>12. BufferInv'
  <2>1. NoWriteUnderDraw'
    <3>1. \A r \in Writes : r.fence = fence /\ r.slot = slot => DataOf(r) = Data
      BY <1>1 DEF IInv, BufferInv, CpuWriteInv
    <3> QED
      BY <1>1, <1>3, <1>5, <3>1 DEF IInv, BufferInv, NoWriteUnderDraw, DataOf, Writes
  <2>2. WriteInv'
    <3> SUFFICES ASSUME NEW r \in Writes, r.fence = fence
                 PROVE  \/ \E i \in 1 .. Len(queue') : /\ queue'[i].op = "draw"
                                                       /\ queue'[i].fence = fence
                                                       /\ queue'[i].slot = r.slot
                        \/ fence_values[r.slot] = Never /\ slot # r.slot
      BY <1>1 DEF WriteInv, IsDraw
    <3>1. CASE r.slot = slot
      BY <1>3, <1>4, <3>1
    <3>2. CASE r.slot # slot
      BY <1>5, <3>2 DEF IInv, BufferInv, WriteInv, IsDraw
    <3> QED
      BY <3>1, <3>2
  <2>3. CpuWriteInv'
    BY <1>1 DEF CpuWriteInv
  <2>4. DataInv'
    <3>1. /\ \A i \in 1 .. Len(queue) : IsDraw(i) =>
                Requested(queue[i].slot, queue[i].data)
          /\ Requested(slot, Data)
      BY <1>1 DEF IInv, BufferInv, DataInv
    <3>2. \A i \in 1 .. Len(queue') : IsDraw(i)' =>
              Requested(queue'[i].slot, queue'[i].data)
      BY <1>3, <1>5, <3>1
    <3> QED
      BY <1>1, <3>2 DEF DataInv, Requested
  <2> QED
    BY <2>1, <2>2, <2>3, <2>4 DEF BufferInv
<1> QED
  BY <1>7, <1>8, <1>9, <1>10, <1>11, <1>12 DEF IInv
-----------------------------------------------------------------------------
(* signal_done, and exceptions.                                             *)

\* signal_done up to Signal: the slot is given the value after the last one,
\* which may be pending in the queue or not.
LEMMA MarkInv ==
    ASSUME IInv, pc = "signal", pc' \in {"register", "idle"},
           next_fence_value' = next_fence_value + 1,
           fence_values' = [fence_values EXCEPT ![slot] = next_fence_value + 1],
           UNCHANGED <<fence, completed, buffer, slot>>,
           \/ queue' = queue
           \/ queue' = Append(queue, [op |-> "signal", fence |-> fence,
                                      value |-> next_fence_value + 1])
    PROVE  /\ queue' \in Seq(Operations) /\ next_fence_value' \in Nat
           /\ fence_values' \in [DOMAIN buffer -> Nat \cup {Never}]
           /\ \A i \in 1 .. Len(queue) :
                 /\ queue'[i] = queue[i] /\ i \in 1 .. Len(queue')
                 /\ \A j \in 1 .. i : j \in 1 .. Len(queue)
           /\ \A i \in 1 .. Len(queue') :
                 i \in 1 .. Len(queue) \/ queue'[i].op = "signal"
           /\ ContextInv'
           /\ \A r \in Writes : r.fence = fence =>
                 \/ \E i \in 1 .. Len(queue) : IsDraw(i) /\ queue[i].slot = r.slot
                 \/ fence_values'[r.slot] = Never
<1> DEFINE e == [op |-> "signal", fence |-> fence, value |-> next_fence_value + 1]
<1>1. /\ fence \in Nat /\ completed \in Nat /\ next_fence_value \in Nat
      /\ Len(queue) \in Nat /\ queue \in Seq(Operations)
      /\ slot \in DOMAIN fence_values
      /\ fence_values \in [DOMAIN fence_values -> Nat \cup {Never}]
      /\ DOMAIN fence_values = DOMAIN fence_values'
      /\ DOMAIN fence_values = DOMAIN buffer
      /\ fence_values[slot] = Never
  BY DEF IInv, TypeOK, HasSlot, ContextInv, CpuSlotInv
<1>2. e \in Operations
  BY <1>1 DEF Operations
<1>3. e.op = "signal" /\ e.fence = fence /\ e.value = next_fence_value + 1
  OBVIOUS
<1>4. queue' = queue \/ queue' = Append(queue, e)
  OBVIOUS
<1> HIDE DEF e
<1>5. /\ queue' \in Seq(Operations)
      /\ \A i \in 1 .. Len(queue) : queue'[i] = queue[i] /\ i \in 1 .. Len(queue')
      /\ \A i \in 1 .. Len(queue') : \/ i \in 1 .. Len(queue)
                                     \/ i = Len(queue) + 1 /\ queue'[i] = e
  <2>1. CASE queue' = queue
    BY <1>1, <2>1
  <2>2. CASE queue' = Append(queue, e)
    BY <1>2, <2>2, AppendQueue DEF IInv
  <2> QED
    BY <1>4, <2>1, <2>2
<1>6. \A i \in 1 .. Len(queue) : \A j \in 1 .. i : j \in 1 .. Len(queue)
  BY <1>1
<1>7. SignalInv'
  <2>1. completed' <= next_fence_value'
    BY <1>1 DEF IInv, ContextInv, SignalInv
  <2>2. \A i \in 1 .. Len(queue') : queue'[i].op # "wait" => queue'[i].fence <= fence'
    BY <1>1, <1>3, <1>5 DEF IInv, ContextInv, SignalInv
  <2>3. \A i \in 1 .. Len(queue) : IsSignal(i) =>
            /\ completed < queue[i].value /\ queue[i].value < next_fence_value + 1
            /\ queue[i].value \in Nat
    BY <1>1, QueueTypes DEF IInv, ContextInv, SignalInv, IsSignal
  <2>4. \A i \in 1 .. Len(queue) : IsSignal(i)' <=> IsSignal(i)
    BY <1>5 DEF IsSignal
  <2>5. \A i \in 1 .. Len(queue') : IsSignal(i)' =>
            completed' < queue'[i].value /\ queue'[i].value <= next_fence_value'
    <3>1. completed < next_fence_value + 1
      BY <1>1 DEF IInv, ContextInv, SignalInv
    <3> QED
      BY <1>1, <1>3, <1>5, <2>3, <2>4, <3>1
  <2>6. \A i, j \in 1 .. Len(queue') :
            i < j /\ IsSignal(i)' /\ IsSignal(j)' => queue'[i].value < queue'[j].value
    <3>1. ASSUME NEW i \in 1 .. Len(queue'), NEW j \in 1 .. Len(queue'),
                 i < j, IsSignal(i)', IsSignal(j)'
          PROVE  queue'[i].value < queue'[j].value
      <4>1. i \in 1 .. Len(queue)
        BY <1>1, <1>5, <3>1
      <4>2. IsSignal(i) /\ queue'[i] = queue[i]
        BY <1>5, <2>4, <3>1, <4>1
      <4>3. CASE j = Len(queue) + 1 /\ queue'[j] = e
        BY <1>3, <2>3, <4>1, <4>2, <4>3
      <4>4. CASE j \in 1 .. Len(queue)
        <5>1. IsSignal(j) /\ queue'[j] = queue[j]
          BY <1>5, <2>4, <3>1, <4>4
        <5> QED
          BY <3>1, <4>1, <4>2, <4>4, <5>1 DEF IInv, ContextInv, SignalInv
      <4> QED
        BY <1>5, <4>3, <4>4
    <3> QED
      BY <3>1
  <2>7. \A b \in DOMAIN fence_values' :
            fence_values'[b] # Never => fence_values'[b] <= next_fence_value'
    BY <1>1 DEF IInv, ContextInv, SignalInv, Never
  <2> QED
    BY <2>1, <2>2, <2>5, <2>6, <2>7 DEF SignalInv
<1>8. DrawInv'
  <2> SUFFICES ASSUME NEW i \in 1 .. Len(queue'), IsDraw(i)'
               PROVE  /\ queue'[i].slot \in DOMAIN fence_values'
                      /\ fence_values'[queue'[i].slot] # Never =>
                            /\ completed < fence_values'[queue'[i].slot]
                            /\ \A j \in 1 .. i : IsSignal(j)' =>
                                   queue'[j].value < fence_values'[queue'[i].slot]
    BY DEF DrawInv
  <2>1. i \in 1 .. Len(queue)
    BY <1>3, <1>5 DEF IsDraw
  <2>2. queue'[i] = queue[i] /\ IsDraw(i)
    BY <1>5, <2>1 DEF IsDraw
  <2>3. \A j \in 1 .. i : queue'[j] = queue[j] /\ (IsSignal(j)' <=> IsSignal(j))
    BY <1>1, <1>5, <2>1 DEF IsSignal
  <2>4. CASE queue[i].slot = slot
    <3>1. fence_values'[slot] = next_fence_value + 1
      BY <1>1
    <3>2. \A j \in 1 .. i : IsSignal(j) => queue[j].value < next_fence_value + 1
      <4>1. \A j \in 1 .. i : j \in 1 .. Len(queue)
        BY <1>6, <2>1
      <4>2. \A j \in 1 .. i : IsSignal(j) => queue[j].value \in Nat
        BY <4>1, QueueTypes DEF IInv, IsSignal
      <4> QED
        BY <1>1, <4>1, <4>2 DEF IInv, ContextInv, SignalInv
    <3>3. completed < next_fence_value + 1
      BY <1>1 DEF IInv, ContextInv, SignalInv
    <3> QED
      BY <1>1, <2>2, <2>3, <2>4, <3>1, <3>2, <3>3
  <2>5. CASE queue[i].slot # slot
    <3>1. queue[i].slot \in DOMAIN fence_values
      BY <2>1, <2>2 DEF IInv, ContextInv, DrawInv
    <3>2. fence_values'[queue[i].slot] = fence_values[queue[i].slot]
      BY <1>1, <2>5, <3>1
    <3> QED
      BY <1>1, <2>1, <2>2, <2>3, <3>1, <3>2 DEF IInv, ContextInv, DrawInv
  <2> QED
    BY <2>4, <2>5
<1>9. CpuSlotInv'
  BY DEF CpuSlotInv
<1>10. \A r \in Writes : r.fence = fence =>
           \/ \E i \in 1 .. Len(queue) : IsDraw(i) /\ queue[i].slot = r.slot
           \/ fence_values'[r.slot] = Never
  BY <1>1 DEF IInv, BufferInv, WriteInv
<1>11. fence_values' \in [DOMAIN buffer -> Nat \cup {Never}] /\ next_fence_value' \in Nat
  BY <1>1
<1> QED
  BY <1>3, <1>5, <1>6, <1>7, <1>8, <1>9, <1>10, <1>11 DEF ContextInv
LEMMA SignalStepInv == IInv /\ Signal => IInv'
<1> SUFFICES ASSUME IInv, Signal PROVE IInv'
  OBVIOUS
<1>1. /\ pc = "signal" /\ pc' = "register"
      /\ next_fence_value' = next_fence_value + 1
      /\ fence_values' = [fence_values EXCEPT ![slot] = next_fence_value + 1]
      /\ queue' = Append(queue, [op |-> "signal", fence |-> fence,
                                 value |-> next_fence_value + 1])
      /\ UNCHANGED <<shape, batch_count, built, fence, completed, ready_count, event,
                     armed, cache, file, setup, runs, phase, frame, batch, slot,
                     unregistered, buffer, enqueued, submitted, read, io_next,
                     io_completed, lost>>
      /\ Outstanding' = Outstanding /\ Writes' = Writes
  BY DEF Signal, SignalDone, stagingVars, ioVars, Outstanding, Writes
<1>2. /\ queue' \in Seq(Operations) /\ next_fence_value' \in Nat
      /\ fence_values' \in [DOMAIN buffer -> Nat \cup {Never}]
      /\ \A i \in 1 .. Len(queue) :
            /\ queue'[i] = queue[i] /\ i \in 1 .. Len(queue')
            /\ \A j \in 1 .. i : j \in 1 .. Len(queue)
      /\ \A i \in 1 .. Len(queue') :
            i \in 1 .. Len(queue) \/ queue'[i].op = "signal"
      /\ ContextInv'
      /\ \A r \in Writes : r.fence = fence =>
            \/ \E i \in 1 .. Len(queue) : IsDraw(i) /\ queue[i].slot = r.slot
            \/ fence_values'[r.slot] = Never
  BY <1>1, MarkInv
<1>3. \A i \in 1 .. Len(queue') :
          IsDraw(i)' => i \in 1 .. Len(queue) /\ IsDraw(i) /\ queue'[i] = queue[i]
  BY <1>1, <1>2 DEF IsDraw
<1>4. TypeOK'
  BY <1>1, <1>2 DEF IInv, TypeOK, Slots, HasSlot
<1>5. RequestInv' /\ CacheInv'
  BY <1>1 DEF IInv, RequestInv, ValueInv, OrderInv, LostInv, SubmitInv, CacheInv,
              Naive, LastBatch, SubmitsEarly
<1>6. HeldInv'
  <2> SUFFICES ASSUME NEW i \in 1 .. Len(queue'), IsDraw(i)'
               PROVE  /\ queue'[i].data.run \in 1 .. MaxRuns
                      /\ \/ queue'[i].data.request <= io_completed[queue'[i].data.run]
                         \/ \E j \in 1 .. i : /\ queue'[j].op = "wait"
                                              /\ queue'[j].fence = queue'[i].data.run
                                              /\ queue'[j].value = queue'[i].data.request
    BY <1>1 DEF HeldInv, IsWait
  <2>1. i \in 1 .. Len(queue) /\ IsDraw(i) /\ queue'[i] = queue[i]
        /\ \A j \in 1 .. i : queue'[j] = queue[j]
    BY <1>2, <1>3
  <2> QED
    BY <2>1 DEF IInv, HeldInv, IsWait
<1>7. AnswerInv'
  BY <1>1, <1>2 DEF IInv, AnswerInv, EveryWaitIsAnswered
<1>8. BufferInv'
  <2>1. NoWriteUnderDraw' /\ CpuWriteInv'
    BY <1>1, <1>3 DEF IInv, BufferInv, NoWriteUnderDraw, CpuWriteInv, IsDraw, DataOf
  <2>2. WriteInv'
    BY <1>1, <1>2 DEF WriteInv, IsDraw
  <2>3. DataInv'
    <3>1. \A i \in 1 .. Len(queue') : IsDraw(i)' =>
              Requested(queue'[i].slot, queue'[i].data)
      BY <1>3 DEF IInv, BufferInv, DataInv
    <3> QED
      BY <1>1, <3>1 DEF DataInv, Requested, DataOf
  <2> QED
    BY <2>1, <2>2, <2>3 DEF BufferInv
<1> QED
  BY <1>2, <1>4, <1>5, <1>6, <1>7, <1>8 DEF IInv

\* An exception takes the queue of the run with it.
LEMMA AbandonInv ==
    ASSUME IInv, TypeOK', ContextInv', WriteInv', Abandon,
           UNCHANGED <<shape, built, fence, queue, buffer, cache, file, setup, runs,
                       io_next, io_completed>>
    PROVE  IInv'
<1>1. /\ pc' = "idle" /\ enqueued' = {}
      /\ Outstanding' \cup lost' = Outstanding \cup lost
      /\ Writes' \subseteq Writes /\ Outstanding' \subseteq Outstanding
      /\ \A r \in Writes : r \in Writes' \cup lost'
      /\ \A l \in lost : l \in lost'
  BY DEF Abandon, Outstanding, Writes
<1>2. ValueInv'
  BY <1>1 DEF IInv, RequestInv, ValueInv
<1>3. OrderInv'
  <2>1. submitted' \cap read' = {}
    BY DEF Abandon, IInv, RequestInv, OrderInv
  <2> QED
    BY <1>1, <2>1 DEF IInv, RequestInv, OrderInv
<1>4. LostInv'
  <2> SUFFICES ASSUME NEW l \in lost'
               PROVE  /\ l.run <= runs /\ l.fence <= fence
                      /\ io_completed[l.run] < l.value
                      /\ \A r \in Outstanding' : r.run = l.run => r.value < l.value
    BY <1>1 DEF LostInv
  <2>1. /\ l.run <= runs /\ l.fence <= fence
        /\ io_completed[l.run] < l.value
    BY <1>1 DEF IInv, RequestInv, ValueInv, LostInv
  <2>2. \A r \in Outstanding' : r.run = l.run => r.value < l.value
    <3>1. CASE l \in lost
      BY <1>1, <3>1 DEF IInv, RequestInv, LostInv
    <3>2. CASE l \notin lost
      <4>1. /\ Outstanding' \subseteq submitted \cup read
            /\ Outstanding' # {} => l \in enqueued
        BY <3>2 DEF Abandon, Outstanding
      <4> QED
        BY <4>1 DEF IInv, RequestInv, OrderInv
    <3> QED
      BY <3>1, <3>2
  <2> QED
    BY <2>1, <2>2
<1>5. SubmitInv'
  BY <1>1 DEF SubmitInv
<1>6. HeldInv' /\ AnswerInv' /\ CacheInv'
  BY <1>1 DEF IInv, HeldInv, AnswerInv, EveryWaitIsAnswered, IsDraw, IsWait, CacheInv
<1>7. BufferInv'
  <2>1. NoWriteUnderDraw' /\ CpuWriteInv'
    BY <1>1 DEF IInv, BufferInv, NoWriteUnderDraw, CpuWriteInv, DataOf, Writes
  <2>2. DataInv'
    BY <1>1 DEF IInv, BufferInv, DataInv, Requested, IsDraw, DataOf
  <2> QED
    BY <2>1, <2>2 DEF BufferInv
<1> QED
  BY <1>2, <1>3, <1>4, <1>5, <1>6, <1>7 DEF IInv, RequestInv

\* The types after an exception.
LEMMA AbandonTypes ==
    ASSUME TypeOK, Abandon
    PROVE  /\ enqueued' \subseteq Requests /\ submitted' \subseteq submitted
           /\ read' \subseteq Requests /\ lost' \subseteq Requests
           /\ pc' = "idle" /\ enqueued' = {}
           /\ Writes' \subseteq Writes
  BY DEF TypeOK, Abandon, Writes

LEMMA FailInv == IInv /\ (DrawFails \/ SignalFails \/ RegisterFails) => IInv'
<1>1. ASSUME IInv, DrawFails \/ RegisterFails PROVE IInv'
  <2>1. /\ Abandon
        /\ unregistered' \in BOOLEAN
        /\ UNCHANGED <<contextVars, stagingVars, setup, runs, phase, frame, batch, slot,
                       buffer, io_next, io_completed>>
    BY <1>1 DEF DrawFails, RegisterFails, IInv, TypeOK
  <2>2. /\ UNCHANGED <<shape, batch_count, built, fence, completed, fence_values,
                       ready_count, next_fence_value, event, armed, queue, cache, file>>
    BY <2>1 DEF contextVars, stagingVars
  <2>3. /\ enqueued' \subseteq Requests /\ submitted' \subseteq submitted
        /\ read' \subseteq Requests /\ lost' \subseteq Requests
        /\ pc' = "idle" /\ enqueued' = {}
        /\ Writes' \subseteq Writes
    BY <1>1, <2>1, AbandonTypes DEF IInv
  <2>4. TypeOK'
    BY <1>1, <2>1, <2>2, <2>3 DEF IInv, TypeOK, Slots, HasSlot
  <2>5. ContextInv'
    BY <1>1, <2>1, <2>2, <2>3 DEF IInv, ContextInv, SignalInv, DrawInv, CpuSlotInv,
                                  IsDraw, IsSignal
  <2>6. WriteInv'
    BY <1>1, <2>1, <2>2, <2>3 DEF IInv, BufferInv, WriteInv, IsDraw
  <2> QED
    BY <1>1, <2>1, <2>2, <2>4, <2>5, <2>6, AbandonInv
<1>2. ASSUME IInv, SignalFails PROVE IInv'
  <2>1. /\ Abandon /\ pc = "signal" /\ pc' = "idle"
        /\ unregistered' \in BOOLEAN
        /\ next_fence_value' = next_fence_value + 1
        /\ fence_values' = [fence_values EXCEPT ![slot] = next_fence_value + 1]
        /\ UNCHANGED <<shape, batch_count, built, fence, completed, ready_count, event,
                       armed, queue, cache, file, setup, runs, phase, frame, batch, slot,
                       buffer, io_next, io_completed>>
    BY <1>2 DEF SignalFails, SignalDoneFails, Abandon, stagingVars
  <2>2. /\ enqueued' \subseteq Requests /\ submitted' \subseteq submitted
        /\ read' \subseteq Requests /\ lost' \subseteq Requests
        /\ pc' = "idle" /\ enqueued' = {}
        /\ Writes' \subseteq Writes
    BY <1>2, <2>1, AbandonTypes DEF IInv
  <2>3. /\ next_fence_value' \in Nat
        /\ fence_values' \in [DOMAIN buffer -> Nat \cup {Never}]
        /\ ContextInv'
        /\ \A r \in Writes : r.fence = fence =>
              \/ \E i \in 1 .. Len(queue) : IsDraw(i) /\ queue[i].slot = r.slot
              \/ fence_values'[r.slot] = Never
    BY <1>2, <2>1, MarkInv
  <2>4. TypeOK'
    BY <1>2, <2>1, <2>2, <2>3 DEF IInv, TypeOK, Slots, HasSlot
  <2>5. WriteInv'
    BY <2>1, <2>2, <2>3 DEF WriteInv, IsDraw
  <2> QED
    BY <1>2, <2>1, <2>3, <2>4, <2>5, AbandonInv
<1> QED
  BY <1>1, <1>2
\* The end of a frame fails after the requests have been submitted.
LEMMA PresentFailsInv == IInv /\ PresentFails => IInv'
<1> SUFFICES ASSUME IInv, PresentFails PROVE IInv'
  OBVIOUS
<1>1. /\ pc = "present" /\ pc' = "idle" /\ enqueued' = {}
      /\ UNCHANGED <<shape, batch_count, built, fence, completed, fence_values,
                     ready_count, next_fence_value, event, armed, queue, cache, file,
                     stagingVars, setup, runs, phase, frame, batch, slot, unregistered,
                     buffer, io_next, io_completed>>
  BY DEF PresentFails, contextVars, stagingVars
<1>2. SubmitInv'
  BY <1>1 DEF SubmitInv
<1>3. CASE submitted' = submitted \cup enqueued /\ UNCHANGED <<read, lost>>
  <2>1. TypeOK'
    BY <1>1, <1>3, MoveTypes DEF IInv, TypeOK, Slots, HasSlot
  <2> QED
    BY <1>1, <1>2, <1>3, <2>1, MoveInv
<1>4. CASE /\ submitted' = {} /\ read' = {}
           /\ lost' = lost \cup enqueued \cup submitted \cup read
  <2>1. Abandon
    BY <1>1, <1>4 DEF Abandon
  <2>2. TypeOK'
    BY <1>1, <1>4 DEF IInv, TypeOK, Slots, HasSlot
  <2>3. ContextInv' /\ WriteInv'
    BY <1>1, <1>4 DEF IInv, ContextInv, SignalInv, DrawInv, CpuSlotInv, IsDraw,
                      IsSignal, WriteInv, Writes
  <2> QED
    BY <1>1, <2>1, <2>2, <2>3, AbandonInv
<1> QED
  BY <1>3, <1>4 DEF PresentFails

-----------------------------------------------------------------------------
(* DirectStorage.                                                           *)

\* What is read is what a pending draw expects, or it goes to another slot.
LEMMA IoReadInv == IInv /\ IoRead => IInv'
<1> SUFFICES ASSUME IInv, IoRead PROVE IInv'
  OBVIOUS
<1>1. PICK r \in submitted :
          /\ submitted' = submitted \ {r}
          /\ read' = read \cup {r}
          /\ buffer' = IF r.fence = fence THEN [buffer EXCEPT ![r.slot] = DataOf(r)]
                       ELSE buffer
          /\ UNCHANGED <<contextVars, stagingVars, cpuVars, enqueued, io_next,
                         io_completed, lost>>
  BY DEF IoRead
<1>2. /\ UNCHANGED <<shape, batch_count, built, fence, completed, fence_values,
                     ready_count, next_fence_value, event, armed, queue, cache, file,
                     pc, setup, runs, phase, frame, batch, slot, unregistered,
                     enqueued, io_next, io_completed, lost>>
      /\ Outstanding' = Outstanding
      /\ Writes' \subseteq Writes
      /\ \A q \in Writes : q = r \/ q \in Writes'
      /\ r \in Writes /\ r \in Outstanding
  BY <1>1 DEF contextVars, stagingVars, cpuVars, Outstanding, Writes
<1>3. /\ r \in Requests /\ r.run \in Nat /\ r.value \in Nat
      /\ r.fence = fence => r.slot \in DOMAIN buffer
      /\ DataOf(r) \in DataTags
  BY <1>2, RequestTypes DEF IInv, TypeOK, DataOf, DataTags
<1>4. /\ buffer' \in [DOMAIN buffer' -> DataTags] /\ DOMAIN buffer' = DOMAIN buffer
      /\ \A b \in DOMAIN buffer : \/ buffer'[b] = buffer[b]
                                  \/ r.fence = fence /\ r.slot = b
      /\ r.fence = fence => buffer'[r.slot] = DataOf(r)
      /\ \A b : ~(r.fence = fence /\ r.slot = b) => buffer'[b] = buffer[b]
  <2>1. buffer \in [DOMAIN buffer -> DataTags]
    BY DEF IInv, TypeOK
  <2>2. CASE r.fence = fence
    BY <1>1, <1>3, <2>1, <2>2
  <2>3. CASE r.fence # fence
    BY <1>1, <2>1, <2>3
  <2> QED
    BY <2>2, <2>3
<1>5. TypeOK'
  <2>1. submitted' \subseteq submitted /\ read' \subseteq Requests
    BY <1>1, <1>3 DEF IInv, TypeOK
  <2> QED
    BY <1>2, <1>4, <2>1 DEF IInv, TypeOK, Slots, HasSlot
<1>6. ContextInv' /\ CacheInv'
  BY <1>2 DEF IInv, ContextInv, SignalInv, DrawInv, CpuSlotInv, IsDraw, IsSignal, CacheInv
<1>7. RequestInv'
  <2>1. ValueInv' /\ LostInv' /\ SubmitInv'
    BY <1>2 DEF IInv, RequestInv, ValueInv, LostInv, SubmitInv, Naive, LastBatch,
                SubmitsEarly
  <2>2. submitted' \cap read' = {} /\ submitted' \cup read' = submitted \cup read
    BY <1>1 DEF IInv, RequestInv, OrderInv
  <2>3. OrderInv'
    BY <1>2, <2>2 DEF IInv, RequestInv, OrderInv
  <2> QED
    BY <2>1, <2>3 DEF RequestInv
<1>8. HeldInv' /\ AnswerInv'
  BY <1>2 DEF IInv, HeldInv, Held, AnswerInv, Answered, EveryWaitIsAnswered, IsDraw,
              IsWait
<1>9. NoWriteUnderDraw' /\ WriteInv' /\ CpuWriteInv'
  <2>1. NoWriteUnderDraw'
    BY <1>2 DEF IInv, BufferInv, NoWriteUnderDraw, DataOf, Writes
  <2>2. WriteInv' /\ CpuWriteInv'
    BY <1>2 DEF IInv, BufferInv, WriteInv, CpuWriteInv, IsDraw, DataOf, Data
  <2> QED
    BY <2>1, <2>2
<1>10. ASSUME NEW b, NEW data, Requested(b, data),
              r.fence = fence /\ r.slot = b => DataOf(r) = data
       PROVE  \/ buffer'[b] = data
              \/ \E q \in Writes' \cup lost' : DataOf(q) = data /\ q.slot = b /\ q.fence = fence
  <2>1. CASE r.fence = fence /\ r.slot = b
    BY <1>4, <1>10, <2>1
  <2>2. CASE ~(r.fence = fence /\ r.slot = b)
    BY <1>2, <1>4, <1>10, <2>2 DEF Requested
  <2> QED
    BY <2>1, <2>2
<1>11. DataInv'
  <2>1. ASSUME NEW i \in 1 .. Len(queue), IsDraw(i)
        PROVE  \/ buffer'[queue[i].slot] = queue[i].data
               \/ \E q \in Writes' \cup lost' : /\ DataOf(q) = queue[i].data
                                                /\ q.slot = queue[i].slot
                                                /\ q.fence = fence
    <3>1. Requested(queue[i].slot, queue[i].data)
      BY <2>1 DEF IInv, BufferInv, DataInv
    <3>2. r.fence = fence /\ r.slot = queue[i].slot => DataOf(r) = queue[i].data
      BY <1>2, <2>1 DEF IInv, BufferInv, NoWriteUnderDraw, IsDraw, Writes
    <3> QED
      BY <1>10, <3>1, <3>2
  <2>2. ASSUME pc \in {"hold", "execute"}
        PROVE  \/ buffer'[slot] = Data
               \/ \E q \in Writes' \cup lost' : /\ DataOf(q) = Data
                                                /\ q.slot = slot
                                                /\ q.fence = fence
    <3>1. Requested(slot, Data)
      BY <2>2 DEF IInv, BufferInv, DataInv
    <3>2. r.fence = fence /\ r.slot = slot => DataOf(r) = Data
      BY <1>2, <2>2 DEF IInv, BufferInv, CpuWriteInv
    <3> QED
      BY <1>10, <3>1, <3>2
  <2> QED
    BY <1>2, <2>1, <2>2 DEF DataInv, Requested, IsDraw, Data, DataOf
<1> QED
  BY <1>5, <1>6, <1>7, <1>8, <1>9, <1>11 DEF IInv, BufferInv

\* The fence of a run reaches the least of the values that are outstanding.
LEMMA IoSignalInv == IInv /\ IoSignal => IInv'
<1> SUFFICES ASSUME IInv, IoSignal PROVE IInv'
  OBVIOUS
<1>1. PICK r \in read :
          /\ \A q \in submitted \cup read : q.run = r.run => r.value <= q.value
          /\ read' = read \ {r}
          /\ io_completed' = [io_completed EXCEPT ![r.run] = r.value]
          /\ UNCHANGED <<contextVars, stagingVars, cpuVars, buffer, enqueued,
                         submitted, io_next, lost>>
  BY DEF IoSignal
<1>2. /\ UNCHANGED <<shape, batch_count, built, fence, completed, fence_values,
                     ready_count, next_fence_value, event, armed, queue, cache, file,
                     pc, setup, runs, phase, frame, batch, slot, unregistered, buffer,
                     enqueued, submitted, io_next, lost>>
      /\ Outstanding' \subseteq Outstanding
      /\ \A q \in Outstanding : q = r \/ q \in Outstanding'
      /\ Writes' = Writes
      /\ r \in Outstanding
  BY <1>1 DEF contextVars, stagingVars, cpuVars, Outstanding, Writes
<1>3. /\ r.run \in 1 .. MaxRuns /\ r.run \in Nat /\ r.value \in Nat /\ runs \in Nat
      /\ io_next \in Nat /\ r.run <= runs
      /\ io_completed[r.run] < r.value
      /\ r.run = runs => r.value <= io_next /\ pc # "open"
      /\ \A n \in 1 .. MaxRuns : io_completed[n] \in Nat
      /\ io_completed \in [1 .. MaxRuns -> Nat]
  BY <1>2, RequestTypes DEF IInv, TypeOK, RequestInv, ValueInv
<1>4. /\ io_completed' \in [1 .. MaxRuns -> Nat]
      /\ io_completed'[r.run] = r.value
      /\ \A n \in 1 .. MaxRuns : n # r.run => io_completed'[n] = io_completed[n]
      /\ \A n \in 1 .. MaxRuns : io_completed[n] <= io_completed'[n]
  BY <1>1, <1>3
<1>5. TypeOK'
  <2>1. read' \subseteq Requests
    BY <1>1 DEF IInv, TypeOK
  <2> QED
    BY <1>2, <1>4, <2>1 DEF IInv, TypeOK, Slots, HasSlot
<1>6. ContextInv' /\ CacheInv'
  BY <1>2 DEF IInv, ContextInv, SignalInv, DrawInv, CpuSlotInv, IsDraw, IsSignal, CacheInv
<1>7. \A q \in Outstanding' : q.run = r.run => r.value < q.value
  <2> SUFFICES ASSUME NEW q \in Outstanding', q.run = r.run PROVE r.value < q.value
    OBVIOUS
  <2>1. q.value \in Nat /\ q \in Outstanding
    BY <1>2, RequestTypes DEF IInv
  <2>2. CASE q \in enqueued
    BY <1>1, <2>2 DEF IInv, RequestInv, OrderInv
  <2>3. CASE q \notin enqueued
    <3>1. q \in submitted \cup read /\ q # r
      BY <1>1, <1>2, <2>3 DEF Outstanding, IInv, RequestInv, OrderInv
    <3>2. r.value <= q.value /\ q.value # r.value
      BY <1>1, <1>2, <2>1, <3>1 DEF IInv, RequestInv, OrderInv
    <3> QED
      BY <1>3, <2>1, <3>2
  <2> QED
    BY <2>2, <2>3
<1>8. RequestInv'
  <2>1. ValueInv'
    <3>1. \A q \in Outstanding' : /\ q.run <= runs /\ q.fence <= fence
                                  /\ io_completed'[q.run] < q.value
                                  /\ q.run = runs => q.value <= io_next /\ pc # "open"
      <4> SUFFICES ASSUME NEW q \in Outstanding'
                   PROVE  /\ q.run <= runs /\ q.fence <= fence
                          /\ io_completed'[q.run] < q.value
                          /\ q.run = runs => q.value <= io_next /\ pc # "open"
        OBVIOUS
      <4>1. q \in Outstanding /\ q.run \in 1 .. MaxRuns
        BY <1>2, RequestTypes DEF IInv
      <4> QED
        BY <1>4, <1>7, <4>1 DEF IInv, RequestInv, ValueInv
    <3>2. \A n \in 1 .. MaxRuns : runs < n => io_completed'[n] = 0
      BY <1>3, <1>4 DEF IInv, RequestInv, ValueInv
    <3>3. /\ pc # "idle" => runs > 0
          /\ runs > 0 => /\ io_completed'[runs] <= io_next
                         /\ pc = "open" => io_completed'[runs] = 0
      <4>1. runs > 0 => runs \in 1 .. MaxRuns
        BY <1>3 DEF IInv, TypeOK
      <4>2. CASE r.run = runs
        BY <1>3, <1>4, <4>2 DEF IInv, RequestInv, ValueInv
      <4>3. CASE r.run # runs
        BY <1>4, <4>1, <4>3 DEF IInv, RequestInv, ValueInv
      <4> QED
        BY <4>2, <4>3
    <3> QED
      BY <1>2, <3>1, <3>2, <3>3 DEF ValueInv
  <2>2. OrderInv'
    BY <1>1, <1>2 DEF IInv, RequestInv, OrderInv
  <2>3. LostInv'
    <3> SUFFICES ASSUME NEW l \in lost
                 PROVE  /\ l.run <= runs /\ l.fence <= fence
                        /\ pc # "idle" => l.run < runs
                        /\ io_completed'[l.run] < l.value
                        /\ \A q \in Outstanding' : q.run = l.run => q.value < l.value
      BY <1>2 DEF LostInv
    <3>1. l.run \in 1 .. MaxRuns
      BY RequestTypes DEF IInv
    <3> QED
      BY <1>2, <1>4, <3>1 DEF IInv, RequestInv, LostInv
  <2>4. SubmitInv'
    BY <1>2 DEF IInv, RequestInv, SubmitInv, Naive, LastBatch, SubmitsEarly
  <2> QED
    BY <2>1, <2>2, <2>3, <2>4 DEF RequestInv
<1>9. \A n \in 1 .. MaxRuns, v \in Nat : v <= io_completed[n] => v <= io_completed'[n]
  BY <1>3, <1>4
<1>10. HeldInv'
  <2>1. ASSUME NEW i \in 1 .. Len(queue), IsDraw(i)
        PROVE  /\ queue[i].data.run \in 1 .. MaxRuns
               /\ \/ queue[i].data.request <= io_completed'[queue[i].data.run]
                  \/ \E j \in 1 .. i : IsWait(j, queue[i].data.run, queue[i].data.request)
    <3>1. queue[i].data.request \in Nat
      BY <2>1, QueueTypes DEF IInv, IsDraw, DataTags
    <3> QED
      BY <1>9, <2>1, <3>1 DEF IInv, HeldInv
  <2>2. pc = "execute" =>
            \/ io_next <= io_completed'[runs]
            \/ \E j \in 1 .. Len(queue) : IsWait(j, runs, io_next)
    <3>1. pc = "execute" => runs \in 1 .. MaxRuns
      BY <1>3 DEF IInv, TypeOK, RequestInv, ValueInv
    <3> QED
      BY <1>3, <1>9, <3>1 DEF IInv, HeldInv, Held
  <2> QED
    BY <1>2, <2>1, <2>2 DEF HeldInv, Held, IsDraw, IsWait
<1>11. ASSUME NEW run \in 1 .. MaxRuns, NEW value \in Nat, Answered(run, value)
       PROVE  \/ value <= io_completed'[run]
              \/ \E q \in Outstanding' \cup lost' : q.run = run /\ q.value = value
  <2>1. CASE value <= io_completed[run]
    BY <1>9, <2>1
  <2>2. CASE \E q \in Outstanding \cup lost : q.run = run /\ q.value = value
    <3>1. PICK q \in Outstanding \cup lost : q.run = run /\ q.value = value
      BY <2>2
    <3>2. CASE q = r
      BY <1>3, <1>4, <3>1, <3>2
    <3>3. CASE q # r
      BY <1>2, <3>1, <3>3
    <3> QED
      BY <3>2, <3>3
  <2> QED
    BY <1>11, <2>1, <2>2 DEF Answered
<1>12. AnswerInv'
  <2>1. ASSUME NEW i \in 1 .. Len(queue), queue[i].op = "wait"
        PROVE  \/ queue[i].value <= io_completed'[queue[i].fence]
               \/ \E q \in Outstanding' \cup lost' :
                      q.run = queue[i].fence /\ q.value = queue[i].value
    <3>1. queue[i].fence \in 1 .. MaxRuns /\ queue[i].value \in Nat
      BY <2>1, QueueTypes DEF IInv
    <3>2. Answered(queue[i].fence, queue[i].value)
      BY <2>1 DEF IInv, AnswerInv, EveryWaitIsAnswered, Answered
    <3> QED
      BY <1>11, <3>1, <3>2
  <2>2. pc = "hold" =>
            \/ io_next <= io_completed'[runs]
            \/ \E q \in Outstanding' \cup lost' : q.run = runs /\ q.value = io_next
    <3>1. pc = "hold" => runs \in 1 .. MaxRuns
      BY <1>3 DEF IInv, TypeOK, RequestInv, ValueInv
    <3> QED
      BY <1>3, <1>11, <3>1 DEF IInv, AnswerInv
  <2> QED
    BY <1>2, <2>1, <2>2 DEF AnswerInv, EveryWaitIsAnswered, Answered
<1>13. BufferInv'
  <2>1. NoWriteUnderDraw' /\ WriteInv' /\ CpuWriteInv'
    BY <1>2 DEF IInv, BufferInv, NoWriteUnderDraw, WriteInv, CpuWriteInv, IsDraw,
                DataOf, Data
  <2>2. DataInv'
    BY <1>2 DEF IInv, BufferInv, DataInv, Requested, IsDraw, DataOf, Data
  <2> QED
    BY <2>1, <2>2 DEF BufferInv
<1> QED
  BY <1>5, <1>6, <1>8, <1>10, <1>12, <1>13 DEF IInv
-----------------------------------------------------------------------------
(* The GPU.                                                                 *)

LEMMA PopInv ==
    ASSUME IInv, queue # <<>>, queue' = Tail(queue),
           \/ completed' = completed
           \/ IsSignal(1) /\ completed' = queue[1].value,
           queue[1].op = "wait" => queue[1].value <= io_completed[queue[1].fence],
           event' \in BOOLEAN, armed' \subseteq armed,
           UNCHANGED <<shape, batch_count, built, fence, fence_values, ready_count,
                       next_fence_value, stagingVars, cpuVars, ioVars>>
    PROVE  IInv'
<1>1. /\ queue' \in Seq(Operations) /\ Len(queue) \in Nat \ {0}
      /\ Len(queue') = Len(queue) - 1 /\ 1 \in 1 .. Len(queue)
      /\ \A i \in 1 .. Len(queue') : /\ queue'[i] = queue[i + 1]
                                     /\ i + 1 \in 1 .. Len(queue)
      /\ \A i \in 1 .. Len(queue) : i = 1 \/ i - 1 \in 1 .. Len(queue')
  BY TailQueue DEF IInv
<1>2. /\ \A i \in 1 .. Len(queue') : IsDraw(i)' <=> IsDraw(i + 1)
      /\ \A i \in 1 .. Len(queue') : IsSignal(i)' <=> IsSignal(i + 1)
  BY <1>1 DEF IsDraw, IsSignal
<1>3. /\ UNCHANGED <<shape, batch_count, built, fence, fence_values, ready_count,
                     next_fence_value, cache, file, pc, setup, runs, phase, frame, batch,
                     slot, unregistered, buffer, enqueued, submitted, read, io_next,
                     io_completed, lost>>
      /\ Outstanding' = Outstanding /\ Writes' = Writes
  BY DEF stagingVars, cpuVars, ioVars, Outstanding, Writes
<1>4. /\ completed \in Nat /\ completed' \in Nat
      /\ completed <= next_fence_value /\ completed' <= next_fence_value
      /\ IsSignal(1) => completed < queue[1].value
  <2>1. completed \in Nat /\ next_fence_value \in Nat /\ completed <= next_fence_value
    BY DEF IInv, TypeOK, ContextInv, SignalInv
  <2>2. ASSUME IsSignal(1)
        PROVE  /\ queue[1].value \in Nat
               /\ completed < queue[1].value /\ queue[1].value <= next_fence_value
    <3>1. completed < queue[1].value /\ queue[1].value <= next_fence_value
      BY <1>1, <2>2 DEF IInv, ContextInv, SignalInv
    <3>2. queue[1].value \in Nat
      BY <1>1, <2>2, QueueTypes DEF IInv, IsSignal
    <3> QED
      BY <3>1, <3>2
  <2> QED
    BY <2>1, <2>2 DEF IsSignal
<1>5. TypeOK'
  BY <1>1, <1>3, <1>4 DEF IInv, TypeOK, Slots, HasSlot
<1>6. ContextInv'
  <2>1. SignalInv'
    <3>1. \A i \in 1 .. Len(queue') : queue'[i].op # "wait" => queue'[i].fence <= fence
      BY <1>1 DEF IInv, ContextInv, SignalInv
    <3>2. \A i \in 1 .. Len(queue') : IsSignal(i)' =>
              completed' < queue'[i].value /\ queue'[i].value <= next_fence_value
      <4> SUFFICES ASSUME NEW i \in 1 .. Len(queue'), IsSignal(i)'
                   PROVE  completed' < queue'[i].value /\ queue'[i].value <= next_fence_value
        OBVIOUS
      <4>1. IsSignal(i + 1) /\ queue'[i] = queue[i + 1] /\ i + 1 \in 1 .. Len(queue)
            /\ 1 < i + 1
        BY <1>1, <1>2
      <4> QED
        BY <1>1, <4>1 DEF IInv, ContextInv, SignalInv
    <3>3. \A i, j \in 1 .. Len(queue') :
              i < j /\ IsSignal(i)' /\ IsSignal(j)' => queue'[i].value < queue'[j].value
      <4> SUFFICES ASSUME NEW i \in 1 .. Len(queue'), NEW j \in 1 .. Len(queue'),
                          i < j, IsSignal(i)', IsSignal(j)'
                   PROVE  queue'[i].value < queue'[j].value
        OBVIOUS
      <4>1. /\ IsSignal(i + 1) /\ queue'[i] = queue[i + 1] /\ i + 1 \in 1 .. Len(queue)
            /\ IsSignal(j + 1) /\ queue'[j] = queue[j + 1] /\ j + 1 \in 1 .. Len(queue)
            /\ i + 1 < j + 1
        BY <1>1, <1>2
      <4> QED
        BY <4>1 DEF IInv, ContextInv, SignalInv
    <3>4. \A b \in DOMAIN fence_values :
              fence_values[b] # Never => fence_values[b] <= next_fence_value
      BY DEF IInv, ContextInv, SignalInv
    <3> QED
      BY <1>3, <1>4, <3>1, <3>2, <3>3, <3>4 DEF SignalInv
  <2>2. DrawInv'
    <3> SUFFICES ASSUME NEW i \in 1 .. Len(queue'), IsDraw(i)'
                 PROVE  /\ queue'[i].slot \in DOMAIN fence_values
                        /\ fence_values[queue'[i].slot] # Never =>
                              /\ completed' < fence_values[queue'[i].slot]
                              /\ \A j \in 1 .. i : IsSignal(j)' =>
                                     queue'[j].value < fence_values[queue'[i].slot]
      BY <1>3 DEF DrawInv
    <3>1. /\ IsDraw(i + 1) /\ queue'[i] = queue[i + 1] /\ i + 1 \in 1 .. Len(queue)
          /\ 1 \in 1 .. i + 1
          /\ \A j \in 1 .. i : /\ j \in 1 .. Len(queue') /\ j + 1 \in 1 .. i + 1
                               /\ queue'[j] = queue[j + 1]
                               /\ IsSignal(j)' => IsSignal(j + 1)
      BY <1>1, <1>2
    <3> QED
      BY <3>1 DEF IInv, ContextInv, DrawInv
  <2>3. CpuSlotInv'
    BY <1>1, <1>2, <1>3 DEF IInv, ContextInv, CpuSlotInv
  <2> QED
    BY <2>1, <2>2, <2>3 DEF ContextInv
<1>7. RequestInv' /\ CacheInv'
  BY <1>3 DEF IInv, RequestInv, ValueInv, OrderInv, LostInv, SubmitInv, CacheInv,
              Naive, LastBatch, SubmitsEarly
<1>8. HeldInv'
  <2>1. ASSUME NEW i \in 1 .. Len(queue'), IsDraw(i)'
        PROVE  /\ queue'[i].data.run \in 1 .. MaxRuns
               /\ \/ queue'[i].data.request <= io_completed[queue'[i].data.run]
                  \/ \E j \in 1 .. i : /\ queue'[j].op = "wait"
                                       /\ queue'[j].fence = queue'[i].data.run
                                       /\ queue'[j].value = queue'[i].data.request
    <3>1. IsDraw(i + 1) /\ queue'[i] = queue[i + 1] /\ i + 1 \in 1 .. Len(queue)
      BY <1>1, <1>2, <2>1
    <3>2. ASSUME NEW j \in 1 .. i + 1,
                 IsWait(j, queue[i + 1].data.run, queue[i + 1].data.request)
          PROVE  \/ queue[i + 1].data.request <= io_completed[queue[i + 1].data.run]
                 \/ \E k \in 1 .. i : /\ queue'[k].op = "wait"
                                      /\ queue'[k].fence = queue'[i].data.run
                                      /\ queue'[k].value = queue'[i].data.request
      <4>1. CASE j = 1
        BY <3>2, <4>1 DEF IsWait
      <4>2. CASE j # 1
        <5>1. j - 1 \in 1 .. i /\ j - 1 \in 1 .. Len(queue') /\ (j - 1) + 1 = j
          BY <1>1, <4>2
        <5>2. queue'[j - 1] = queue[j]
          BY <1>1, <5>1
        <5> QED
          BY <3>1, <3>2, <5>1, <5>2 DEF IsWait
      <4> QED
        BY <4>1, <4>2
    <3> QED
      BY <3>1, <3>2 DEF IInv, HeldInv
  <2>2. ASSUME pc = "execute"
        PROVE  \/ io_next <= io_completed[runs]
               \/ \E j \in 1 .. Len(queue') : /\ queue'[j].op = "wait"
                                              /\ queue'[j].fence = runs
                                              /\ queue'[j].value = io_next
    <3>1. CASE io_next <= io_completed[runs]
      BY <3>1
    <3>2. CASE \E j \in 1 .. Len(queue) : IsWait(j, runs, io_next)
      <4>1. PICK j \in 1 .. Len(queue) : IsWait(j, runs, io_next)
        BY <3>2
      <4>2. CASE j = 1
        BY <4>1, <4>2 DEF IsWait
      <4>3. CASE j # 1
        <5>1. j - 1 \in 1 .. Len(queue') /\ (j - 1) + 1 = j
          BY <1>1, <4>3
        <5>2. queue'[j - 1] = queue[j]
          BY <1>1, <5>1
        <5> QED
          BY <4>1, <5>1, <5>2 DEF IsWait
      <4> QED
        BY <4>2, <4>3
    <3> QED
      BY <2>2, <3>1, <3>2 DEF IInv, HeldInv, Held
  <2> QED
    BY <1>3, <2>1, <2>2, ZenonT(40) DEF HeldInv, Held, IsDraw, IsWait
<1>9. AnswerInv'
  BY <1>1, <1>3 DEF IInv, AnswerInv, Answered, EveryWaitIsAnswered
<1>10. BufferInv'
  <2>1. NoWriteUnderDraw'
    BY <1>1, <1>2, <1>3 DEF IInv, BufferInv, NoWriteUnderDraw, DataOf, Writes
  <2>2. ASSUME IsDraw(1), NEW r \in Writes, r.fence = fence, r.slot = queue[1].slot
        PROVE  FALSE
    <3>1. queue[1].data = DataOf(r)
      BY <1>1, <2>2 DEF IInv, BufferInv, NoWriteUnderDraw, IsDraw, Writes
    <3>2. queue[1].data.run = r.run /\ queue[1].data.request = r.value
      BY <3>1 DEF DataOf
    <3>3. queue[1].data.request <= io_completed[queue[1].data.run]
      <4>1. \A j \in 1 .. 1 : ~IsWait(j, queue[1].data.run, queue[1].data.request)
        BY <2>2 DEF IsDraw, IsWait
      <4> QED
        BY <1>1, <2>2, <4>1 DEF IInv, HeldInv
    <3>4. r \in Outstanding
      BY <2>2 DEF Writes, Outstanding
    <3>5. io_completed[r.run] < r.value /\ r.value \in Nat /\ io_completed[r.run] \in Nat
      BY <3>4, RequestTypes DEF IInv, RequestInv, ValueInv
    <3> QED
      BY <3>2, <3>3, <3>5
  <2>3. WriteInv'
    <3> SUFFICES ASSUME NEW r \in Writes, r.fence = fence
                 PROVE  \/ \E i \in 1 .. Len(queue') : IsDraw(i)' /\ queue'[i].slot = r.slot
                        \/ fence_values[r.slot] = Never /\ ~(pc = "signal" /\ slot = r.slot)
      BY <1>3 DEF WriteInv
    <3>1. CASE \E i \in 1 .. Len(queue) : IsDraw(i) /\ queue[i].slot = r.slot
      <4>1. PICK i \in 1 .. Len(queue) : IsDraw(i) /\ queue[i].slot = r.slot
        BY <3>1
      <4>2. i # 1
        BY <2>2, <4>1
      <4>3. i - 1 \in 1 .. Len(queue') /\ (i - 1) + 1 = i
        BY <1>1, <4>2
      <4>4. IsDraw(i - 1)' /\ queue'[i - 1] = queue[i]
        BY <1>1, <1>2, <4>1, <4>3
      <4> QED
        BY <4>1, <4>3, <4>4
    <3>2. CASE fence_values[r.slot] = Never /\ ~(pc = "signal" /\ slot = r.slot)
      BY <3>2
    <3> QED
      BY <3>1, <3>2 DEF IInv, BufferInv, WriteInv
  <2>4. CpuWriteInv'
    BY <1>3 DEF IInv, BufferInv, CpuWriteInv, Data, DataOf
  <2>5. DataInv'
    <3>1. \A i \in 1 .. Len(queue') : IsDraw(i)' =>
              Requested(queue'[i].slot, queue'[i].data)
      BY <1>1, <1>2 DEF IInv, BufferInv, DataInv
    <3>2. pc \in {"hold", "execute"} => Requested(slot, Data)
      BY DEF IInv, BufferInv, DataInv
    <3> QED
      BY <1>3, <3>1, <3>2 DEF DataInv, Requested, Data, DataOf
  <2> QED
    BY <2>1, <2>3, <2>4, <2>5 DEF BufferInv
<1> QED
  BY <1>5, <1>6, <1>7, <1>8, <1>9, <1>10 DEF IInv

LEMMA GpuInv == IInv /\ Gpu => IInv'
<1> SUFFICES ASSUME IInv, Gpu PROVE IInv'
  OBVIOUS
<1>1. /\ queue # <<>> /\ queue' = Tail(queue) /\ Head(queue) = queue[1]
      /\ UNCHANGED <<stagingVars, cpuVars, ioVars>>
      /\ event \in BOOLEAN
  BY TailQueue DEF Gpu, GpuDraw, GpuSignal, GpuWait, IInv, TypeOK
<1>2. CASE GpuDraw
  BY <1>1, <1>2, PopInv DEF GpuDraw
<1>3. CASE GpuWait
  BY <1>1, <1>3, PopInv DEF GpuWait
<1>4. CASE GpuSignal
  <2>1. CASE queue[1].fence = fence
    BY <1>1, <1>4, <2>1, PopInv DEF GpuSignal, IsSignal
  <2>2. CASE queue[1].fence # fence
    <3>1. /\ event' \in BOOLEAN /\ armed' \subseteq armed /\ completed' = completed
          /\ queue[1].op # "wait"
      BY <1>1, <1>4, <2>2 DEF GpuSignal
    <3> QED
      BY <1>1, <1>4, <3>1, PopInv DEF GpuSignal
  <2> QED
    BY <2>1, <2>2
<1> QED
  BY <1>2, <1>3, <1>4 DEF Gpu
-----------------------------------------------------------------------------
(* The theorems.                                                            *)

\* The inductive invariant holds in every reachable state.
THEOREM Invariance == Spec => []IInv
<1>1. IInv /\ [Next]_vars => IInv'
  <2> SUFFICES ASSUME IInv, [Next]_vars PROVE IInv'
    OBVIOUS
  <2>1. CASE Start
    BY <2>1, RunFailsToStageInv, RunFailsToRebuildInv, RunWithRebuildInv,
       RunWithoutRebuildInv DEF Start
  <2>2. CASE TryNextBatch \/ NextBatch \/ Scan
    <3>1. pc' \in {"submit", "wait", "enqueue"}
      BY <2>2 DEF TryNextBatch, NextBatch, Scan
    <3>2. (TryNextBatch => pc' # "wait") /\ (NextBatch \/ Scan => pc' # "submit")
      BY DEF TryNextBatch, NextBatch, Scan
    <3> QED
      BY <2>2, <3>1, <3>2, NoSlotInv, SlotStepInv
  <2>3. CASE Work
    BY <2>2, <2>3, OpenInv, NoSlotInv, EnqueueInv, AsideInv, HoldInv, DrawStepInv,
       SignalStepInv, FrameEndInv DEF Work
  <2>4. CASE Fail
    BY <2>4, AsideInv, FailInv, PresentFailsInv DEF Fail
  <2>5. CASE Io
    BY <2>5, IoReadInv, IoSignalInv DEF Io
  <2>6. CASE Gpu
    BY <2>6, GpuInv
  <2>7. CASE AutoSubmit \/ Event \/ UNCHANGED vars
    BY <2>7, AsideInv
  <2> QED
    BY <2>1, <2>3, <2>4, <2>5, <2>6, <2>7 DEF Next
<1> QED
  BY <1>1, InitInv, PTL DEF Spec

\* All variables have their types, and requests are about slots that exist.
THEOREM TypeCorrect == Spec => []TypeOK
  BY Invariance, PTL DEF IInv

\* No request reads a batch into a slot while another batch has still to be drawn
\* from there, in whatever order DirectStorage works.
THEOREM NoBatchOverwritten == Spec => []NoWriteUnderDraw
  BY Invariance, PTL DEF IInv, BufferInv

\* The GPU only waits for what has been requested or was lost in an exception.
THEOREM WaitsAreAnswered == Spec => []EveryWaitIsAnswered
  BY Invariance, PTL DEF IInv, AnswerInv

\* A draw reads the batch that was requested for it: the fence of the run and
\* the wait before the draw are enough to order DirectStorage and the GPU.
THEOREM DrawsWhatWasRequested == Spec => []DrawReadsItsBatch
<1>1. IInv => DrawReadsItsBatch
  <2> SUFFICES ASSUME IInv, queue # <<>>, Head(queue).op = "draw",
                      Head(queue).fence = fence
               PROVE  buffer[Head(queue).slot] = Head(queue).data
    BY DEF DrawReadsItsBatch
  <2>1. 1 \in 1 .. Len(queue) /\ Head(queue) = queue[1] /\ IsDraw(1)
    <3>1. queue \in Seq(Operations)
      BY DEF IInv, TypeOK
    <3> QED
      BY <3>1 DEF IsDraw
  <2>2. /\ queue[1].data.request <= io_completed[queue[1].data.run]
        /\ Requested(queue[1].slot, queue[1].data)
    <3>1. \A j \in 1 .. 1 : ~IsWait(j, queue[1].data.run, queue[1].data.request)
      BY <2>1 DEF IsDraw, IsWait
    <3> QED
      BY <2>1, <3>1 DEF IInv, HeldInv, BufferInv, DataInv
  <2>3. ASSUME NEW r \in Writes \cup lost, DataOf(r) = queue[1].data PROVE FALSE
    <3>1. queue[1].data.run = r.run /\ queue[1].data.request = r.value
      BY <2>3 DEF DataOf
    <3>2. r \in Outstanding \cup lost
      BY DEF Writes, Outstanding
    <3>3. io_completed[r.run] < r.value /\ r.value \in Nat /\ io_completed[r.run] \in Nat
      BY <3>2, RequestTypes DEF IInv, RequestInv, ValueInv, LostInv
    <3> QED
      BY <2>2, <3>1, <3>3
  <2> QED
    BY <2>1, <2>2, <2>3 DEF Requested
<1> QED
  BY <1>1, Invariance, PTL

\* A file whose staging has failed is not streamed, although it is in the cache.
THEOREM StreamsCompleteFiles == Spec => []OnlyCompleteFilesStreamed
<1>1. IInv => OnlyCompleteFilesStreamed
  BY DEF IInv, CacheInv, OnlyCompleteFilesStreamed, InLoop, Written
<1> QED
  BY <1>1, Invariance, PTL

\* Of the actions, only those that start a run change the size of the batches, the
\* cache or the configuration.
LEMMA NoOtherStart ==
    ASSUME [Next]_vars, ~Start
    PROVE  UNCHANGED <<shape, setup, cache>>
<1>1. CASE Work
  BY <1>1 DEF Work, Open, TryNextBatch, SubmitAndWait, NextBatch, Wait, Scan, Enqueue,
     EnqueueAs, EnqueueCrashes, Hold, HoldFor, Draw, Signal, Register, Present, Drain,
     Take, NextBatchReady, NextBatchRescan, NextBatchNothing, EventWait, Execute,
     SignalDone, RegisterEvent, contextVars, stagingVars
<1>2. CASE Fail
  BY <1>2 DEF Fail, OpenFails, DrawFails, SignalFails, RegisterFails, PresentFails,
     SignalDoneFails, contextVars, stagingVars
<1>3. CASE Io \/ AutoSubmit \/ Gpu \/ Event \/ UNCHANGED vars
  BY <1>3 DEF Io, IoRead, IoSignal, AutoSubmit, Gpu, GpuDraw, GpuSignal, GpuWait, Event,
     Notify, vars, contextVars, stagingVars, cpuVars
<1> QED
  BY <1>1, <1>2, <1>3 DEF Next

\* The context is built for the batches of the last configuration as long as no
\* staging has failed, also if rebuilding it has.
SizeInv == NothingFailedToStage => shape.batch_size = setup.config.batch_size

LEMMA SizeStep == IInv /\ SizeInv /\ [Next]_vars => SizeInv'
<1> SUFFICES ASSUME IInv, SizeInv, [Next]_vars, NothingFailedToStage'
             PROVE  shape'.batch_size = setup'.config.batch_size
  BY DEF SizeInv
<1>1. CASE ~Start
  BY <1>1, NoOtherStart DEF SizeInv, NothingFailedToStage
<1>2. ASSUME NEW s \in Setups, RunFailsToStage(s) PROVE FALSE
  <2>1. cache' = Put(Key(s.config, Compressed(s)), NewEntry)
    BY <1>2 DEF RunFailsToStage, StageFails
  <2>2. /\ Key(s.config, Compressed(s)) \in DOMAIN cache'
        /\ cache'[Key(s.config, Compressed(s))] = NewEntry
    BY <2>1 DEF Put
  <2> QED
    BY <2>2 DEF NothingFailedToStage, NewEntry
<1>3. ASSUME NEW s \in Setups, RunFailsToRebuild(s) \/ RunWithRebuild(s)
      PROVE  shape'.batch_size = setup'.config.batch_size
  <2>1. shape'.batch_size = Effective(s).batch_size /\ setup' = s
    BY <1>3 DEF RunFailsToRebuild, RunWithRebuild, RebuildFails, Rebuild, StartRun
  <2>2. Stage(s.config, Compressed(s))
    BY <1>3 DEF RunFailsToRebuild, RunWithRebuild
  <2> QED
    BY <2>1, <2>2, StageInv
<1>4. ASSUME NEW s \in Setups, RunWithoutRebuild(s)
      PROVE  shape'.batch_size = setup'.config.batch_size
  <2>1. /\ Stage(s.config, Compressed(s)) /\ setup' = s
        /\ s.config.batch_size = setup.config.batch_size
        /\ shape' = [shape EXCEPT !.total_spheres = Effective(s).spheres]
    BY <1>4 DEF RunWithoutRebuild, StartRun, RebuildRequired, Changed, Reshape
  <2>2. NothingFailedToStage
    <3> SUFFICES ASSUME NEW k \in DOMAIN cache PROVE cache[k].complete
      BY DEF NothingFailedToStage
    <3>1. k \in DOMAIN cache' /\ cache'[k] = cache[k]
      BY <2>1 DEF Stage, IsCached, Put
    <3> QED
      BY <3>1 DEF NothingFailedToStage
  <2>3. shape'.batch_size = shape.batch_size
    BY <2>1 DEF IInv, TypeOK
  <2> QED
    BY <2>1, <2>2, <2>3 DEF SizeInv
<1> QED
  BY <1>1, <1>2, <1>3, <1>4 DEF Start

\* If no staging has failed, each block of a compressed file is decompressed into a
\* slot that has been made for it, in whatever order configurations with the same
\* or other batches, data sets and implementations follow each other, and whatever
\* else has failed.
THEOREM BlocksFitUnlessStagingFailed == Spec => []BlocksAreBatchesIfStaged
<1>1. Init => SizeInv
  BY DEF Init, ContextInit, NoSetup, SizeInv
<1>2. IInv /\ SizeInv => BlocksAreBatchesIfStaged
  BY DEF IInv, CacheInv, SizeInv, BlocksAreBatchesIfStaged, BlocksAreBatches, InLoop,
     Written, Compressed
<1> QED
  BY <1>1, <1>2, SizeStep, Invariance, PTL DEF Spec

-----------------------------------------------------------------------------
(* The context implements SlotPool.                                         *)

\* Handing out a slot acquires it.
LEMMA TakeAcquires ==
    ASSUME TypeOK, NEW b \in DOMAIN fence_values, Take(b)
    PROVE  Pool!Acquire(b)
<1>1. /\ fence_values' = [fence_values EXCEPT ![b] = Never]
      /\ completed' = completed
      /\ fence_values[b] # Never /\ fence_values[b] <= completed
      /\ fence_values \in [DOMAIN fence_values -> Nat \cup {Never}]
  BY DEF Take, IsLast, Reusable, TypeOK
<1>2. Owner[b] = "free" /\ Owner' = [Owner EXCEPT ![b] = "cpu"]
  BY <1>1 DEF Owner
<1> QED
  BY <1>2 DEF Pool!Acquire

\* signal_done submits the slot, even if it fails to signal.
LEMMA MarkSubmits ==
    ASSUME IInv, pc = "signal", completed' = completed,
           fence_values' = [fence_values EXCEPT ![slot] = next_fence_value + 1]
    PROVE  slot \in DOMAIN Owner /\ Pool!Submit(slot)
<1>1. /\ fence_values \in [DOMAIN fence_values -> Nat \cup {Never}]
      /\ slot \in DOMAIN fence_values /\ fence_values[slot] = Never
      /\ completed \in Nat /\ next_fence_value \in Nat
      /\ completed <= next_fence_value
  BY DEF IInv, TypeOK, HasSlot, ContextInv, CpuSlotInv, SignalInv
<1>2. next_fence_value + 1 # Never /\ ~(next_fence_value + 1 <= completed)
  BY <1>1 DEF Never
<1>3. Owner[slot] = "cpu" /\ Owner' = [Owner EXCEPT ![slot] = "gpu"]
        /\ slot \in DOMAIN Owner
  BY <1>1, <1>2 DEF Owner
<1> QED
  BY <1>3 DEF Pool!Submit

\* A signal frees the slots that were waiting for a value up to its own.
LEMMA SignalFinishes ==
    ASSUME IInv, GpuSignal
    PROVE  \E slots \in SUBSET DOMAIN Owner : Pool!Finish(slots)
<1> DEFINE freed == {b \in DOMAIN fence_values :
                        fence_values[b] # Never /\ completed < fence_values[b]
                        /\ fence_values[b] <= completed'}
<1>1. /\ fence_values \in [DOMAIN fence_values -> Nat \cup {Never}]
      /\ completed \in Nat /\ fence_values' = fence_values
      /\ completed' \in Nat /\ completed <= completed'
  <2>1. /\ fence_values \in [DOMAIN fence_values -> Nat \cup {Never}]
        /\ completed \in Nat /\ fence_values' = fence_values
        /\ 1 \in 1 .. Len(queue) /\ Head(queue) = queue[1]
    BY TailQueue DEF IInv, TypeOK, GpuSignal
  <2>2. CASE Head(queue).fence = fence
    <3>1. IsSignal(1) /\ completed' = queue[1].value
      BY <2>1, <2>2 DEF GpuSignal, IsSignal
    <3>2. completed < queue[1].value /\ queue[1].value \in Nat
      BY <2>1, <3>1, QueueTypes DEF IInv, ContextInv, SignalInv, IsSignal
    <3> QED
      BY <2>1, <3>1, <3>2
  <2>3. CASE Head(queue).fence # fence
    BY <2>1, <2>3 DEF GpuSignal
  <2> QED
    BY <2>2, <2>3
<1>2. freed \in SUBSET DOMAIN Owner
  BY DEF Owner
<1>3. \A b \in freed : Owner[b] = "gpu"
  BY <1>1 DEF Owner
<1>4. Owner' = [b \in DOMAIN Owner |-> IF b \in freed THEN "free" ELSE Owner[b]]
  BY <1>1 DEF Owner
<1>5. Pool!Finish(freed)
  BY <1>3, <1>4 DEF Pool!Finish
<1> QED
  BY <1>2, <1>5

\* The slots are free, the CPU's or the GPU's in turn for this benchmark, too,
\* which looks for them with try_next_batch.
THEOREM ContextIsSlotPool == Spec => ImplementsPool
<1>1. Init => Pool!PoolInit
  <2> SUFFICES ASSUME Init PROVE Owner = <<>>
    BY DEF Pool!PoolInit
  <2>1. fence_values = <<>>
    BY DEF Init, ContextInit
  <2> QED
    BY <2>1 DEF Owner
<1>2. IInv /\ [Next]_vars => [Pool!PoolNext]_Owner
  <2> SUFFICES ASSUME IInv, [Next]_vars PROVE Pool!PoolNext \/ UNCHANGED Owner
    OBVIOUS
  <2>1. ASSUME UNCHANGED <<fence_values, completed>> PROVE UNCHANGED Owner
    BY <2>1 DEF Owner
  <2>2. ASSUME NEW s \in Setups, RunWithRebuild(s) PROVE Pool!Renew
    <3>1. fence_values' = [b \in 0 .. Effective(s).batch_count - 1 |-> 0]
          /\ completed' = 0
      BY <2>2 DEF RunWithRebuild, Rebuild
    <3>2. \A b \in DOMAIN Owner' : Owner'[b] = "free"
      BY <3>1 DEF Owner, Never
    <3> QED
      BY <3>2 DEF Pool!Renew
  <2>3. ASSUME NEW s \in Setups, RunFailsToStage(s) \/ RunFailsToRebuild(s)
                                 \/ RunWithoutRebuild(s)
        PROVE  UNCHANGED <<fence_values, completed>>
    BY <2>3 DEF RunFailsToStage, RunFailsToRebuild, RebuildFails, RunWithoutRebuild,
                Reshape, contextVars
  <2>4. ASSUME TryNextBatch \/ NextBatch \/ Scan PROVE Pool!PoolNext \/ UNCHANGED Owner
    <3>1. \/ \E b \in DOMAIN fence_values : Take(b)
          \/ UNCHANGED <<fence_values, completed>>
      BY <2>4 DEF TryNextBatch, NextBatch, Scan, NextBatchReady, NextBatchRescan,
                  NextBatchNothing, contextVars
    <3>2. DOMAIN Owner = DOMAIN fence_values
      BY DEF Owner
    <3> QED
      BY <2>1, <3>1, <3>2, TakeAcquires DEF IInv, Pool!PoolNext
  <2>5. ASSUME Signal \/ SignalFails PROVE Pool!PoolNext
    <3>1. pc = "signal" /\ completed' = completed
          /\ fence_values' = [fence_values EXCEPT ![slot] = next_fence_value + 1]
      BY <2>5 DEF Signal, SignalFails, SignalDone, SignalDoneFails
    <3> QED
      BY <3>1, MarkSubmits DEF Pool!PoolNext
  <2>6. ASSUME GpuSignal PROVE Pool!PoolNext
    BY <2>6, SignalFinishes DEF Pool!PoolNext
  <2>7. ASSUME GpuDraw \/ GpuWait \/ Event \/ Io \/ AutoSubmit \/ UNCHANGED vars
        PROVE  UNCHANGED <<fence_values, completed>>
    BY <2>7 DEF GpuDraw, GpuWait, Event, Notify, Io, IoRead, IoSignal, AutoSubmit,
                vars, contextVars
  <2>8. ASSUME Open \/ SubmitAndWait \/ Wait \/ Enqueue \/ EnqueueCrashes \/ Hold
               \/ Draw \/ Register \/ Present \/ Drain
        PROVE  UNCHANGED <<fence_values, completed>>
    BY <2>8 DEF Open, SubmitAndWait, Wait, EventWait, Enqueue, EnqueueAs,
                EnqueueCrashes, Hold, HoldFor, Draw, Execute, Register, RegisterEvent,
                Present, Drain, contextVars
  <2>9. ASSUME OpenFails \/ DrawFails \/ RegisterFails \/ PresentFails
        PROVE  UNCHANGED <<fence_values, completed>>
    BY <2>9 DEF OpenFails, DrawFails, RegisterFails, PresentFails, contextVars
  <2> QED
    BY <2>1, <2>2, <2>3, <2>4, <2>5, <2>6, <2>7, <2>8, <2>9
       DEF Next, Start, Work, Fail, Gpu, Pool!PoolNext
<1> QED
  BY <1>1, <1>2, Invariance, PTL DEF Spec, ImplementsPool, Pool!PoolSpec

-----------------------------------------------------------------------------
(* Nobody is stuck.                                                         *)

Registered(value) == [fence |-> fence, value |-> value] \in armed
Notified == event \/ \E a \in armed : a.fence = fence /\ a.value <= completed

\* What has become reusable since the last scan has set the event or will set it, and
\* what is not yet reusable has a signal in the queue and a registration for it; the
\* last signal may not yet have been registered.
WakeInv ==
    built = "yes" /\ ~unregistered =>
        /\ \/ pc = "scan" \/ Notified \/ ready_count = Cardinality(Reusable)
           \/ pc = "register" /\ next_fence_value <= completed
        /\ \A b \in DOMAIN fence_values : completed < fence_values[b] =>
              /\ \E i \in 1 .. Len(queue) : IsSignal(i) /\ queue[i].value = fence_values[b]
              /\ \/ Registered(fence_values[b])
                 \/ pc = "register" /\ fence_values[b] = next_fence_value

\* A step that changes nothing of the context but the layout, and does not take the
\* place of the scan or of a registration.
LEMMA WakeUnaffected ==
    ASSUME WakeInv, pc \notin {"scan", "register"} \/ pc' = pc,
           UNCHANGED <<built, unregistered, fence, completed, fence_values, ready_count,
                       next_fence_value, event, armed, queue>>
    PROVE  WakeInv'
  BY DEF WakeInv, Notified, Registered, IsSignal, Reusable

\* The slot that is handed out and counted exactly is marked.
LEMMA WakeTake ==
    ASSUME IInv, WakeInv, pc \in {"poll", "scan"}, NEW b \in DOMAIN fence_values, Take(b),
           pc' \notin {"scan", "register"}, UNCHANGED unregistered
    PROVE  WakeInv'
<1>1. /\ built = "yes" /\ TypeOK
      /\ completed \in Nat /\ fence_values \in [DOMAIN fence_values -> Nat \cup {Never}]
  BY DEF IInv, TypeOK
<1>2. ready_count' = Cardinality(Reusable')
  BY <1>1, TakeTypes
<1>3. /\ fence_values' = [fence_values EXCEPT ![b] = Never]
      /\ UNCHANGED <<fence, completed, armed, queue, next_fence_value>>
  BY DEF Take
<1>4. \A c \in DOMAIN fence_values' :
          completed' < fence_values'[c] => c # b /\ fence_values'[c] = fence_values[c]
  BY <1>1, <1>3 DEF Never
<1>5. ASSUME ~unregistered, NEW c \in DOMAIN fence_values', completed' < fence_values'[c]
      PROVE  /\ \E i \in 1 .. Len(queue') : IsSignal(i)' /\ queue'[i].value = fence_values'[c]
             /\ Registered(fence_values[c])'
  BY <1>1, <1>3, <1>4, <1>5 DEF WakeInv, Registered, IsSignal
<1> QED
  BY <1>2, <1>3, <1>4, <1>5 DEF WakeInv, Registered

\* The scan has found nothing.
LEMMA WakeNothing ==
    ASSUME IInv, WakeInv, NextBatchNothing, pc # "register", pc' \notin {"scan", "register"},
           UNCHANGED unregistered
    PROVE  WakeInv'
<1>1. ready_count' = Cardinality(Reusable')
  BY FS_EmptySet DEF NextBatchNothing, Reusable
<1> QED
  BY <1>1 DEF NextBatchNothing, WakeInv, Registered, IsSignal

\* A signal and its registration.
LEMMA WakeSignal == IInv /\ WakeInv /\ Signal => WakeInv'
<1> SUFFICES ASSUME IInv, WakeInv, Signal, ~unregistered PROVE WakeInv'
  BY DEF WakeInv, Signal
<1> DEFINE e == [op |-> "signal", fence |-> fence, value |-> next_fence_value + 1]
<1>1. /\ TypeOK /\ built = "yes" /\ completed \in Nat /\ next_fence_value \in Nat
      /\ completed <= next_fence_value /\ fence \in Nat
      /\ fence_values \in [DOMAIN fence_values -> Nat \cup {Never}]
      /\ slot \in DOMAIN fence_values /\ fence_values[slot] = Never /\ pc = "signal"
  BY DEF IInv, TypeOK, ContextInv, SignalInv, CpuSlotInv, HasSlot, Signal
<1>2. /\ next_fence_value' = next_fence_value + 1 /\ pc' = "register"
      /\ fence_values' = [fence_values EXCEPT ![slot] = next_fence_value + 1]
      /\ queue' = Append(queue, e)
      /\ UNCHANGED <<built, fence, completed, ready_count, event, armed, unregistered>>
  BY DEF Signal, SignalDone
<1>3. e \in Operations /\ e.op = "signal" /\ e.fence = fence /\ e.value = next_fence_value + 1
  BY <1>1 DEF Operations
<1> HIDE DEF e
<1>4. /\ Len(queue) \in Nat
      /\ Len(queue') = Len(queue) + 1 /\ queue'[Len(queue) + 1] = e
      /\ \A i \in 1 .. Len(queue) : queue'[i] = queue[i]
  <2>1. Len(queue) \in Nat
    BY DEF IInv, TypeOK
  <2> QED
    BY <1>1, <1>2, <1>3, <2>1, AppendQueue
<1>5. Reusable' = Reusable
  BY <1>1, <1>2 DEF Reusable, Never
<1>6. Notified' = Notified
  BY <1>2 DEF Notified
<1>7. ASSUME NEW b \in DOMAIN fence_values', completed' < fence_values'[b]
      PROVE  /\ \E i \in 1 .. Len(queue') : IsSignal(i)' /\ queue'[i].value = fence_values'[b]
             /\ Registered(fence_values[b])' \/ fence_values'[b] = next_fence_value'
  <2>1. CASE b = slot
    <3>1. PICK n \in 1 .. Len(queue') : n = Len(queue) + 1
      BY <1>4
    <3>2. fence_values'[b] = next_fence_value + 1
      BY <1>1, <1>2, <2>1
    <3>3. IsSignal(n)'
      BY <1>2, <1>3, <1>4, <3>1 DEF IsSignal
    <3>4. queue'[n].value = fence_values'[b] /\ fence_values'[b] = next_fence_value'
      BY <1>2, <1>3, <1>4, <3>1, <3>2
    <3> QED
      BY <3>3, <3>4
  <2>2. CASE b # slot
    <3>1. b \in DOMAIN fence_values /\ completed < fence_values[b]
          /\ fence_values'[b] = fence_values[b]
      BY <1>1, <1>2, <1>7, <2>2
    <3>2. Registered(fence_values[b])
      BY <1>1, <3>1 DEF WakeInv
    <3>3. PICK i \in 1 .. Len(queue) : IsSignal(i) /\ queue[i].value = fence_values[b]
      BY <1>1, <3>1 DEF WakeInv
    <3>4. i \in 1 .. Len(queue') /\ queue'[i] = queue[i]
      BY <1>4
    <3>5. IsSignal(i)' /\ queue'[i].value = fence_values'[b]
      BY <1>2, <3>1, <3>3, <3>4 DEF IsSignal
    <3>6. Registered(fence_values[b])'
      BY <1>2, <3>1, <3>2 DEF Registered
    <3> QED
      BY <3>4, <3>5, <3>6
  <2> QED
    BY <2>1, <2>2
<1>8. Notified \/ ready_count = Cardinality(Reusable)
  BY <1>1 DEF WakeInv
<1>9. \A b \in DOMAIN fence_values' :
          completed' < fence_values'[b] =>
              /\ \E i \in 1 .. Len(queue') : IsSignal(i)' /\ queue'[i].value = fence_values'[b]
              /\ Registered(fence_values[b])' \/ fence_values'[b] = next_fence_value'
  BY <1>7
<1> QED
  BY <1>2, <1>5, <1>6, <1>8, <1>9 DEF WakeInv

LEMMA WakeRegister == IInv /\ WakeInv /\ Register => WakeInv'
<1> SUFFICES ASSUME IInv, WakeInv, Register, ~unregistered PROVE WakeInv'
  BY DEF WakeInv, Register
<1>1. /\ built = "yes" /\ completed \in Nat /\ next_fence_value \in Nat /\ pc = "register"
      /\ fence_values \in [DOMAIN fence_values -> Nat \cup {Never}]
  BY DEF IInv, TypeOK, Register
<1>2. /\ pc' \notin {"scan", "register"}
      /\ UNCHANGED <<built, fence, completed, fence_values, ready_count, next_fence_value,
                     queue, unregistered>>
      /\ \/ completed >= next_fence_value /\ event' = TRUE /\ UNCHANGED armed
         \/ /\ ~(completed >= next_fence_value) /\ UNCHANGED event
            /\ armed' = armed \cup {[fence |-> fence, value |-> next_fence_value]}
  BY DEF Register, RegisterEvent
<1>3. Notified' \/ (ready_count = Cardinality(Reusable))'
  BY <1>1, <1>2 DEF WakeInv, Notified, Reusable
<1>4. ASSUME NEW b \in DOMAIN fence_values, completed < fence_values[b]
      PROVE  Registered(fence_values[b])'
  BY <1>1, <1>2, <1>4 DEF WakeInv, Registered, SignalInv, ContextInv, IInv
<1>5. \A b \in DOMAIN fence_values : completed < fence_values[b] =>
          \E i \in 1 .. Len(queue) : IsSignal(i) /\ queue[i].value = fence_values[b]
  BY <1>1 DEF WakeInv
<1>6. \A i : IsSignal(i)' = IsSignal(i)
  BY <1>2 DEF IsSignal
<1> QED
  BY <1>2, <1>3, <1>4, <1>5, <1>6 DEF WakeInv, Registered

\* The queue loses its first element, which is no signal of this fence, and other
\* registrations than those of this fence are answered at most.
LEMMA WakePop ==
    ASSUME IInv, WakeInv, queue # <<>>, queue' = Tail(queue), ~IsSignal(1),
           event => event',
           \A a \in armed : a.fence = fence => a \in armed',
           UNCHANGED <<built, fence, completed, fence_values, ready_count, next_fence_value,
                       cpuVars>>
    PROVE  WakeInv'
<1> SUFFICES ASSUME built = "yes", ~unregistered PROVE WakeInv'
  BY DEF WakeInv, cpuVars
<1>1. /\ Len(queue) \in Nat \ {0} /\ Len(queue') = Len(queue) - 1
      /\ \A i \in 1 .. Len(queue') : queue'[i] = queue[i + 1]
  BY TailQueue DEF IInv
<1>2. Notified => Notified'
  BY DEF Notified
<1>3. ASSUME NEW i \in 1 .. Len(queue), IsSignal(i)
      PROVE  \E j \in 1 .. Len(queue') : IsSignal(j)' /\ queue'[j].value = queue[i].value
  <2>1. i # 1
    BY <1>3
  <2>2. i - 1 \in 1 .. Len(queue') /\ queue'[i - 1] = queue[(i - 1) + 1] /\ (i - 1) + 1 = i
    BY <1>1, <2>1
  <2>3. IsSignal(i - 1)'
    BY <1>3, <2>2 DEF IsSignal
  <2> QED
    BY <2>2, <2>3
<1>4. \A v : Registered(v) => Registered(v)'
  BY DEF Registered
<1>5. Reusable' = Reusable /\ pc' = pc
  BY DEF Reusable, cpuVars
<1>6. \A b \in DOMAIN fence_values : completed < fence_values[b] =>
          \E i \in 1 .. Len(queue') : IsSignal(i)' /\ queue'[i].value = fence_values[b]
  BY <1>3 DEF WakeInv
<1> QED
  BY <1>2, <1>4, <1>5, <1>6 DEF WakeInv, Registered

LEMMA WakeGpuSignal == IInv /\ WakeInv /\ GpuSignal /\ UNCHANGED cpuVars => WakeInv'
<1> SUFFICES ASSUME IInv, WakeInv, GpuSignal, UNCHANGED cpuVars PROVE WakeInv'
  OBVIOUS
<1>1. /\ queue # <<>> /\ queue' = Tail(queue) /\ Head(queue).op = "signal"
      /\ UNCHANGED <<built, fence, fence_values, ready_count, next_fence_value>>
  BY DEF GpuSignal
<1>2. /\ Len(queue) \in Nat \ {0} /\ Len(queue') = Len(queue) - 1
      /\ \A i \in 1 .. Len(queue') : queue'[i] = queue[i + 1]
      /\ Head(queue) = queue[1] /\ 1 \in 1 .. Len(queue)
  BY <1>1, TailQueue DEF IInv
<1>3. CASE Head(queue).fence # fence
  <2>1. ~IsSignal(1)
    BY <1>2, <1>3 DEF IsSignal
  <2>2. completed' = completed /\ (event => event')
    BY <1>3 DEF GpuSignal
  <2>3. \A a \in armed : a.fence = fence => a \in armed'
    BY <1>3 DEF GpuSignal
  <2> QED
    BY <1>1, <2>1, <2>2, <2>3, WakePop
<1>4. CASE Head(queue).fence = fence
  <2> SUFFICES ASSUME built = "yes", ~unregistered PROVE WakeInv'
    BY <1>1 DEF WakeInv, cpuVars
  <2>1. /\ IsSignal(1) /\ completed' = queue[1].value /\ completed < completed'
        /\ completed \in Nat /\ completed' \in Nat /\ next_fence_value \in Nat
        /\ fence_values \in [DOMAIN fence_values -> Nat \cup {Never}]
        /\ \A i \in 1 .. Len(queue) : IsSignal(i) => queue[i].value \in Nat
    <3>1. /\ completed \in Nat /\ next_fence_value \in Nat
          /\ fence_values \in [DOMAIN fence_values -> Nat \cup {Never}]
      BY DEF IInv, TypeOK
    <3>2. \A i \in 1 .. Len(queue) : IsSignal(i) => queue[i].value \in Nat
      BY QueueTypes DEF IsSignal, IInv
    <3>3. IsSignal(1) /\ completed' = queue[1].value
      BY <1>1, <1>2, <1>4 DEF GpuSignal, IsSignal
    <3>4. completed < queue[1].value
      BY <1>2, <3>3 DEF IInv, ContextInv, SignalInv
    <3> QED
      BY <1>2, <3>1, <3>2, <3>3, <3>4
  <2>2. UNCHANGED <<event, armed, pc, unregistered>>
    BY <1>4 DEF GpuSignal, cpuVars
  <2>3. ASSUME NEW b \in DOMAIN fence_values, completed' < fence_values[b]
        PROVE  /\ \E i \in 1 .. Len(queue') : IsSignal(i)' /\ queue'[i].value = fence_values[b]
               /\ \/ Registered(fence_values[b])'
                  \/ pc = "register" /\ fence_values[b] = next_fence_value
    <3>1. completed < fence_values[b]
      <4>1. fence_values[b] \in Int
        BY <2>1 DEF Never
      <4> QED
        BY <2>1, <2>3, <4>1
    <3>2. PICK i \in 1 .. Len(queue) : IsSignal(i) /\ queue[i].value = fence_values[b]
      BY <3>1 DEF WakeInv
    <3>3. i # 1
      BY <2>1, <2>3, <3>2
    <3>4. i - 1 \in 1 .. Len(queue') /\ queue'[i - 1] = queue[(i - 1) + 1] /\ (i - 1) + 1 = i
      BY <1>2, <3>3
    <3>5. IsSignal(i - 1)' /\ queue'[i - 1].value = fence_values[b]
      BY <1>1, <3>2, <3>4 DEF IsSignal
    <3>6. \/ Registered(fence_values[b])
          \/ pc = "register" /\ fence_values[b] = next_fence_value
      BY <3>1 DEF WakeInv
    <3> QED
      BY <1>1, <2>2, <3>4, <3>5, <3>6 DEF Registered
  <2>4. \/ pc = "scan" \/ Notified' \/ ready_count = Cardinality(Reusable')
        \/ pc = "register" /\ next_fence_value <= completed'
    <3>1. CASE \E b \in DOMAIN fence_values : completed < fence_values[b] /\ fence_values[b] <= completed'
      <4>1. PICK b \in DOMAIN fence_values :
                completed < fence_values[b] /\ fence_values[b] <= completed'
        BY <3>1
      <4>2. \/ Registered(fence_values[b])
            \/ pc = "register" /\ fence_values[b] = next_fence_value
        BY <4>1 DEF WakeInv
      <4>3. Registered(fence_values[b]) => Notified'
        BY <1>1, <2>2, <4>1 DEF Registered, Notified
      <4> QED
        BY <4>1, <4>2, <4>3
    <3>2. CASE ~ \E b \in DOMAIN fence_values : completed < fence_values[b] /\ fence_values[b] <= completed'
      <4>1. Reusable' = Reusable
        BY <1>1, <2>1, <3>2 DEF Reusable
      <4>2. Notified => Notified'
        <5>1. \A a \in armed : a.value \in Nat
          BY DEF IInv, TypeOK
        <5> QED
          BY <1>1, <2>1, <2>2, <5>1 DEF Notified
      <4>3. next_fence_value <= completed => next_fence_value <= completed'
        BY <2>1
      <4> QED
        BY <4>1, <4>2, <4>3 DEF WakeInv
    <3> QED
      BY <3>1, <3>2
  <2> QED
    BY <1>1, <2>2, <2>3, <2>4 DEF WakeInv, Registered
<1> QED
  BY <1>3, <1>4

LEMMA WakeEvent == IInv /\ WakeInv /\ Event => WakeInv'
<1> SUFFICES ASSUME IInv, WakeInv, Event PROVE WakeInv'
  OBVIOUS
<1>1. PICK a \in armed :
          /\ a.fence = fence /\ a.value <= completed
          /\ armed' = armed \ {a} /\ event' = TRUE
          /\ UNCHANGED <<built, fence, completed, fence_values, ready_count,
                         next_fence_value, queue, cpuVars>>
  BY DEF Event, Notify
<1>2. Notified'
  BY <1>1 DEF Notified
<1>3. \A b \in DOMAIN fence_values :
          completed < fence_values[b] /\ Registered(fence_values[b]) => Registered(fence_values[b])'
  <2>1. completed \in Nat /\ a.value \in Nat /\ fence_values \in [DOMAIN fence_values -> Nat \cup {Never}]
    BY DEF IInv, TypeOK
  <2> SUFFICES ASSUME NEW b \in DOMAIN fence_values, completed < fence_values[b],
                      Registered(fence_values[b])
               PROVE  Registered(fence_values[b])'
    OBVIOUS
  <2>2. a # [fence |-> fence, value |-> fence_values[b]]
    BY <1>1, <2>1
  <2> QED
    BY <1>1, <2>2 DEF Registered
<1>4. /\ pc' = pc /\ unregistered' = unregistered
      /\ \A i : IsSignal(i)' = IsSignal(i)
  BY <1>1 DEF cpuVars, IsSignal
<1> QED
  BY <1>1, <1>2, <1>3, <1>4 DEF WakeInv, Registered


LEMMA WakeStart == IInv /\ WakeInv /\ Start => WakeInv'
<1> SUFFICES ASSUME IInv, WakeInv, Start PROVE WakeInv'
  OBVIOUS
<1>1. pc = "idle"
  BY DEF Start, RunFailsToStage, RunFailsToRebuild, RunWithRebuild, RunWithoutRebuild,
         StartRun
<1>2. ASSUME NEW s \in Setups, RunFailsToStage(s) \/ RunWithoutRebuild(s) PROVE WakeInv'
  BY <1>1, <1>2, WakeUnaffected DEF RunFailsToStage, RunWithoutRebuild, Reshape, contextVars
<1>3. ASSUME NEW s \in Setups, RunFailsToRebuild(s) PROVE WakeInv'
  BY <1>3 DEF RunFailsToRebuild, RebuildFails, WakeInv
<1>4. ASSUME NEW s \in Setups, RunWithRebuild(s) PROVE WakeInv'
  <2> DEFINE count == Effective(s).batch_count
  <2>1. /\ completed' = 0 /\ fence_values' = [b \in 0 .. count - 1 |-> 0]
        /\ ready_count' = count
    BY <1>4 DEF RunWithRebuild, Rebuild
  <2>2. Reusable' = 0 .. count - 1
    BY <2>1 DEF Reusable, Never
  <2>3. count \in Nat \ {0}
    BY DirectStorageAssumption, ConfigsAssumption DEF Effective
  <2> HIDE DEF count
  <2>4. Cardinality(0 .. count - 1) = count
    <3>1. 0 \in Int /\ count - 1 \in Int /\ ~(0 > count - 1)
      BY <2>3
    <3>2. Cardinality(0 .. count - 1) = IF 0 > count - 1 THEN 0 ELSE count - 1 - 0 + 1
      BY <3>1, FS_Interval
    <3> QED
      BY <2>3, <3>1, <3>2
  <2> QED
    BY <2>1, <2>2, <2>4 DEF WakeInv
<1> QED
  BY <1>2, <1>3, <1>4 DEF Start

\* The operations that the CPU appends to the queue before it signals.
LEMMA WakeAppend ==
    ASSUME IInv, WakeInv, pc \in {"hold", "execute"}, pc' \notin {"scan", "register"},
           NEW e, queue' = Append(queue, e),
           UNCHANGED <<built, unregistered, fence, completed, fence_values, ready_count,
                       next_fence_value, event, armed>>
    PROVE  WakeInv'
<1>1. /\ Len(queue') = Len(queue) + 1 /\ Len(queue) \in Nat
      /\ \A i \in 1 .. Len(queue) : queue'[i] = queue[i]
  BY DEF IInv, TypeOK
<1>2. \A i \in 1 .. Len(queue) :
          i \in 1 .. Len(queue') /\ (IsSignal(i) => IsSignal(i)' /\ queue'[i] = queue[i])
  BY <1>1 DEF IsSignal
<1>3. /\ Reusable' = Reusable /\ Notified' = Notified
      /\ \A v : Registered(v)' = Registered(v)
  BY DEF Reusable, Notified, Registered
<1> QED
  BY <1>1, <1>2, <1>3 DEF WakeInv

LEMMA WakeWork == IInv /\ WakeInv /\ Work => WakeInv'
<1> SUFFICES ASSUME IInv, WakeInv, Work PROVE WakeInv'
  OBVIOUS
<1>1. ASSUME NEW b \in DOMAIN fence_values, Take(b), pc \in {"poll", "scan"},
             pc' = "enqueue", UNCHANGED cpuVars \/ UNCHANGED unregistered
      PROVE  WakeInv'
  BY <1>1, WakeTake DEF cpuVars
<1>2. CASE TryNextBatch
  BY <1>1, <1>2, WakeNothing DEF TryNextBatch
<1>3. CASE NextBatch
  <2>1. CASE UNCHANGED contextVars
    BY <1>3, <2>1, WakeUnaffected DEF NextBatch, contextVars
  <2> QED
    BY <1>1, <1>3, <2>1 DEF NextBatch, NextBatchReady
<1>4. CASE Wait
  BY <1>4 DEF Wait, EventWait, WakeInv, Registered, IsSignal
<1>5. CASE Scan
  BY <1>1, <1>5, WakeNothing DEF Scan, NextBatchRescan
<1>6. CASE Open \/ SubmitAndWait \/ Enqueue \/ EnqueueCrashes \/ Present \/ Drain
  BY <1>6, WakeUnaffected DEF Open, SubmitAndWait, Enqueue, EnqueueAs, EnqueueCrashes,
     Present, Drain, contextVars
<1>7. CASE Hold
  BY <1>7, WakeAppend DEF Hold, HoldFor
<1>8. CASE Draw
  BY <1>8, WakeAppend DEF Draw, Execute
<1>9. CASE Signal \/ Register
  BY <1>9, WakeSignal, WakeRegister
<1> QED
  BY <1>2, <1>3, <1>4, <1>5, <1>6, <1>7, <1>8, <1>9 DEF Work

LEMMA WakeStep == IInv /\ WakeInv /\ [Next]_vars => WakeInv'
<1> SUFFICES ASSUME IInv, WakeInv, [Next]_vars PROVE WakeInv'
  OBVIOUS
<1>1. CASE Fail
  <2>1. CASE OpenFails \/ DrawFails \/ PresentFails
    BY <2>1, WakeUnaffected DEF OpenFails, DrawFails, PresentFails, contextVars
  <2>2. CASE SignalFails \/ RegisterFails
    BY <2>2 DEF SignalFails, RegisterFails, WakeInv
  <2> QED
    BY <1>1, <2>1, <2>2 DEF Fail
<1>2. CASE Gpu
  <2>1. ASSUME GpuDraw \/ GpuWait, UNCHANGED cpuVars PROVE WakeInv'
    <3>1. /\ queue # <<>> /\ queue' = Tail(queue) /\ Head(queue).op # "signal"
      BY <2>1 DEF GpuDraw, GpuWait
    <3>2. ~IsSignal(1)
      BY <3>1, TailQueue DEF IInv, IsSignal
    <3> QED
      BY <2>1, <3>1, <3>2, WakePop DEF GpuDraw, GpuWait
  <2> QED
    BY <1>2, <2>1, WakeGpuSignal DEF Gpu
<1>3. CASE Io \/ AutoSubmit \/ UNCHANGED vars
  BY <1>3, WakeUnaffected DEF Io, IoRead, IoSignal, AutoSubmit, vars, contextVars, cpuVars
<1> QED
  BY <1>1, <1>2, <1>3, WakeStart, WakeWork, WakeEvent DEF Next

\* Nobody waits while a slot is counted as ready, or for requests that have not been
\* submitted.
WaitingInv ==
    /\ pc = "wait" => ready_count = 0
    /\ Naive \/ pc \in {"wait", "scan"} => enqueued = {}

LEMMA WaitingStep == IInv /\ WaitingInv /\ [Next]_vars => WaitingInv'
<1> SUFFICES ASSUME IInv, WaitingInv, [Next]_vars PROVE WaitingInv'
  OBVIOUS
<1>1. ready_count \in Nat
  BY DEF IInv, TypeOK
<1>2. CASE Start
  BY <1>2 DEF Start, RunFailsToStage, RunFailsToRebuild, RunWithRebuild, RunWithoutRebuild,
     StartRun, WaitingInv, IInv, RequestInv, OrderInv
<1>3. CASE TryNextBatch \/ NextBatch \/ Wait \/ Scan
  BY <1>1, <1>3 DEF TryNextBatch, NextBatch, Wait, Scan, NextBatchMustWait,
     NextBatchNothing, contextVars, ioVars, WaitingInv, Naive
<1>4. CASE Open \/ SubmitAndWait \/ EnqueueCrashes \/ Hold \/ Draw \/ Signal \/ Register
           \/ Present \/ Drain
  BY <1>1, <1>4 DEF Open, SubmitAndWait, NextBatchMustWait, EnqueueCrashes, Hold, HoldFor,
     Draw, Signal, Register, Present, NextFrame, Drain, contextVars, ioVars, WaitingInv, Naive
<1>5. CASE Enqueue
  BY <1>5 DEF Enqueue, EnqueueAs, WaitingInv, Naive
<1>6. CASE Fail
  BY <1>6 DEF Fail, OpenFails, DrawFails, SignalFails, RegisterFails, PresentFails, Abandon,
     ioVars, WaitingInv, Naive
<1>7. CASE Io \/ AutoSubmit \/ Gpu \/ Event \/ UNCHANGED vars
  <2>1. /\ UNCHANGED cpuVars /\ ready_count' = ready_count
        /\ enqueued' = enqueued \/ enqueued' = {}
    BY <1>7 DEF Io, IoRead, IoSignal, AutoSubmit, Gpu, GpuDraw, GpuSignal, GpuWait, Event,
       Notify, vars, contextVars, ioVars
  <2> QED
    BY <2>1 DEF cpuVars, WaitingInv, Naive
<1> QED
  BY <1>2, <1>3, <1>4, <1>5, <1>6, <1>7 DEF Next, Work

\* What has been submitted can be read, or the first of what has been read be signalled.
LEMMA SubmittedIsRead ==
    ASSUME TypeOK, submitted \cup read # {}
    PROVE  IoGoesOn
<1> SUFFICES ASSUME NEW r \in read PROVE \E q \in read : \A p \in read : p.run = q.run => q.value <= p.value
  BY DEF IoGoesOn
<1> DEFINE values == {p.value : p \in {q \in read : q.run = r.run}}
<1>1. \A p \in read : p.value \in Nat
  BY DEF TypeOK, Requests
<1>2. values \subseteq Nat /\ r.value \in values
  BY <1>1
<1>3. PICK n \in values : \A m \in values : ~(<<m, n>> \in OpToRel(<, Nat))
  <2> HIDE DEF values
  <2> QED
    BY <1>2, NatLessThanWellFounded, WFMin
<1>4. ASSUME NEW m \in values PROVE n <= m
  <2> HIDE DEF values
  <2>1. m \in Nat /\ n \in Nat
    BY <1>2
  <2>2. ASSUME m < n PROVE FALSE
    <3>1. <<m, n>> \in OpToRel(<, Nat)
      BY <2>1, <2>2 DEF OpToRel
    <3> QED
      BY <1>3, <3>1, Zenon
  <2> QED
    BY <2>1, <2>2
<1>5. PICK q \in read : q.run = r.run /\ q.value = n
  OBVIOUS
<1> QED
  BY <1>4, <1>5

\* A GPU that has something to do goes on, or waits for what has been submitted.
LEMMA GpuIsServed ==
    ASSUME IInv, lost = {}, enqueued = {}, queue # <<>>
    PROVE  GpuGoesOn \/ IoGoesOn
<1>1. 1 \in 1 .. Len(queue) /\ Head(queue) = queue[1]
  BY TailQueue DEF IInv, TypeOK
<1> SUFFICES ASSUME queue[1].op = "wait", ~(queue[1].value <= io_completed[queue[1].fence])
             PROVE  submitted \cup read # {}
  BY <1>1, SubmittedIsRead DEF GpuGoesOn, IInv
<1> QED
  BY <1>1 DEF IInv, AnswerInv, EveryWaitIsAnswered, Outstanding

\* As long as no call has failed, CPU, GPU and DirectStorage never all wait for each
\* other: whoever waits is waiting for somebody who can go on.
THEOREM NoDeadlock == Spec => []NobodyIsStuck
<1>1. Init => WakeInv /\ WaitingInv
  BY DEF Init, ContextInit, WakeInv, WaitingInv
<1>2. IInv /\ WakeInv /\ WaitingInv => NobodyIsStuck
  <2> SUFFICES ASSUME IInv, WakeInv, WaitingInv, pc \in {"wait", "drain"}, lost = {},
                      pc = "wait" => ~unregistered,
                      pc = "wait" => \E b \in DOMAIN fence_values : fence_values[b] # Never
               PROVE  CpuGoesOn \/ EventIsDue \/ GpuGoesOn \/ IoGoesOn
    BY DEF NobodyIsStuck
  <2>1. enqueued = {}
    BY DEF WaitingInv, IInv, RequestInv, SubmitInv
  <2>2. CASE queue # <<>>
    BY <2>1, <2>2, GpuIsServed
  <2>3. CASE queue = <<>> /\ pc = "drain"
    BY <2>3 DEF CpuGoesOn
  <2>4. CASE queue = <<>> /\ pc = "wait"
    <3>1. /\ built = "yes" /\ TypeOK /\ completed \in Nat
          /\ fence_values \in [DOMAIN fence_values -> Nat \cup {Never}]
      BY <2>4 DEF IInv, TypeOK
    <3>2. PICK b \in DOMAIN fence_values : fence_values[b] # Never
      BY <2>4
    <3>3. ~(completed < fence_values[b])
      BY <2>4, <3>1 DEF WakeInv
    <3>4. b \in Reusable
      BY <3>1, <3>2, <3>3 DEF Reusable
    <3>5. ready_count # Cardinality(Reusable)
      BY <2>4, <3>1, <3>4, SlotsAreFinite, FS_EmptySet DEF WaitingInv
    <3> QED
      BY <2>4, <3>1, <3>5 DEF WakeInv, Notified, CpuGoesOn, EventIsDue
  <2> QED
    BY <2>2, <2>3, <2>4
<1> QED
  BY <1>1, <1>2, WakeStep, WaitingStep, Invariance, PTL DEF Spec
=============================================================================
