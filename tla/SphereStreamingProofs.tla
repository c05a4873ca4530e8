----------------------- MODULE SphereStreamingProofs -----------------------
(***************************************************************************)
(* What holds of the streaming benchmark for any configurations, any       *)
(* number of frames and runs, and whichever calls fail: the invariants of  *)
(* SphereStreaming, and that the context is a SlotPool.                    *)
(***************************************************************************)
EXTENDS SphereStreaming, BatchLayoutProofs, FiniteSetTheorems, TLAPS

-----------------------------------------------------------------------------
(* The inductive invariant.                                                 *)

IsDraw(i) == queue[i].op = "draw" /\ queue[i].fence = fence
IsSignal(i) == queue[i].op = "signal" /\ queue[i].fence = fence

\* Signals of the current fence are pending in the order of their values; they
\* have not been reached, and no value beyond the last one has been used.
SignalInv ==
    /\ completed <= next_fence_value
    /\ \A i \in 1 .. Len(queue) : queue[i].fence <= fence
    /\ \A i \in 1 .. Len(queue) :
          IsSignal(i) => completed < queue[i].value /\ queue[i].value <= next_fence_value
    /\ \A i, j \in 1 .. Len(queue) :
          i < j /\ IsSignal(i) /\ IsSignal(j) => queue[i].value < queue[j].value
    /\ \A b \in DOMAIN fence_values :
          fence_values[b] # Never => fence_values[b] <= next_fence_value

\* A slot with a pending draw becomes reusable only by a signal behind the draw.
DrawInv ==
    \A i \in 1 .. Len(queue) : IsDraw(i) =>
        /\ queue[i].slot \in DOMAIN fence_values
        /\ fence_values[queue[i].slot] # Never =>
              /\ completed < fence_values[queue[i].slot]
              /\ \A j \in 1 .. i : IsSignal(j) =>
                     queue[j].value < fence_values[queue[i].slot]

\* The slot that the CPU works with is marked.
SlotInv == pc \in {"copy", "execute", "signal"} => fence_values[slot] = Never

\* The slots counted as ready can be found.
ReadyInv == built = "yes" => ready_count <= Cardinality(Reusable)

IInv == /\ TypeOK /\ SignalInv /\ DrawInv /\ SlotInv /\ ReadyInv
        /\ PendingDrawsIntact /\ NoDrawFromCpuSlot

-----------------------------------------------------------------------------
(* Lemmas about the scan of next_batch.                                     *)

\* The slots are finitely many.
LEMMA SlotsAreFinite ==
    ASSUME TypeOK, built = "yes"
    PROVE  /\ IsFiniteSet(DOMAIN fence_values)
           /\ Cardinality(DOMAIN fence_values) = batch_count
           /\ IsFiniteSet(Reusable)
           /\ Cardinality(Reusable) \in Nat
<1>1. DOMAIN fence_values = 0 .. batch_count - 1 /\ batch_count \in Nat
  BY DEF TypeOK, Slots
<1>2. /\ IsFiniteSet(0 .. batch_count - 1)
      /\ Cardinality(0 .. batch_count - 1) = batch_count
  BY <1>1, FS_Interval
<1>3. Reusable \subseteq DOMAIN fence_values
  BY DEF Reusable
<1>4. IsFiniteSet(Reusable)
  BY <1>1, <1>2, <1>3, FS_Subset
<1>5. Cardinality(Reusable) \in Nat
  BY <1>4, FS_CardinalityType
<1> QED
  BY <1>1, <1>2, <1>4, <1>5

\* Handing out a slot removes it, and only it, from the reusable ones.
LEMMA TakeRemovesSlot ==
    ASSUME TypeOK, built = "yes", NEW b \in DOMAIN fence_values, Take(b)
    PROVE  /\ b \in Reusable
           /\ fence_values[b] # Never /\ fence_values[b] <= completed
           /\ ready_count' \in Nat
           /\ ready_count' = Cardinality(Reusable')
<1>1. b \in Reusable
  BY DEF Take, IsLast
<1>2. fence_values[b] # Never /\ fence_values[b] <= completed
  BY <1>1 DEF Reusable
<1>3. Reusable' = Reusable \ {b}
  BY <1>1 DEF Take, Reusable, TypeOK
<1>4. /\ Cardinality(Reusable \ {b}) = Cardinality(Reusable) - 1
      /\ IsFiniteSet(Reusable \ {b})
  BY <1>1, SlotsAreFinite, FS_RemoveElement
<1>5. Cardinality(Reusable \ {b}) \in Nat
  BY <1>4, FS_CardinalityType
<1> QED
  BY <1>1, <1>2, <1>3, <1>4, <1>5 DEF Take

-----------------------------------------------------------------------------
(* The initial state and the steps of the CPU that start a run.             *)

LEMMA InitInv == Init => IInv
<1> SUFFICES ASSUME Init PROVE IInv
  OBVIOUS
<1>1. queue = <<>> /\ fence_values = <<>> /\ buffer = <<>> /\ armed = {}
  BY DEF Init, ContextInit
<1>2. Len(queue) = 0 /\ queue \in Seq(Operations) /\ DOMAIN fence_values = {}
  BY <1>1
<1>3. /\ fence_values \in [DOMAIN buffer -> Nat \cup {Never}]
      /\ buffer \in [DOMAIN buffer -> [run : Nat, frame : Nat, batch : Nat]]
      /\ DOMAIN buffer \subseteq Nat
  BY <1>1
<1>4. TypeOK
  BY <1>1, <1>2, <1>3 DEF Init, ContextInit, TypeOK
<1> QED
  BY <1>2, <1>4 DEF Init, ContextInit, IInv, SignalInv, DrawInv, SlotInv, ReadyInv,
                    PendingDrawsIntact, NoDrawFromCpuSlot

\* The elements of the queue.
LEMMA QueueTypes ==
    ASSUME TypeOK, NEW i \in 1 .. Len(queue)
    PROVE  /\ queue[i] \in Operations
           /\ queue[i].op \in {"draw", "signal"}
           /\ queue[i].fence \in Nat
           /\ queue[i].op = "draw" => queue[i].slot \in Nat
           /\ queue[i].op = "signal" => queue[i].value \in Nat
<1>1. queue[i] \in Operations
  BY DEF TypeOK
<1> QED
  BY <1>1 DEF Operations

LEMMA StartRunTypes ==
    ASSUME TypeOK, NEW c \in Configs, StartRun(c)
    PROVE  /\ config' \in Configs \cup {NoConfig} /\ runs' \in Nat
           /\ TotalBatches(c.spheres, c.batch_size) \in Nat
           /\ c.batch_count \in Nat \ {0} /\ c.batch_size \in Nat \ {0}
           /\ c.stride \in Nat \ {0} /\ c.spheres \in Nat \ {0}
<1>1. /\ c.batch_count \in Nat \ {0} /\ c.batch_size \in Nat \ {0}
      /\ c.stride \in Nat \ {0} /\ c.spheres \in Nat \ {0}
  BY ConfigsAssumption
<1>2. TotalBatches(c.spheres, c.batch_size) \in Nat
  BY <1>1 DEF TotalBatches
<1>3. config' \in Configs \cup {NoConfig} /\ runs' \in Nat
  BY DEF TypeOK, StartRun
<1> QED
  BY <1>1, <1>2, <1>3

LEMMA StageFailsInv ==
    ASSUME IInv, NEW c \in Configs, StageFails(c)
    PROVE  IInv'
<1> USE DEF StageFails, contextVars, IInv
<1>1. TypeOK'
  BY StartRunTypes DEF TypeOK, Slots
<1>2. SignalInv' /\ DrawInv' /\ SlotInv' /\ ReadyInv'
  BY DEF SignalInv, DrawInv, SlotInv, ReadyInv, IsDraw, IsSignal, Reusable
<1>3. PendingDrawsIntact' /\ NoDrawFromCpuSlot'
  BY DEF PendingDrawsIntact, NoDrawFromCpuSlot
<1> QED
  BY <1>1, <1>2, <1>3

\* Nothing in the queue belongs to the new fence.
LEMMA RunWithRebuildInv ==
    ASSUME IInv, NEW c \in Configs, RunWithRebuild(c)
    PROVE  IInv'
<1> DEFINE all == 0 .. c.batch_count - 1
<1>1. /\ c.batch_count \in Nat \ {0} /\ c.batch_size \in Nat \ {0}
      /\ c.stride \in Nat \ {0} /\ c.spheres \in Nat \ {0}
      /\ config' \in Configs \cup {NoConfig} /\ runs' \in Nat
      /\ TotalBatches(c.spheres, c.batch_size) \in Nat
  BY StartRunTypes DEF IInv, RunWithRebuild
<1>3. TypeOK'
  <2>1. fence_values' = [b \in all |-> 0] /\ buffer' = [b \in all |-> NoData]
    BY DEF RunWithRebuild, Rebuild
  <2>2. /\ fence_values' \in [DOMAIN buffer' -> Nat \cup {Never}]
        /\ buffer' \in [DOMAIN buffer' -> [run : Nat, frame : Nat, batch : Nat]]
        /\ DOMAIN buffer' \subseteq Nat
        /\ DOMAIN buffer' = Slots'
    BY <1>1, <2>1 DEF NoData, RunWithRebuild, Rebuild, Slots
  <2>3. shape' \in [batch_size : Nat, stride : Nat, total_spheres : Nat,
                    total_batches : Nat]
    BY <1>1 DEF RunWithRebuild, Rebuild
  <2>4. /\ batch_count' \in Nat /\ built' = "yes" /\ fence' \in Nat
        /\ completed' = 0 /\ ready_count' \in Nat /\ next_fence_value' = 0
    <3>1. fence \in Nat
      BY DEF IInv, TypeOK
    <3> QED
      BY <1>1, <3>1 DEF RunWithRebuild, Rebuild
  <2>6. /\ event' \in BOOLEAN /\ armed' \subseteq [fence : Nat, value : Nat]
        /\ queue' \in Seq(Operations)
    BY DEF IInv, TypeOK, RunWithRebuild, Rebuild
  <2>5. /\ pc' = "poll" /\ frame' = 0 /\ batch' = 0 /\ slot' \in Nat
        /\ unregistered' = FALSE
    BY DEF IInv, TypeOK, RunWithRebuild
  <2> QED
    BY <1>1, <2>2, <2>3, <2>4, <2>5, <2>6 DEF TypeOK
<1>2. /\ fence \in Nat
      /\ \A i \in 1 .. Len(queue) : queue[i].fence \in Nat /\ queue[i].fence <= fence
  BY QueueTypes DEF IInv, TypeOK, SignalInv
<1>4. \A i \in 1 .. Len(queue) : queue'[i].fence # fence'
  <2>1. queue' = queue /\ fence' = fence + 1
    BY DEF RunWithRebuild, Rebuild
  <2> QED
    BY <1>2, <2>1
<1>5. queue' = queue /\ fence' = fence + 1 /\ completed' = 0
      /\ next_fence_value' = 0 /\ fence_values' = [b \in all |-> 0]
      /\ ready_count' = c.batch_count /\ pc' = "poll"
  BY DEF RunWithRebuild, Rebuild
<1>6. SignalInv'
  <2>1. \A i \in 1 .. Len(queue) : queue[i].fence <= fence + 1
    BY <1>2
  <2> QED
    BY <1>4, <1>5, <2>1 DEF SignalInv, IsSignal
<1>7. DrawInv' /\ PendingDrawsIntact' /\ NoDrawFromCpuSlot' /\ SlotInv'
  BY <1>4, <1>5 DEF DrawInv, IsDraw, PendingDrawsIntact, NoDrawFromCpuSlot, SlotInv
<1>8. ReadyInv'
  <2>1. Reusable' = all
    BY <1>1, <1>5 DEF Reusable, Never
  <2>2. Cardinality(all) = c.batch_count
    <3>1. 0 \in Int /\ c.batch_count - 1 \in Int /\ ~(0 > c.batch_count - 1)
      BY <1>1
    <3>2. Cardinality(all) = IF 0 > c.batch_count - 1 THEN 0
                             ELSE c.batch_count - 1 - 0 + 1
      BY <3>1, FS_Interval
    <3> QED
      BY <1>1, <3>1, <3>2
  <2> QED
    BY <1>1, <1>5, <2>1, <2>2 DEF ReadyInv
<1> QED
  BY <1>3, <1>6, <1>7, <1>8 DEF IInv

LEMMA RunFailsToRebuildInv ==
    ASSUME IInv, NEW c \in Configs, RunFailsToRebuild(c)
    PROVE  IInv'
<1> USE DEF RunFailsToRebuild, RebuildFails, IInv
<1>2. TypeOK'
  <2>1. shape' \in [batch_size : Nat, stride : Nat, total_spheres : Nat,
                    total_batches : Nat]
    BY StartRunTypes
  <2>2. config' \in Configs \cup {NoConfig} /\ runs' \in Nat /\ batch_count' \in Nat
    BY StartRunTypes
  <2> QED
    BY <2>1, <2>2 DEF TypeOK, StartRun
<1>3. SignalInv' /\ DrawInv' /\ SlotInv' /\ ReadyInv'
  BY DEF SignalInv, DrawInv, SlotInv, ReadyInv, IsDraw, IsSignal
<1>4. PendingDrawsIntact' /\ NoDrawFromCpuSlot'
  BY DEF PendingDrawsIntact, NoDrawFromCpuSlot
<1> QED
  BY <1>2, <1>3, <1>4

LEMMA RunWithoutRebuildInv ==
    ASSUME IInv, NEW c \in Configs, RunWithoutRebuild(c)
    PROVE  IInv'
<1> USE DEF RunWithoutRebuild, Reshape, IInv
<1>2. TypeOK'
  <2>1. shape' \in [batch_size : Nat, stride : Nat, total_spheres : Nat,
                    total_batches : Nat]
    BY StartRunTypes DEF TypeOK
  <2> QED
    BY <2>1, StartRunTypes DEF TypeOK, Slots, RebuildRequired
<1>3. SignalInv' /\ DrawInv' /\ SlotInv' /\ ReadyInv'
  BY DEF SignalInv, DrawInv, SlotInv, ReadyInv, IsDraw, IsSignal, Reusable
<1>4. PendingDrawsIntact' /\ NoDrawFromCpuSlot'
  BY DEF PendingDrawsIntact, NoDrawFromCpuSlot
<1> QED
  BY <1>2, <1>3, <1>4

-----------------------------------------------------------------------------
(* The steps of the CPU that stream a batch.                                *)

\* A slot is handed out: a pending draw from it would keep it from being so.
LEMMA TakeInv ==
    ASSUME IInv, pc \in {"poll", "scan"}, NEW b \in DOMAIN fence_values, Take(b),
           slot' = b, pc' = "copy",
           UNCHANGED <<event, config, runs, frame, batch, buffer, unregistered>>
    PROVE  IInv'
<1>1. built = "yes"
  BY DEF IInv, TypeOK
<1>2. /\ fence_values[b] # Never /\ fence_values[b] <= completed
      /\ ready_count' \in Nat /\ ready_count' = Cardinality(Reusable')
  BY <1>1, TakeRemovesSlot DEF IInv
<1>3. TypeOK'
  BY <1>1, <1>2 DEF IInv, TypeOK, Take, Slots
<1>4. SignalInv'
  BY DEF IInv, TypeOK, SignalInv, Take, IsSignal
<1>5. DrawInv'
  BY DEF IInv, TypeOK, DrawInv, Take, IsDraw, IsSignal
<1>6. SlotInv' /\ ReadyInv'
  BY <1>2 DEF IInv, TypeOK, SlotInv, ReadyInv, Take
<1>7. PendingDrawsIntact'
  BY DEF IInv, PendingDrawsIntact, Take
<1>8. NoDrawFromCpuSlot'
  <2>1. ASSUME NEW i \in 1 .. Len(queue), IsDraw(i)
        PROVE  queue[i].slot # b
    <3>1. \/ fence_values[queue[i].slot] = Never
          \/ completed < fence_values[queue[i].slot]
      BY <2>1 DEF IInv, DrawInv
    <3>2. ~(completed < fence_values[b])
      <4>1. completed \in Nat /\ fence_values[b] \in Nat \cup {Never}
        BY DEF IInv, TypeOK
      <4> QED
        BY <1>2, <4>1 DEF Never
    <3> QED
      BY <1>2, <3>1, <3>2
  <2> QED
    BY <2>1 DEF NoDrawFromCpuSlot, Take, IsDraw
<1> QED
  BY <1>3, <1>4, <1>5, <1>6, <1>7, <1>8 DEF IInv

LEMMA PollInv == IInv /\ Poll => IInv'
<1> SUFFICES ASSUME IInv, Poll PROVE IInv'
  OBVIOUS
<1>1. CASE NextBatchMustWait /\ pc' = "wait" /\ UNCHANGED <<contextVars, slot>>
  BY <1>1 DEF Poll, contextVars, IInv, TypeOK, Slots, SignalInv, DrawInv, SlotInv,
              ReadyInv, IsDraw, IsSignal, Reusable, PendingDrawsIntact,
              NoDrawFromCpuSlot
<1>2. CASE \E b \in DOMAIN fence_values :
              NextBatchReady(b) /\ slot' = b /\ pc' = "copy"
  BY <1>2, TakeInv DEF Poll, NextBatchReady
<1> QED
  BY <1>1, <1>2 DEF Poll

LEMMA WaitInv == IInv /\ Wait => IInv'
<1> SUFFICES ASSUME IInv, Wait PROVE IInv'
  OBVIOUS
<1>1. TypeOK'
  BY DEF Wait, EventWait, IInv, TypeOK, Slots
<1>2. SignalInv' /\ DrawInv' /\ PendingDrawsIntact' /\ NoDrawFromCpuSlot'
  BY DEF Wait, EventWait, IInv, SignalInv, DrawInv, IsDraw, IsSignal,
         PendingDrawsIntact, NoDrawFromCpuSlot
<1>3. SlotInv' /\ ReadyInv'
  BY DEF Wait, EventWait, IInv, SlotInv, ReadyInv, Reusable
<1> QED
  BY <1>1, <1>2, <1>3 DEF IInv

LEMMA ScanInv == IInv /\ Scan => IInv'
<1> SUFFICES ASSUME IInv, Scan PROVE IInv'
  OBVIOUS
<1>1. CASE NextBatchNothing /\ pc' = "wait" /\ UNCHANGED slot
  <2>1. TypeOK' /\ SignalInv' /\ DrawInv' /\ SlotInv'
    BY <1>1 DEF Scan, NextBatchNothing, IInv, TypeOK, Slots, SignalInv, DrawInv,
                SlotInv, IsDraw, IsSignal
  <2>2. PendingDrawsIntact' /\ NoDrawFromCpuSlot'
    BY <1>1 DEF Scan, NextBatchNothing, IInv, PendingDrawsIntact, NoDrawFromCpuSlot
  <2>3. ReadyInv'
    <3>1. Reusable' = {} /\ ready_count' = 0
      BY <1>1 DEF NextBatchNothing, Reusable
    <3> QED
      BY <3>1, FS_EmptySet DEF ReadyInv
  <2> QED
    BY <2>1, <2>2, <2>3 DEF IInv
<1>2. CASE \E b \in DOMAIN fence_values :
              NextBatchRescan(b) /\ slot' = b /\ pc' = "copy"
  BY <1>2, TakeInv DEF Scan, NextBatchRescan
<1> QED
  BY <1>1, <1>2 DEF Scan

\* The CPU writes to a slot that the GPU does not have to draw from.
LEMMA CopyInv == IInv /\ Copy => IInv'
<1> SUFFICES ASSUME IInv, Copy PROVE IInv'
  OBVIOUS
<1>1. Data \in [run : Nat, frame : Nat, batch : Nat] /\ slot \in DOMAIN buffer
  BY DEF IInv, TypeOK, Data, Copy
<1>2. TypeOK'
  BY <1>1 DEF IInv, TypeOK, Copy, contextVars, Slots
<1>3. SignalInv' /\ DrawInv' /\ SlotInv' /\ ReadyInv'
  BY DEF IInv, Copy, contextVars, SignalInv, DrawInv, SlotInv, ReadyInv, IsDraw,
         IsSignal, Reusable
<1>4. NoDrawFromCpuSlot'
  BY DEF IInv, Copy, contextVars, NoDrawFromCpuSlot
<1>5. PendingDrawsIntact'
  <2> SUFFICES ASSUME NEW i \in 1 .. Len(queue), IsDraw(i)
               PROVE  queue[i].data = buffer'[queue[i].slot]
    BY DEF PendingDrawsIntact, Copy, contextVars, IsDraw
  <2>1. queue[i].slot # slot /\ queue[i].data = buffer[queue[i].slot]
    BY DEF IInv, Copy, NoDrawFromCpuSlot, PendingDrawsIntact, IsDraw
  <2> QED
    BY <2>1 DEF IInv, TypeOK, Copy
<1> QED
  BY <1>2, <1>3, <1>4, <1>5 DEF IInv

\* Steps that only leave the run.
LEMMA LeaveInv ==
    IInv /\ (CopyFails \/ RegisterFails \/ Drain) => IInv'
<1> SUFFICES ASSUME IInv, CopyFails \/ RegisterFails \/ Drain PROVE IInv'
  OBVIOUS
<1>1. /\ pc' = "idle" /\ unregistered' \in BOOLEAN
      /\ UNCHANGED <<contextVars, config, runs, frame, batch, slot, buffer>>
  BY DEF CopyFails, RegisterFails, Drain, IInv, TypeOK
<1> USE <1>1 DEF contextVars, IInv
<1>2. TypeOK'
  BY DEF TypeOK, Slots
<1>3. SignalInv' /\ DrawInv'
  BY DEF SignalInv, DrawInv, IsDraw, IsSignal
<1>4. SlotInv' /\ ReadyInv' /\ PendingDrawsIntact' /\ NoDrawFromCpuSlot'
  BY DEF SlotInv, ReadyInv, Reusable, PendingDrawsIntact, NoDrawFromCpuSlot
<1> QED
  BY <1>2, <1>3, <1>4

\* The queue after an operation has been appended to it.
LEMMA AppendQueue ==
    ASSUME TypeOK, NEW e \in Operations, queue' = Append(queue, e)
    PROVE  /\ queue' \in Seq(Operations)
           /\ Len(queue') = Len(queue) + 1
           /\ \A i \in 1 .. Len(queue) : queue'[i] = queue[i]
           /\ queue'[Len(queue) + 1] = e
           /\ \A i \in 1 .. Len(queue') : i \in 1 .. Len(queue) \/ i = Len(queue) + 1
<1>1. queue \in Seq(Operations)
  BY DEF TypeOK
<1> QED
  BY <1>1

\* The draw reads the slot that the CPU has just written, which is marked.
LEMMA SubmitInv == IInv /\ Submit => IInv'
<1> SUFFICES ASSUME IInv, Submit PROVE IInv'
  OBVIOUS
<1> DEFINE e == [op |-> "draw", fence |-> fence, slot |-> slot, data |-> buffer[slot]]
<1>1. /\ queue' = Append(queue, e) /\ pc = "execute" /\ pc' = "signal"
      /\ UNCHANGED <<fence, completed, fence_values, next_fence_value, buffer, slot,
                     ready_count, built>>
  BY DEF Submit, Execute
<1>2. slot \in DOMAIN fence_values /\ fence_values[slot] = Never
  BY <1>1 DEF IInv, TypeOK, SlotInv
<1>3. e \in Operations
  <2>1. fence \in Nat /\ slot \in Nat
        /\ buffer[slot] \in [run : Nat, frame : Nat, batch : Nat]
    BY <1>2 DEF IInv, TypeOK
  <2> QED
    BY <2>1 DEF Operations
<1>4. /\ queue' \in Seq(Operations)
      /\ Len(queue') = Len(queue) + 1
      /\ \A i \in 1 .. Len(queue) : queue'[i] = queue[i]
      /\ queue'[Len(queue) + 1] = e
      /\ \A i \in 1 .. Len(queue') : i \in 1 .. Len(queue) \/ i = Len(queue) + 1
      /\ Len(queue) \in Nat
  <2>1. Len(queue) \in Nat
    BY DEF IInv, TypeOK
  <2> QED
    BY <1>1, <1>3, <2>1, AppendQueue DEF IInv
<1> HIDE DEF e
<1>5. e.op = "draw" /\ e.fence = fence /\ e.slot = slot /\ e.data = buffer[slot]
  BY DEF e
<1>6. TypeOK'
  BY <1>4 DEF IInv, TypeOK, Submit, Execute, Slots
<1>7. SignalInv'
  <2>1. fence \in Nat
    BY DEF IInv, TypeOK
  <2> QED
    BY <1>1, <1>4, <1>5, <2>1 DEF IInv, SignalInv, IsSignal
<1>8. DrawInv'
  <2> SUFFICES ASSUME NEW i \in 1 .. Len(queue'), IsDraw(i)'
               PROVE  /\ queue'[i].slot \in DOMAIN fence_values
                      /\ fence_values[queue'[i].slot] # Never =>
                            /\ completed < fence_values[queue'[i].slot]
                            /\ \A j \in 1 .. i : IsSignal(j)' =>
                                   queue'[j].value < fence_values[queue'[i].slot]
    BY <1>1 DEF DrawInv
  <2>1. CASE i = Len(queue) + 1
    BY <1>2, <1>4, <1>5, <2>1
  <2>2. CASE i \in 1 .. Len(queue)
    <3>1. queue'[i] = queue[i] /\ IsDraw(i)
      BY <1>1, <1>4, <2>2 DEF IsDraw
    <3>2. \A j \in 1 .. i : queue'[j] = queue[j]
      BY <1>4, <2>2
    <3> QED
      BY <1>1, <2>2, <3>1, <3>2 DEF IInv, DrawInv, IsSignal
  <2> QED
    BY <1>4, <2>1, <2>2
<1>9. SlotInv' /\ NoDrawFromCpuSlot' /\ ReadyInv'
  BY <1>1, <1>2 DEF IInv, SlotInv, NoDrawFromCpuSlot, ReadyInv, Reusable
<1>10. PendingDrawsIntact'
  BY <1>1, <1>4, <1>5 DEF IInv, PendingDrawsIntact
<1> QED
  BY <1>6, <1>7, <1>8, <1>9, <1>10 DEF IInv

\* The slot gets a value that is larger than every one used before.
LEMMA MarkInv ==
    ASSUME IInv, pc = "signal", pc' \in {"register", "idle"},
           next_fence_value' = next_fence_value + 1,
           fence_values' = [fence_values EXCEPT ![slot] = next_fence_value + 1],
           unregistered' \in BOOLEAN,
           UNCHANGED <<shape, batch_count, built, fence, completed, ready_count,
                       event, armed, config, runs, frame, batch, slot, buffer>>,
           \/ queue' = queue
           \/ queue' = Append(queue, [op |-> "signal", fence |-> fence,
                                      value |-> next_fence_value + 1])
    PROVE  IInv'
<1> DEFINE e == [op |-> "signal", fence |-> fence, value |-> next_fence_value + 1]
<1>1. /\ fence \in Nat /\ completed \in Nat /\ next_fence_value \in Nat
      /\ Len(queue) \in Nat /\ queue \in Seq(Operations)
      /\ slot \in DOMAIN fence_values /\ slot \in Slots
      /\ fence_values \in [DOMAIN fence_values -> Nat \cup {Never}]
      /\ DOMAIN fence_values = DOMAIN fence_values'
      /\ fence_values[slot] = Never
  <2>1. /\ fence \in Nat /\ completed \in Nat /\ next_fence_value \in Nat
        /\ queue \in Seq(Operations)
        /\ fence_values \in [DOMAIN fence_values -> Nat \cup {Never}]
    BY DEF IInv, TypeOK
  <2>2. slot \in Slots /\ DOMAIN fence_values = Slots
    BY DEF IInv, TypeOK
  <2>3. fence_values[slot] = Never
    BY DEF IInv, SlotInv
  <2> QED
    BY <2>1, <2>2, <2>3
<1>2. e \in Operations
  BY <1>1 DEF Operations
<1>3. e.op = "signal" /\ e.fence = fence /\ e.value = next_fence_value + 1
  OBVIOUS
<1>4. queue' = queue \/ queue' = Append(queue, e)
  OBVIOUS
<1> HIDE DEF e
<1>5. /\ queue' \in Seq(Operations)
      /\ \A i \in 1 .. Len(queue) : queue'[i] = queue[i]
      /\ \A i \in 1 .. Len(queue') : \/ i \in 1 .. Len(queue)
                                     \/ i = Len(queue) + 1 /\ queue'[i] = e
  <2>1. CASE queue' = queue
    BY <1>1, <2>1
  <2>2. CASE queue' = Append(queue, e)
    BY <1>2, <2>2, AppendQueue DEF IInv
  <2> QED
    BY <1>4, <2>1, <2>2
<1>6. TypeOK'
  <2>1. fence_values' \in [DOMAIN buffer' -> Nat \cup {Never}]
    <3>1. fence_values \in [DOMAIN buffer -> Nat \cup {Never}]
      BY DEF IInv, TypeOK
    <3> QED
      BY <1>1, <3>1
  <2>2. next_fence_value' \in Nat /\ slot' \in Slots'
    BY <1>1 DEF Slots
  <2>3. built = "yes"
    BY DEF IInv, TypeOK
  <2> QED
    BY <1>5, <2>1, <2>2, <2>3 DEF IInv, TypeOK, Slots
<1>7. SignalInv'
  <2>1. completed' <= next_fence_value'
    BY <1>1 DEF IInv, SignalInv
  <2>2. \A i \in 1 .. Len(queue') : queue'[i].fence <= fence'
    BY <1>1, <1>3, <1>5 DEF IInv, SignalInv
  <2>3. \A i \in 1 .. Len(queue') : IsSignal(i)' =>
            completed' < queue'[i].value /\ queue'[i].value <= next_fence_value'
    <3>1. ASSUME NEW i \in 1 .. Len(queue'), IsSignal(i)'
          PROVE  completed < queue'[i].value /\ queue'[i].value <= next_fence_value + 1
      <4>1. CASE i = Len(queue) + 1 /\ queue'[i] = e
        BY <1>1, <1>3, <4>1 DEF IInv, SignalInv
      <4>2. CASE i \in 1 .. Len(queue)
        <5>1. IsSignal(i) /\ queue[i] = queue'[i] /\ queue[i].value \in Nat
          BY <1>5, <3>1, <4>2, QueueTypes DEF IsSignal, IInv
        <5> QED
          BY <1>1, <4>2, <5>1 DEF IInv, SignalInv
      <4> QED
        BY <1>5, <4>1, <4>2
    <3> QED
      BY <3>1
  <2>4. \A i, j \in 1 .. Len(queue') :
            i < j /\ IsSignal(i)' /\ IsSignal(j)' => queue'[i].value < queue'[j].value
    <3>1. ASSUME NEW i \in 1 .. Len(queue'), NEW j \in 1 .. Len(queue'),
                 i < j, IsSignal(i)', IsSignal(j)'
          PROVE  queue'[i].value < queue'[j].value
      <4>1. i \in 1 .. Len(queue) /\ IsSignal(i) /\ queue'[i] = queue[i]
            /\ queue[i].value \in Nat
        <5>1. i \in 1 .. Len(queue)
          BY <1>1, <1>5, <3>1
        <5> QED
          BY <1>5, <3>1, <5>1, QueueTypes DEF IsSignal, IInv
      <4>2. CASE j = Len(queue) + 1 /\ queue'[j] = e
        BY <1>1, <1>3, <4>1, <4>2 DEF IInv, SignalInv
      <4>3. CASE j \in 1 .. Len(queue)
        <5>1. IsSignal(j) /\ queue'[j] = queue[j]
          BY <1>5, <3>1, <4>3 DEF IsSignal
        <5> QED
          BY <3>1, <4>1, <4>3, <5>1 DEF IInv, SignalInv
      <4> QED
        BY <1>5, <4>2, <4>3
    <3> QED
      BY <3>1
  <2>5. \A b \in DOMAIN fence_values' :
            fence_values'[b] # Never => fence_values'[b] <= next_fence_value'
    BY <1>1 DEF IInv, SignalInv, Never
  <2> QED
    BY <2>1, <2>2, <2>3, <2>4, <2>5 DEF SignalInv
<1>8. DrawInv'
  <2> SUFFICES ASSUME NEW i \in 1 .. Len(queue'), IsDraw(i)'
               PROVE  /\ queue'[i].slot \in DOMAIN fence_values'
                      /\ fence_values'[queue'[i].slot] # Never =>
                            /\ completed < fence_values'[queue'[i].slot]
                            /\ \A j \in 1 .. i : IsSignal(j)' =>
                                   queue'[j].value < fence_values'[queue'[i].slot]
    BY DEF DrawInv
  <2>1. i \in 1 .. Len(queue)
    BY <1>3, <1>5 DEF IsDraw
  <2>2. queue'[i] = queue[i] /\ IsDraw(i)
    BY <1>5, <2>1 DEF IsDraw
  <2>3. \A j \in 1 .. i : queue'[j] = queue[j] /\ (IsSignal(j)' <=> IsSignal(j))
    BY <1>1, <1>5, <2>1 DEF IsSignal
  <2>4. CASE queue[i].slot = slot
    <3>1. fence_values'[slot] = next_fence_value + 1
      BY <1>1
    <3>2. \A j \in 1 .. i : IsSignal(j) => queue[j].value < next_fence_value + 1
      <4>1. \A j \in 1 .. i : j \in 1 .. Len(queue)
        BY <1>1, <2>1
      <4>2. \A j \in 1 .. i : IsSignal(j) => queue[j].value \in Nat
        BY <4>1, QueueTypes DEF IInv, IsSignal
      <4> QED
        BY <1>1, <4>1, <4>2 DEF IInv, SignalInv
    <3>3. completed < next_fence_value + 1
      BY <1>1 DEF IInv, SignalInv
    <3> QED
      BY <1>1, <2>2, <2>3, <2>4, <3>1, <3>2, <3>3
  <2>5. CASE queue[i].slot # slot
    <3>1. queue[i].slot \in DOMAIN fence_values
      BY <2>1, <2>2 DEF IInv, DrawInv
    <3>2. fence_values'[queue[i].slot] = fence_values[queue[i].slot]
      BY <1>1, <2>5, <3>1
    <3> QED
      BY <1>1, <2>1, <2>2, <2>3, <3>1, <3>2 DEF IInv, DrawInv
  <2> QED
    BY <2>4, <2>5
<1>9. SlotInv' /\ NoDrawFromCpuSlot'
  BY DEF SlotInv, NoDrawFromCpuSlot
<1>10. ReadyInv'
  <2>1. Reusable' = Reusable
    <3>1. ~(next_fence_value + 1 <= completed)
      BY <1>1 DEF IInv, SignalInv
    <3> QED
      BY <1>1, <3>1 DEF Reusable
  <2> QED
    BY <2>1 DEF IInv, ReadyInv
<1>11. PendingDrawsIntact'
  BY <1>3, <1>5 DEF IInv, PendingDrawsIntact
<1> QED
  BY <1>6, <1>7, <1>8, <1>9, <1>10, <1>11 DEF IInv

LEMMA SignalStepInv == IInv /\ (Signal \/ SignalFails) => IInv'
<1>1. ASSUME IInv, Signal PROVE IInv'
  BY <1>1, MarkInv DEF Signal, SignalDone, IInv, TypeOK
<1>2. ASSUME IInv, SignalFails PROVE IInv'
  BY <1>2, MarkInv DEF SignalFails, SignalDoneFails
<1> QED
  BY <1>1, <1>2

LEMMA RegisterInv == IInv /\ Register => IInv'
<1> SUFFICES ASSUME IInv, Register PROVE IInv'
  OBVIOUS
<1>1. /\ frame' \in Nat /\ batch' \in Nat /\ pc' \in {"poll", "drain"}
      /\ event' \in BOOLEAN /\ armed' \subseteq [fence : Nat, value : Nat]
  <2>1. frame \in Nat /\ batch \in Nat /\ fence \in Nat /\ next_fence_value \in Nat
        /\ event \in BOOLEAN /\ armed \subseteq [fence : Nat, value : Nat]
    BY DEF IInv, TypeOK
  <2>2. frame' \in Nat /\ batch' \in Nat /\ pc' \in {"poll", "drain"}
    BY <2>1 DEF Register, NextBatch
  <2>3. CASE completed >= next_fence_value
    BY <2>1, <2>2, <2>3 DEF Register, RegisterEvent
  <2>4. CASE ~(completed >= next_fence_value)
    <3>1. /\ armed' = armed \cup {[fence |-> fence, value |-> next_fence_value]}
          /\ event' = event
      BY <2>4 DEF Register, RegisterEvent
    <3> QED
      BY <2>1, <2>2, <3>1
  <2> QED
    BY <2>1, <2>2, <2>3, <2>4
<1>2. /\ pc = "register"
      /\ UNCHANGED <<shape, batch_count, built, fence, completed, fence_values,
                     ready_count, next_fence_value, queue, config, runs, slot,
                     buffer, unregistered>>
  BY DEF Register, RegisterEvent
<1>3. TypeOK'
  BY <1>1, <1>2 DEF IInv, TypeOK, Slots
<1>4. SignalInv' /\ DrawInv' /\ SlotInv' /\ ReadyInv'
  BY <1>1, <1>2 DEF IInv, SignalInv, DrawInv, SlotInv, ReadyInv, IsDraw, IsSignal,
                    Reusable
<1>5. PendingDrawsIntact' /\ NoDrawFromCpuSlot'
  BY <1>1, <1>2 DEF IInv, PendingDrawsIntact, NoDrawFromCpuSlot
<1> QED
  BY <1>3, <1>4, <1>5 DEF IInv

-----------------------------------------------------------------------------
(* The steps of the GPU and of Windows.                                     *)

\* The queue after its first operation has been executed.
LEMMA TailQueue ==
    ASSUME TypeOK, queue # <<>>, queue' = Tail(queue)
    PROVE  /\ queue' \in Seq(Operations)
           /\ Len(queue) \in Nat \ {0}
           /\ Len(queue') = Len(queue) - 1
           /\ Head(queue) = queue[1]
           /\ \A i \in 1 .. Len(queue') :
                 /\ queue'[i] = queue[i + 1]
                 /\ i + 1 \in 1 .. Len(queue)
<1>1. queue \in Seq(Operations)
  BY DEF TypeOK
<1> QED
  BY <1>1

\* If the fence gets beyond its value but not beyond the pending ones, all that
\* speaks of the queue holds of what is left of it.
LEMMA PopInv ==
    ASSUME IInv, queue # <<>>, queue' = Tail(queue),
           completed' \in Nat, completed <= completed',
           completed' # completed => IsSignal(1) /\ completed' = queue[1].value,
           IsSignal(1) => completed' = queue[1].value,
           event' \in BOOLEAN, armed' \subseteq armed,
           UNCHANGED <<shape, batch_count, built, fence, fence_values, ready_count,
                       next_fence_value, clientVars>>
    PROVE  IInv'
<1>1. /\ queue' \in Seq(Operations)
      /\ Len(queue) \in Nat \ {0}
      /\ \A i \in 1 .. Len(queue') :
            queue'[i] = queue[i + 1] /\ i + 1 \in 1 .. Len(queue)
      /\ 1 \in 1 .. Len(queue)
  BY TailQueue DEF IInv
<1>2. /\ completed \in Nat /\ next_fence_value \in Nat
      /\ fence_values \in [DOMAIN fence_values -> Nat \cup {Never}]
      /\ \A i \in 1 .. Len(queue) : IsSignal(i) => queue[i].value \in Nat
  BY QueueTypes DEF IInv, TypeOK, IsSignal
<1>4. TypeOK'
  BY <1>1 DEF IInv, TypeOK, clientVars, Slots
<1>5. SignalInv'
  <2>1. completed' <= next_fence_value
    BY <1>1, <1>2 DEF IInv, SignalInv
  <2>2. \A i \in 1 .. Len(queue') : queue'[i].fence <= fence
    BY <1>1 DEF IInv, SignalInv
  <2>3. \A i \in 1 .. Len(queue') :
            IsSignal(i)' => completed' < queue'[i].value
                            /\ queue'[i].value <= next_fence_value
    <3>1. ASSUME NEW i \in 1 .. Len(queue'), IsSignal(i)'
          PROVE  completed' < queue'[i].value /\ queue'[i].value <= next_fence_value
      <4>1. IsSignal(i + 1) /\ queue'[i] = queue[i + 1] /\ i + 1 \in 1 .. Len(queue)
        BY <1>1, <3>1 DEF IsSignal
      <4>2. completed < queue[i + 1].value /\ queue[i + 1].value <= next_fence_value
        BY <4>1 DEF IInv, SignalInv
      <4>3. CASE completed' = completed
        BY <4>1, <4>2, <4>3
      <4>4. CASE completed' # completed
        <5>1. IsSignal(1) /\ completed' = queue[1].value /\ 1 < i + 1
          BY <4>4
        <5>2. queue[1].value < queue[i + 1].value
          BY <1>1, <4>1, <5>1 DEF IInv, SignalInv
        <5> QED
          BY <4>1, <4>2, <5>1, <5>2
      <4> QED
        BY <4>3, <4>4
    <3> QED
      BY <3>1
  <2>4. \A i, j \in 1 .. Len(queue') :
            i < j /\ IsSignal(i)' /\ IsSignal(j)' => queue'[i].value < queue'[j].value
    <3>1. ASSUME NEW i \in 1 .. Len(queue'), NEW j \in 1 .. Len(queue'),
                 i < j, IsSignal(i)', IsSignal(j)'
          PROVE  queue'[i].value < queue'[j].value
      <4>1. /\ IsSignal(i + 1) /\ queue'[i] = queue[i + 1] /\ i + 1 \in 1 .. Len(queue)
            /\ IsSignal(j + 1) /\ queue'[j] = queue[j + 1] /\ j + 1 \in 1 .. Len(queue)
            /\ i + 1 < j + 1
        BY <1>1, <3>1 DEF IsSignal
      <4> QED
        BY <4>1 DEF IInv, SignalInv
    <3> QED
      BY <3>1
  <2> QED
    BY <2>1, <2>2, <2>3, <2>4 DEF IInv, SignalInv
<1>6. DrawInv'
  <2> SUFFICES ASSUME NEW i \in 1 .. Len(queue'), IsDraw(i)'
               PROVE  /\ queue'[i].slot \in DOMAIN fence_values
                      /\ fence_values[queue'[i].slot] # Never =>
                            /\ completed' < fence_values[queue'[i].slot]
                            /\ \A j \in 1 .. i : IsSignal(j)' =>
                                   queue'[j].value < fence_values[queue'[i].slot]
    BY DEF DrawInv
  <2>1. IsDraw(i + 1) /\ queue'[i] = queue[i + 1] /\ i + 1 \in 1 .. Len(queue)
    BY <1>1 DEF IsDraw
  <2>2. queue[i + 1].slot \in DOMAIN fence_values
    BY <2>1 DEF IInv, DrawInv
  <2>3. ASSUME fence_values[queue[i + 1].slot] # Never
        PROVE  /\ completed < fence_values[queue[i + 1].slot]
               /\ \A j \in 1 .. i + 1 : IsSignal(j) =>
                      queue[j].value < fence_values[queue[i + 1].slot]
    BY <2>1, <2>3 DEF IInv, DrawInv
  <2>4. ASSUME fence_values[queue[i + 1].slot] # Never
        PROVE  completed' < fence_values[queue[i + 1].slot]
    BY <2>3, <2>4
  <2>5. ASSUME fence_values[queue[i + 1].slot] # Never,
               NEW j \in 1 .. i, IsSignal(j)'
        PROVE  queue'[j].value < fence_values[queue[i + 1].slot]
    <3>1. j \in 1 .. Len(queue') /\ j + 1 \in 1 .. i + 1
      BY <1>1
    <3>2. queue'[j] = queue[j + 1] /\ IsSignal(j + 1)
      BY <1>1, <2>5, <3>1 DEF IsSignal
    <3> QED
      BY <2>3, <2>5, <3>1, <3>2
  <2> QED
    BY <2>1, <2>2, <2>4, <2>5
<1>7. SlotInv'
  BY DEF IInv, SlotInv, clientVars
<1>8. NoDrawFromCpuSlot' /\ PendingDrawsIntact'
  BY <1>1 DEF IInv, NoDrawFromCpuSlot, PendingDrawsIntact, clientVars
<1>9. ReadyInv'
  <2> SUFFICES ASSUME built = "yes" PROVE ready_count <= Cardinality(Reusable')
    BY DEF ReadyInv
  <2>1. Reusable \subseteq Reusable' /\ Reusable' \subseteq DOMAIN fence_values
    BY <1>2 DEF Reusable
  <2>2. IsFiniteSet(Reusable')
    BY <2>1, SlotsAreFinite, FS_Subset DEF IInv
  <2>3. Cardinality(Reusable) <= Cardinality(Reusable')
    BY <2>1, <2>2, FS_Subset
  <2>4. /\ Cardinality(Reusable) \in Nat /\ Cardinality(Reusable') \in Nat
        /\ ready_count \in Nat
    BY <2>2, SlotsAreFinite, FS_CardinalityType DEF IInv, TypeOK
  <2> QED
    BY <2>3, <2>4 DEF IInv, ReadyInv
<1> QED
  BY <1>4, <1>5, <1>6, <1>7, <1>8, <1>9 DEF IInv

LEMMA GpuInv == IInv /\ Gpu => IInv'
<1>1. ASSUME IInv, GpuDraw, UNCHANGED clientVars PROVE IInv'
  <2>1. /\ queue # <<>> /\ queue' = Tail(queue)
        /\ completed' \in Nat /\ completed <= completed' /\ completed' = completed
        /\ event' \in BOOLEAN /\ armed' = armed
    BY <1>1 DEF GpuDraw, IInv, TypeOK
  <2>2. ~IsSignal(1)
    BY <1>1, <2>1, TailQueue DEF GpuDraw, IInv, IsSignal
  <2> QED
    BY <1>1, <2>1, <2>2, PopInv DEF GpuDraw
<1>2. ASSUME IInv, GpuSignal, UNCHANGED clientVars PROVE IInv'
  <2>1. /\ queue # <<>> /\ queue' = Tail(queue) /\ Head(queue) = queue[1]
        /\ 1 \in 1 .. Len(queue) /\ queue[1].op = "signal"
        /\ queue[1].value \in Nat /\ completed \in Nat
        /\ event \in BOOLEAN
    <3>1. queue # <<>> /\ queue' = Tail(queue) /\ Head(queue).op = "signal"
      BY <1>2 DEF GpuSignal
    <3>2. Head(queue) = queue[1] /\ 1 \in 1 .. Len(queue)
      BY <1>2, <3>1, TailQueue DEF IInv
    <3>3. queue[1].value \in Nat
      BY <1>2, <3>1, <3>2, QueueTypes DEF IInv
    <3>4. completed \in Nat /\ event \in BOOLEAN
      BY <1>2 DEF IInv, TypeOK
    <3> QED
      BY <3>1, <3>2, <3>3, <3>4
  <2>2. UNCHANGED <<shape, batch_count, built, fence, fence_values, ready_count,
                    next_fence_value>>
    BY <1>2 DEF GpuSignal
  <2>3. CASE queue[1].fence = fence
    <3>1. IsSignal(1) /\ completed' = queue[1].value
          /\ UNCHANGED <<event, armed>>
      BY <1>2, <2>1, <2>3 DEF GpuSignal, IsSignal
    <3>2. completed < queue[1].value
      BY <1>2, <2>1, <3>1 DEF IInv, SignalInv
    <3>3. completed <= completed' /\ completed' \in Nat
      BY <2>1, <3>1, <3>2
    <3> QED
      BY <1>2, <2>1, <2>2, <3>1, <3>3, PopInv
  <2>4. CASE queue[1].fence # fence
    <3>1. ~IsSignal(1) /\ completed' = completed
          /\ event' \in BOOLEAN /\ armed' \subseteq armed
      BY <1>2, <2>1, <2>4 DEF GpuSignal, IsSignal
    <3> QED
      BY <1>2, <2>1, <2>2, <3>1, PopInv
  <2> QED
    BY <2>3, <2>4
<1> QED
  BY <1>1, <1>2 DEF Gpu

LEMMA EventInv == IInv /\ Event => IInv'
<1> SUFFICES ASSUME IInv, Event PROVE IInv'
  OBVIOUS
<1>1. /\ event' \in BOOLEAN /\ armed' \subseteq armed
      /\ UNCHANGED <<shape, batch_count, built, fence, completed, fence_values,
                     ready_count, next_fence_value, queue, clientVars>>
  BY DEF Event, Notify
<1>2. TypeOK'
  BY <1>1 DEF IInv, TypeOK, clientVars, Slots
<1> QED
  BY <1>1, <1>2 DEF IInv, SignalInv, DrawInv, SlotInv, ReadyInv, IsDraw, IsSignal,
                    Reusable, PendingDrawsIntact, NoDrawFromCpuSlot, clientVars

LEMMA StutterInv == IInv /\ UNCHANGED vars => IInv'
  BY DEF vars, contextVars, clientVars, IInv, TypeOK, Slots, SignalInv, DrawInv,
         SlotInv, ReadyInv, IsDraw, IsSignal, Reusable, PendingDrawsIntact,
         NoDrawFromCpuSlot

-----------------------------------------------------------------------------
(* The theorems.                                                            *)

\* The inductive invariant holds in every reachable state.
THEOREM Invariance == Spec => []IInv
<1>1. IInv /\ [Next]_vars => IInv'
  <2> SUFFICES ASSUME IInv, [Next]_vars PROVE IInv'
    OBVIOUS
  <2>1. CASE Start
    BY <2>1, StageFailsInv, RunWithRebuildInv, RunFailsToRebuildInv,
       RunWithoutRebuildInv DEF Start
  <2>2. CASE Work
    BY <2>2, PollInv, WaitInv, ScanInv, CopyInv, SubmitInv, SignalStepInv,
       RegisterInv, LeaveInv DEF Work
  <2>3. CASE Fail
    BY <2>3, LeaveInv, SignalStepInv DEF Fail
  <2>4. CASE Gpu
    BY <2>4, GpuInv
  <2>5. CASE Event
    BY <2>5, EventInv
  <2>6. CASE UNCHANGED vars
    BY <2>6, StutterInv
  <2> QED
    BY <2>1, <2>2, <2>3, <2>4, <2>5, <2>6 DEF Next
<1> QED
  BY <1>1, InitInv, PTL DEF Spec

\* All variables have their types; the tables of the context fit each other.
THEOREM TypeCorrect == Spec => []TypeOK
  BY Invariance, PTL DEF IInv

\* The GPU draws from a slot what has been copied there for the draw: streaming
\* never overwrites a batch that is still in flight.
THEOREM NoBatchOverwritten == Spec => []PendingDrawsIntact
  BY Invariance, PTL DEF IInv

\* The command list, the allocator and the memory of a slot which next_batch has
\* returned are not used by the GPU.
THEOREM HandedOutSlotIsIdle == Spec => []NoDrawFromCpuSlot
  BY Invariance, PTL DEF IInv

\* next_batch never returns the index of no slot.
THEOREM NextBatchFindsSlot == Spec => []ReadySlotIsFound
<1>1. IInv => ReadySlotIsFound
  <2> SUFFICES ASSUME IInv, ready_count >= 1, built = "yes" PROVE Reusable # {}
    BY DEF ReadySlotIsFound
  <2>1. ready_count <= Cardinality(Reusable) /\ ready_count \in Nat
    BY DEF IInv, ReadyInv, TypeOK
  <2>2. Cardinality({}) = 0
    BY FS_EmptySet
  <2> QED
    BY <2>1, <2>2
<1> QED
  BY <1>1, Invariance, PTL

-----------------------------------------------------------------------------
(* The context implements SlotPool.                                         *)

\* Handing out a slot acquires it.
LEMMA TakeAcquires ==
    ASSUME TypeOK, NEW b \in DOMAIN fence_values, Take(b)
    PROVE  Pool!Acquire(b)
<1>1. /\ fence_values' = [fence_values EXCEPT ![b] = Never]
      /\ completed' = completed
      /\ fence_values[b] # Never /\ fence_values[b] <= completed
      /\ fence_values \in [DOMAIN fence_values -> Nat \cup {Never}]
  BY DEF Take, IsLast, Reusable, TypeOK
<1>2. Owner[b] = "free" /\ Owner' = [Owner EXCEPT ![b] = "cpu"]
  BY <1>1 DEF Owner
<1> QED
  BY <1>2 DEF Pool!Acquire

\* signal_done submits the slot, even if it fails to signal.
LEMMA MarkSubmits ==
    ASSUME IInv, pc = "signal", completed' = completed,
           fence_values' = [fence_values EXCEPT ![slot] = next_fence_value + 1]
    PROVE  slot \in DOMAIN Owner /\ Pool!Submit(slot)
<1>1. /\ fence_values \in [DOMAIN fence_values -> Nat \cup {Never}]
      /\ slot \in DOMAIN fence_values /\ fence_values[slot] = Never
      /\ completed \in Nat /\ next_fence_value \in Nat
      /\ completed <= next_fence_value
  BY DEF IInv, TypeOK, SlotInv, SignalInv
<1>2. next_fence_value + 1 # Never /\ ~(next_fence_value + 1 <= completed)
  BY <1>1 DEF Never
<1>3. Owner[slot] = "cpu" /\ Owner' = [Owner EXCEPT ![slot] = "gpu"]
        /\ slot \in DOMAIN Owner
  BY <1>1, <1>2 DEF Owner
<1> QED
  BY <1>3 DEF Pool!Submit

\* A signal frees the slots that were waiting for a value up to its own.
LEMMA SignalFinishes ==
    ASSUME IInv, GpuSignal
    PROVE  \E slots \in SUBSET DOMAIN Owner : Pool!Finish(slots)
<1> DEFINE freed == {b \in DOMAIN fence_values :
                        fence_values[b] # Never /\ completed < fence_values[b]
                        /\ fence_values[b] <= completed'}
<1>1. /\ fence_values \in [DOMAIN fence_values -> Nat \cup {Never}]
      /\ completed \in Nat /\ fence_values' = fence_values
      /\ completed' \in Nat /\ completed <= completed'
  <2>1. /\ fence_values \in [DOMAIN fence_values -> Nat \cup {Never}]
        /\ completed \in Nat /\ fence_values' = fence_values
    BY DEF IInv, TypeOK, GpuSignal
  <2>2. queue # <<>> /\ queue' = Tail(queue)
    BY DEF GpuSignal
  <2>3. 1 \in 1 .. Len(queue) /\ Head(queue) = queue[1]
    BY <2>2, TailQueue DEF IInv
  <2>4. CASE Head(queue).fence = fence
    <3>1. IsSignal(1) /\ completed' = queue[1].value
      BY <2>3, <2>4 DEF GpuSignal, IsSignal
    <3>2. completed < queue[1].value /\ queue[1].value \in Nat
      BY <2>3, <3>1, QueueTypes DEF IInv, SignalInv, IsSignal
    <3> QED
      BY <2>1, <3>1, <3>2
  <2>5. CASE Head(queue).fence # fence
    BY <2>1, <2>5 DEF GpuSignal
  <2> QED
    BY <2>4, <2>5
<1>2. freed \in SUBSET DOMAIN Owner
  BY DEF Owner
<1>3. \A b \in freed : Owner[b] = "gpu"
  BY <1>1 DEF Owner
<1>4. Owner' = [b \in DOMAIN Owner |-> IF b \in freed THEN "free" ELSE Owner[b]]
  BY <1>1 DEF Owner
<1>5. Pool!Finish(freed)
  BY <1>3, <1>4 DEF Pool!Finish
<1> QED
  BY <1>2, <1>5

\* A slot goes from free to the CPU, from the CPU to the GPU, and is free again
\* only when the GPU has got past the signal for it; only a rebuild, which makes
\* new slots, departs from this.
THEOREM ContextIsSlotPool == Spec => ImplementsPool
<1>1. Init => Pool!PoolInit
  <2> SUFFICES ASSUME Init PROVE Owner = <<>>
    BY DEF Pool!PoolInit
  <2>1. fence_values = <<>>
    BY DEF Init, ContextInit
  <2> QED
    BY <2>1 DEF Owner
<1>2. IInv /\ [Next]_vars => [Pool!PoolNext]_Owner
  <2> SUFFICES ASSUME IInv, [Next]_vars PROVE Pool!PoolNext \/ UNCHANGED Owner
    OBVIOUS
  <2>1. ASSUME UNCHANGED <<fence_values, completed>> PROVE UNCHANGED Owner
    BY <2>1 DEF Owner
  <2>2. ASSUME NEW c \in Configs, RunWithRebuild(c) PROVE Pool!Renew
    <3>1. fence_values' = [b \in 0 .. c.batch_count - 1 |-> 0] /\ completed' = 0
      BY <2>2 DEF RunWithRebuild, Rebuild
    <3>2. \A b \in DOMAIN Owner' : Owner'[b] = "free"
      BY <3>1 DEF Owner, Never
    <3> QED
      BY <3>2 DEF Pool!Renew
  <2>3. ASSUME NEW c \in Configs, StageFails(c) \/ RunFailsToRebuild(c)
                                  \/ RunWithoutRebuild(c)
        PROVE  UNCHANGED <<fence_values, completed>>
    BY <2>3 DEF StageFails, RunFailsToRebuild, RebuildFails, RunWithoutRebuild,
                Reshape, contextVars
  <2>4. ASSUME Poll \/ Scan PROVE Pool!PoolNext \/ UNCHANGED Owner
    <3>1. \/ \E b \in DOMAIN fence_values : Take(b)
          \/ UNCHANGED <<fence_values, completed>>
      BY <2>4 DEF Poll, Scan, NextBatchReady, NextBatchRescan, NextBatchNothing,
                  contextVars
    <3>2. DOMAIN Owner = DOMAIN fence_values
      BY DEF Owner
    <3> QED
      BY <2>1, <3>1, <3>2, TakeAcquires DEF IInv, Pool!PoolNext
  <2>5. ASSUME Signal \/ SignalFails PROVE Pool!PoolNext
    <3>1. pc = "signal" /\ completed' = completed
          /\ fence_values' = [fence_values EXCEPT ![slot] = next_fence_value + 1]
      BY <2>5 DEF Signal, SignalFails, SignalDone, SignalDoneFails
    <3> QED
      BY <3>1, MarkSubmits DEF Pool!PoolNext
  <2>6. ASSUME GpuSignal PROVE Pool!PoolNext
    BY <2>6, SignalFinishes DEF Pool!PoolNext
  <2>7. ASSUME GpuDraw \/ Event \/ UNCHANGED vars
        PROVE  UNCHANGED <<fence_values, completed>>
    BY <2>7 DEF GpuDraw, Event, Notify, vars, contextVars
  <2>8. ASSUME Wait \/ Copy \/ Submit \/ Register \/ Drain \/ CopyFails \/ RegisterFails
        PROVE  UNCHANGED <<fence_values, completed>>
    BY <2>8 DEF Wait, EventWait, Copy, Submit, Execute, Register, RegisterEvent,
                Drain, CopyFails, RegisterFails, contextVars
  <2> QED
    BY <2>1, <2>2, <2>3, <2>4, <2>5, <2>6, <2>7, <2>8
       DEF Next, Start, Work, Fail, Gpu, Pool!PoolNext
<1> QED
  BY <1>1, <1>2, Invariance, PTL DEF Spec, ImplementsPool, Pool!PoolSpec


-----------------------------------------------------------------------------
(* When the code keeps the promises of its documentation that, in general,  *)
(* it breaks: what has to be excluded is the cause of the violation.        *)

\* Of the actions, only those that start a run change the layout, and no other
\* one begins to render.
LEMMA NoOtherStart ==
    ASSUME [Next]_vars, ~Start
    PROVE  /\ UNCHANGED <<shape, built, config, fence>>
           /\ pc' \notin {"idle", "crashed"} => pc \notin {"idle", "crashed"}
  BY DEF Next, vars, contextVars, clientVars, Work, Fail, Gpu, Event, Poll, Wait, Scan, Copy,
         Submit, Signal, Register, Drain, CopyFails, SignalFails, RegisterFails, Take,
         NextBatchReady, NextBatchRescan, NextBatchNothing, EventWait, Execute, SignalDone,
         SignalDoneFails, RegisterEvent, NextBatch, GpuDraw, GpuSignal, Notify

\* The layout of a context that has been built, and the data set being rendered.
ShapeInv ==
    /\ built # "no" => /\ shape.batch_size \in Nat \ {0}
                       /\ \E c \in Configs : shape.total_spheres = c.spheres
    /\ pc \notin {"idle", "crashed"} =>
          built # "no" /\ config \in Configs /\ shape.total_spheres = config.spheres

\* The number of batches fits the number of spheres.
LayoutInv ==
    built # "no" => shape.total_batches = TotalBatches(shape.total_spheres, shape.batch_size)

LEMMA ShapeStep == TypeOK /\ ShapeInv /\ [Next]_vars => ShapeInv'
<1> SUFFICES ASSUME TypeOK, ShapeInv, [Next]_vars PROVE ShapeInv'
  OBVIOUS
<1>1. CASE ~Start
  BY <1>1, NoOtherStart DEF ShapeInv
<1>2. ASSUME NEW c \in Configs, StageFails(c) PROVE ShapeInv'
  BY <1>2 DEF StageFails, StartRun, ShapeInv, contextVars
<1>3. ASSUME NEW c \in Configs, RunFailsToRebuild(c) PROVE ShapeInv'
  BY <1>3, ConfigsAssumption DEF RunFailsToRebuild, StartRun, RebuildFails, ShapeInv
<1>4. ASSUME NEW c \in Configs, RunWithRebuild(c) PROVE ShapeInv'
  BY <1>4, ConfigsAssumption DEF RunWithRebuild, StartRun, Rebuild, ShapeInv
<1>5. ASSUME NEW c \in Configs, RunWithoutRebuild(c) PROVE ShapeInv'
  <2>1. /\ built # "no" /\ built' = built
        /\ shape' = [shape EXCEPT !.total_spheres = c.spheres]
        /\ config' = c
    BY <1>5 DEF RunWithoutRebuild, RebuildRequired, StartRun, Reshape
  <2>2. shape'.total_spheres = c.spheres /\ shape'.batch_size = shape.batch_size
    BY <2>1 DEF TypeOK
  <2> QED
    BY <2>1, <2>2 DEF ShapeInv
<1> QED
  BY <1>1, <1>2, <1>3, <1>4, <1>5 DEF Start

LEMMA ShapeInvariance == Spec => []ShapeInv
<1>1. Init => ShapeInv
  BY DEF Init, ContextInit, ShapeInv
<1> QED
  BY <1>1, ShapeStep, TypeCorrect, PTL DEF Spec

\* If the number of batches is the one for the data set, all of it is rendered.
LEMMA WholeFrame ==
    ASSUME ShapeInv, shape.total_batches = TotalBatches(config.spheres, shape.batch_size)
    PROVE  WholeFrameRendered
<1> SUFFICES ASSUME pc \notin {"idle", "crashed"}
             PROVE  UNION {BatchSpheres(shape.total_batches, shape.total_spheres,
                                        shape.batch_size, t) :
                           t \in 0 .. shape.total_batches - 1} = 0 .. config.spheres - 1
  BY DEF WholeFrameRendered
<1>1. /\ shape.batch_size \in Nat \ {0} /\ shape.total_spheres = config.spheres
      /\ config.spheres \in Nat \ {0}
  BY ConfigsAssumption DEF ShapeInv
<1> QED
  BY <1>1, BatchesCoverSpheres

\* A frame shows the whole data set whenever the number of batches is that of the
\* data set: the spheres that are missing otherwise are missing because reshape
\* keeps the number that rebuild computed for another one.
THEOREM FrameIsWholeAfterRebuild ==
    Spec => [](shape.total_batches = TotalBatches(config.spheres, shape.batch_size)
                   => WholeFrameRendered)
  BY ShapeInvariance, WholeFrame, PTL

\* A frame shows the whole data set if all data sets have as many spheres.
THEOREM FrameIsWholeForOneSize ==
    ASSUME \A c, d \in Configs : c.spheres = d.spheres
    PROVE  Spec => []WholeFrameRendered
<1>1. Init => LayoutInv
  BY DEF Init, ContextInit, LayoutInv
<1>2. TypeOK /\ ShapeInv /\ LayoutInv /\ [Next]_vars => LayoutInv'
  <2> SUFFICES ASSUME TypeOK, ShapeInv, LayoutInv, [Next]_vars PROVE LayoutInv'
    OBVIOUS
  <2>1. CASE ~Start
    BY <2>1, NoOtherStart DEF LayoutInv
  <2>2. ASSUME NEW c \in Configs, StageFails(c) PROVE LayoutInv'
    BY <2>2 DEF StageFails, LayoutInv, contextVars
  <2>3. ASSUME NEW c \in Configs, RunFailsToRebuild(c) \/ RunWithRebuild(c) PROVE LayoutInv'
    BY <2>3 DEF RunFailsToRebuild, RebuildFails, RunWithRebuild, Rebuild, LayoutInv
  <2>4. ASSUME NEW c \in Configs, RunWithoutRebuild(c) PROVE LayoutInv'
    <3>1. built # "no" /\ built' = built /\ shape' = [shape EXCEPT !.total_spheres = c.spheres]
      BY <2>4 DEF RunWithoutRebuild, RebuildRequired, Reshape
    <3>2. shape' = shape
      BY <3>1 DEF ShapeInv, TypeOK
    <3> QED
      BY <3>1, <3>2 DEF LayoutInv
  <2> QED
    BY <2>1, <2>2, <2>3, <2>4 DEF Start
<1>3. ShapeInv /\ LayoutInv => WholeFrameRendered
  <2> SUFFICES ASSUME ShapeInv, LayoutInv, pc \notin {"idle", "crashed"}
               PROVE  WholeFrameRendered
    BY DEF WholeFrameRendered
  <2> QED
    BY WholeFrame DEF ShapeInv, LayoutInv
<1> QED
  BY <1>1, <1>2, <1>3, ShapeInvariance, TypeCorrect, PTL DEF Spec

\* The batches have the configured size unless staging the data throws: the
\* configuration is recorded as the last one before the data are staged.
THEOREM BatchSizeHoldsWithoutStagingFailure ==
    ASSUME "stage" \notin Failures
    PROVE  Spec => []BatchSizeIsConfigured
<1> DEFINE Inv == shape.batch_size = config.batch_size
<1>1. Init => Inv
  BY DEF Init, ContextInit, NoConfig
<1>2. TypeOK /\ Inv /\ [Next]_vars => Inv'
  <2> SUFFICES ASSUME TypeOK, Inv, [Next]_vars PROVE Inv'
    OBVIOUS
  <2>1. CASE ~Start
    BY <2>1, NoOtherStart
  <2>2. ASSUME NEW c \in Configs, RunFailsToRebuild(c) \/ RunWithRebuild(c) PROVE Inv'
    BY <2>2 DEF RunFailsToRebuild, RebuildFails, RunWithRebuild, Rebuild, StartRun
  <2>3. ASSUME NEW c \in Configs, RunWithoutRebuild(c) PROVE Inv'
    <3>1. /\ c.batch_size = config.batch_size /\ config' = c
          /\ shape' = [shape EXCEPT !.total_spheres = c.spheres]
      BY <2>3 DEF RunWithoutRebuild, RebuildRequired, Changed, StartRun, Reshape
    <3>2. shape'.batch_size = shape.batch_size
      BY <3>1 DEF TypeOK
    <3> QED
      BY <3>1, <3>2
  <2> QED
    BY <2>1, <2>2, <2>3 DEF Start, StageFails
<1>3. Inv => BatchSizeIsConfigured
  BY DEF BatchSizeIsConfigured
<1> QED
  BY <1>1, <1>2, <1>3, TypeCorrect, PTL DEF Spec

\* Nothing is in flight when the context is rebuilt unless a call in the loop over
\* the batches throws: every run that ends has waited for the GPU.
THEOREM NothingInFlightWithoutFailure ==
    ASSUME Failures \cap {"copy", "signal", "register"} = {}
    PROVE  Spec => NothingInFlight
<1> DEFINE Inv == pc = "idle" => queue = <<>>
<1>1. Init => Inv
  BY DEF Init, ContextInit
<1>2. Inv /\ [Next]_vars => Inv'
  <2> SUFFICES ASSUME Inv, [Next]_vars PROVE Inv'
    OBVIOUS
  <2>1. CASE Start
    BY <2>1 DEF Start, StageFails, RunFailsToRebuild, RebuildFails, RunWithRebuild,
                RunWithoutRebuild, Rebuild, Reshape, StartRun, contextVars
  <2>2. CASE Work
    BY <2>2 DEF Work, Poll, Wait, Scan, Copy, Submit, Signal, Register, NextBatch, Drain,
                contextVars
  <2>3. CASE Gpu \/ Event
    BY <2>3 DEF Gpu, Event, GpuDraw, GpuSignal, Notify, clientVars
  <2>4. ~Fail
    BY DEF Fail, CopyFails, SignalFails, RegisterFails
  <2>5. CASE UNCHANGED vars
    BY <2>5 DEF vars, contextVars, clientVars
  <2> QED
    BY <2>1, <2>2, <2>3, <2>4, <2>5 DEF Next
<1>3. Inv /\ [Next]_vars => [fence' # fence => queue = <<>>]_vars
  <2> SUFFICES ASSUME Inv, [Next]_vars, fence' # fence PROVE queue = <<>>
    OBVIOUS
  <2>1. Start
    BY NoOtherStart
  <2>2. pc = "idle"
    BY <2>1 DEF Start, StageFails, RunFailsToRebuild, RunWithRebuild, RunWithoutRebuild,
                StartRun
  <2> QED
    BY <2>2
<1> QED
  BY <1>1, <1>2, <1>3, PTL DEF Spec, NothingInFlight

-----------------------------------------------------------------------------
(* Nobody who waits is forgotten.                                           *)

Registered(value) == [fence |-> fence, value |-> value] \in armed
Notified == event \/ \E a \in armed : a.fence = fence /\ a.value <= completed

\* What has become reusable since the last scan has set the event or will set it, and
\* what is not yet reusable has a signal in the queue and a registration for it; the
\* last signal may not yet have been registered.
WakeInv ==
    built = "yes" /\ ~unregistered =>
        /\ \/ pc = "scan" \/ Notified \/ ready_count = Cardinality(Reusable)
           \/ pc = "register" /\ next_fence_value <= completed
        /\ \A b \in DOMAIN fence_values : completed < fence_values[b] =>
              /\ \E i \in 1 .. Len(queue) : IsSignal(i) /\ queue[i].value = fence_values[b]
              /\ \/ Registered(fence_values[b])
                 \/ pc = "register" /\ fence_values[b] = next_fence_value

\* A step that changes nothing of the context but the layout, taken where neither the
\* scan nor a registration is due.
LEMMA WakeUnaffected ==
    ASSUME WakeInv, pc \notin {"scan", "register"},
           UNCHANGED <<built, unregistered, fence, completed, fence_values, ready_count,
                       next_fence_value, event, armed, queue>>
    PROVE  WakeInv'
  BY DEF WakeInv, Notified, Registered, IsSignal, Reusable

\* The slot that is handed out and counted exactly is marked.
LEMMA WakeTake ==
    ASSUME IInv, WakeInv, pc \in {"poll", "scan"}, NEW b \in DOMAIN fence_values, Take(b),
           pc' \notin {"scan", "register"}, UNCHANGED unregistered
    PROVE  WakeInv'
<1>1. /\ built = "yes" /\ TypeOK
      /\ completed \in Nat /\ fence_values \in [DOMAIN fence_values -> Nat \cup {Never}]
  BY DEF IInv, TypeOK
<1>2. ready_count' = Cardinality(Reusable')
  BY <1>1, TakeRemovesSlot
<1>3. /\ fence_values' = [fence_values EXCEPT ![b] = Never]
      /\ UNCHANGED <<fence, completed, armed, queue, next_fence_value>>
  BY DEF Take
<1>4. \A c \in DOMAIN fence_values' :
          completed' < fence_values'[c] => c # b /\ fence_values'[c] = fence_values[c]
  BY <1>1, <1>3 DEF Never
<1>5. ASSUME ~unregistered, NEW c \in DOMAIN fence_values', completed' < fence_values'[c]
      PROVE  /\ \E i \in 1 .. Len(queue') : IsSignal(i)' /\ queue'[i].value = fence_values'[c]
             /\ Registered(fence_values[c])'
  BY <1>1, <1>3, <1>4, <1>5 DEF WakeInv, Registered, IsSignal
<1> QED
  BY <1>2, <1>3, <1>4, <1>5 DEF WakeInv, Registered

\* The scan has found nothing.
LEMMA WakeNothing ==
    ASSUME IInv, WakeInv, NextBatchNothing, pc # "register", pc' \notin {"scan", "register"},
           UNCHANGED unregistered
    PROVE  WakeInv'
<1>1. ready_count' = Cardinality(Reusable')
  BY FS_EmptySet DEF NextBatchNothing, Reusable
<1> QED
  BY <1>1 DEF NextBatchNothing, WakeInv, Registered, IsSignal

\* A signal and its registration.
LEMMA WakeSignal == IInv /\ WakeInv /\ Signal => WakeInv'
<1> SUFFICES ASSUME IInv, WakeInv, Signal, ~unregistered PROVE WakeInv'
  BY DEF WakeInv, Signal
<1> DEFINE e == [op |-> "signal", fence |-> fence, value |-> next_fence_value + 1]
<1>1. /\ TypeOK /\ built = "yes" /\ completed \in Nat /\ next_fence_value \in Nat
      /\ completed <= next_fence_value /\ fence \in Nat
      /\ fence_values \in [DOMAIN fence_values -> Nat \cup {Never}]
      /\ slot \in DOMAIN fence_values /\ fence_values[slot] = Never /\ pc = "signal"
  BY DEF IInv, TypeOK, SignalInv, SlotInv, Signal
<1>2. /\ next_fence_value' = next_fence_value + 1 /\ pc' = "register"
      /\ fence_values' = [fence_values EXCEPT ![slot] = next_fence_value + 1]
      /\ queue' = Append(queue, e)
      /\ UNCHANGED <<built, fence, completed, ready_count, event, armed, unregistered>>
  BY DEF Signal, SignalDone
<1>3. e \in Operations /\ e.op = "signal" /\ e.fence = fence /\ e.value = next_fence_value + 1
  BY <1>1 DEF Operations
<1> HIDE DEF e
<1>4. /\ Len(queue) \in Nat
      /\ Len(queue') = Len(queue) + 1 /\ queue'[Len(queue) + 1] = e
      /\ \A i \in 1 .. Len(queue) : queue'[i] = queue[i]
  <2>1. Len(queue) \in Nat
    BY DEF IInv, TypeOK
  <2> QED
    BY <1>1, <1>2, <1>3, <2>1, AppendQueue
<1>5. Reusable' = Reusable
  BY <1>1, <1>2 DEF Reusable, Never
<1>6. Notified' = Notified
  BY <1>2 DEF Notified
<1>7. ASSUME NEW b \in DOMAIN fence_values', completed' < fence_values'[b]
      PROVE  /\ \E i \in 1 .. Len(queue') : IsSignal(i)' /\ queue'[i].value = fence_values'[b]
             /\ Registered(fence_values[b])' \/ fence_values'[b] = next_fence_value'
  <2>1. CASE b = slot
    <3>1. PICK n \in 1 .. Len(queue') : n = Len(queue) + 1
      BY <1>4
    <3>2. fence_values'[b] = next_fence_value + 1
      BY <1>1, <1>2, <2>1
    <3>3. IsSignal(n)'
      BY <1>2, <1>3, <1>4, <3>1 DEF IsSignal
    <3>4. queue'[n].value = fence_values'[b] /\ fence_values'[b] = next_fence_value'
      BY <1>2, <1>3, <1>4, <3>1, <3>2
    <3> QED
      BY <3>3, <3>4
  <2>2. CASE b # slot
    <3>1. b \in DOMAIN fence_values /\ completed < fence_values[b]
          /\ fence_values'[b] = fence_values[b]
      BY <1>1, <1>2, <1>7, <2>2
    <3>2. Registered(fence_values[b])
      BY <1>1, <3>1 DEF WakeInv
    <3>3. PICK i \in 1 .. Len(queue) : IsSignal(i) /\ queue[i].value = fence_values[b]
      BY <1>1, <3>1 DEF WakeInv
    <3>4. i \in 1 .. Len(queue') /\ queue'[i] = queue[i]
      BY <1>4
    <3>5. IsSignal(i)' /\ queue'[i].value = fence_values'[b]
      BY <1>2, <3>1, <3>3, <3>4 DEF IsSignal
    <3>6. Registered(fence_values[b])'
      BY <1>2, <3>1, <3>2 DEF Registered
    <3> QED
      BY <3>4, <3>5, <3>6
  <2> QED
    BY <2>1, <2>2
<1>8. Notified \/ ready_count = Cardinality(Reusable)
  BY <1>1 DEF WakeInv
<1>9. \A b \in DOMAIN fence_values' :
          completed' < fence_values'[b] =>
              /\ \E i \in 1 .. Len(queue') : IsSignal(i)' /\ queue'[i].value = fence_values'[b]
              /\ Registered(fence_values[b])' \/ fence_values'[b] = next_fence_value'
  BY <1>7
<1> QED
  BY <1>2, <1>5, <1>6, <1>8, <1>9 DEF WakeInv

LEMMA WakeRegister == IInv /\ WakeInv /\ Register => WakeInv'
<1> SUFFICES ASSUME IInv, WakeInv, Register, ~unregistered PROVE WakeInv'
  BY DEF WakeInv, Register
<1>1. /\ built = "yes" /\ completed \in Nat /\ next_fence_value \in Nat /\ pc = "register"
      /\ fence_values \in [DOMAIN fence_values -> Nat \cup {Never}]
  BY DEF IInv, TypeOK, Register
<1>2. /\ pc' \notin {"scan", "register"}
      /\ UNCHANGED <<built, fence, completed, fence_values, ready_count, next_fence_value,
                     queue, unregistered>>
      /\ \/ completed >= next_fence_value /\ event' = TRUE /\ UNCHANGED armed
         \/ /\ ~(completed >= next_fence_value) /\ UNCHANGED event
            /\ armed' = armed \cup {[fence |-> fence, value |-> next_fence_value]}
  BY DEF Register, RegisterEvent, NextBatch
<1>3. Notified' \/ (ready_count = Cardinality(Reusable))'
  BY <1>1, <1>2 DEF WakeInv, Notified, Reusable
<1>4. ASSUME NEW b \in DOMAIN fence_values, completed < fence_values[b]
      PROVE  Registered(fence_values[b])'
  BY <1>1, <1>2, <1>4 DEF WakeInv, Registered, SignalInv, IInv
<1>5. \A b \in DOMAIN fence_values : completed < fence_values[b] =>
          \E i \in 1 .. Len(queue) : IsSignal(i) /\ queue[i].value = fence_values[b]
  BY <1>1 DEF WakeInv
<1>6. \A i : IsSignal(i)' = IsSignal(i)
  BY <1>2 DEF IsSignal
<1> QED
  BY <1>2, <1>3, <1>4, <1>5, <1>6 DEF WakeInv, Registered

\* The queue loses its first element, which is no signal of this fence, and other
\* registrations than those of this fence are answered at most.
LEMMA WakePop ==
    ASSUME IInv, WakeInv, queue # <<>>, queue' = Tail(queue), ~IsSignal(1),
           event => event',
           \A a \in armed : a.fence = fence => a \in armed',
           UNCHANGED <<built, fence, completed, fence_values, ready_count, next_fence_value,
                       clientVars>>
    PROVE  WakeInv'
<1> SUFFICES ASSUME built = "yes", ~unregistered PROVE WakeInv'
  BY DEF WakeInv, clientVars
<1>1. /\ Len(queue) \in Nat \ {0} /\ Len(queue') = Len(queue) - 1
      /\ \A i \in 1 .. Len(queue') : queue'[i] = queue[i + 1]
  BY TailQueue DEF IInv
<1>2. Notified => Notified'
  BY DEF Notified
<1>3. ASSUME NEW i \in 1 .. Len(queue), IsSignal(i)
      PROVE  \E j \in 1 .. Len(queue') : IsSignal(j)' /\ queue'[j].value = queue[i].value
  <2>1. i # 1
    BY <1>3
  <2>2. i - 1 \in 1 .. Len(queue') /\ queue'[i - 1] = queue[(i - 1) + 1] /\ (i - 1) + 1 = i
    BY <1>1, <2>1
  <2>3. IsSignal(i - 1)'
    BY <1>3, <2>2 DEF IsSignal
  <2> QED
    BY <2>2, <2>3
<1>4. \A v : Registered(v) => Registered(v)'
  BY DEF Registered
<1>5. Reusable' = Reusable /\ pc' = pc
  BY DEF Reusable, clientVars
<1>6. \A b \in DOMAIN fence_values : completed < fence_values[b] =>
          \E i \in 1 .. Len(queue') : IsSignal(i)' /\ queue'[i].value = fence_values[b]
  BY <1>3 DEF WakeInv
<1> QED
  BY <1>2, <1>4, <1>5, <1>6 DEF WakeInv, Registered

LEMMA WakeGpuSignal == IInv /\ WakeInv /\ GpuSignal /\ UNCHANGED clientVars => WakeInv'
<1> SUFFICES ASSUME IInv, WakeInv, GpuSignal, UNCHANGED clientVars PROVE WakeInv'
  OBVIOUS
<1>1. /\ queue # <<>> /\ queue' = Tail(queue) /\ Head(queue).op = "signal"
      /\ UNCHANGED <<built, fence, fence_values, ready_count, next_fence_value>>
  BY DEF GpuSignal
<1>2. /\ Len(queue) \in Nat \ {0} /\ Len(queue') = Len(queue) - 1
      /\ \A i \in 1 .. Len(queue') : queue'[i] = queue[i + 1]
      /\ Head(queue) = queue[1] /\ 1 \in 1 .. Len(queue)
  BY <1>1, TailQueue DEF IInv
<1>3. CASE Head(queue).fence # fence
  <2>1. ~IsSignal(1)
    BY <1>2, <1>3 DEF IsSignal
  <2>2. completed' = completed /\ (event => event')
    BY <1>3 DEF GpuSignal
  <2>3. \A a \in armed : a.fence = fence => a \in armed'
    BY <1>3 DEF GpuSignal
  <2> QED
    BY <1>1, <2>1, <2>2, <2>3, WakePop
<1>4. CASE Head(queue).fence = fence
  <2> SUFFICES ASSUME built = "yes", ~unregistered PROVE WakeInv'
    BY <1>1 DEF WakeInv, clientVars
  <2>1. /\ IsSignal(1) /\ completed' = queue[1].value /\ completed < completed'
        /\ completed \in Nat /\ completed' \in Nat /\ next_fence_value \in Nat
        /\ fence_values \in [DOMAIN fence_values -> Nat \cup {Never}]
        /\ \A i \in 1 .. Len(queue) : IsSignal(i) => queue[i].value \in Nat
    <3>1. /\ completed \in Nat /\ next_fence_value \in Nat
          /\ fence_values \in [DOMAIN fence_values -> Nat \cup {Never}]
      BY DEF IInv, TypeOK
    <3>2. \A i \in 1 .. Len(queue) : IsSignal(i) => queue[i].value \in Nat
      BY QueueTypes DEF IsSignal, IInv
    <3>3. IsSignal(1) /\ completed' = queue[1].value
      BY <1>1, <1>2, <1>4 DEF GpuSignal, IsSignal
    <3>4. completed < queue[1].value
      BY <1>2, <3>3 DEF IInv, SignalInv
    <3> QED
      BY <1>2, <3>1, <3>2, <3>3, <3>4
  <2>2. UNCHANGED <<event, armed, pc, unregistered>>
    BY <1>4 DEF GpuSignal, clientVars
  <2>3. ASSUME NEW b \in DOMAIN fence_values, completed' < fence_values[b]
        PROVE  /\ \E i \in 1 .. Len(queue') : IsSignal(i)' /\ queue'[i].value = fence_values[b]
               /\ \/ Registered(fence_values[b])'
                  \/ pc = "register" /\ fence_values[b] = next_fence_value
    <3>1. completed < fence_values[b]
      <4>1. fence_values[b] \in Int
        BY <2>1 DEF Never
      <4> QED
        BY <2>1, <2>3, <4>1
    <3>2. PICK i \in 1 .. Len(queue) : IsSignal(i) /\ queue[i].value = fence_values[b]
      BY <3>1 DEF WakeInv
    <3>3. i # 1
      BY <2>1, <2>3, <3>2
    <3>4. i - 1 \in 1 .. Len(queue') /\ queue'[i - 1] = queue[(i - 1) + 1] /\ (i - 1) + 1 = i
      BY <1>2, <3>3
    <3>5. IsSignal(i - 1)' /\ queue'[i - 1].value = fence_values[b]
      BY <1>1, <3>2, <3>4 DEF IsSignal
    <3>6. \/ Registered(fence_values[b])
          \/ pc = "register" /\ fence_values[b] = next_fence_value
      BY <3>1 DEF WakeInv
    <3> QED
      BY <1>1, <2>2, <3>4, <3>5, <3>6 DEF Registered
  <2>4. \/ pc = "scan" \/ Notified' \/ ready_count = Cardinality(Reusable')
        \/ pc = "register" /\ next_fence_value <= completed'
    <3>1. CASE \E b \in DOMAIN fence_values : completed < fence_values[b] /\ fence_values[b] <= completed'
      <4>1. PICK b \in DOMAIN fence_values :
                completed < fence_values[b] /\ fence_values[b] <= completed'
        BY <3>1
      <4>2. \/ Registered(fence_values[b])
            \/ pc = "register" /\ fence_values[b] = next_fence_value
        BY <4>1 DEF WakeInv
      <4>3. Registered(fence_values[b]) => Notified'
        BY <1>1, <2>2, <4>1 DEF Registered, Notified
      <4> QED
        BY <4>1, <4>2, <4>3
    <3>2. CASE ~ \E b \in DOMAIN fence_values : completed < fence_values[b] /\ fence_values[b] <= completed'
      <4>1. Reusable' = Reusable
        BY <1>1, <2>1, <3>2 DEF Reusable
      <4>2. Notified => Notified'
        <5>1. \A a \in armed : a.value \in Nat
          BY DEF IInv, TypeOK
        <5> QED
          BY <1>1, <2>1, <2>2, <5>1 DEF Notified
      <4>3. next_fence_value <= completed => next_fence_value <= completed'
        BY <2>1
      <4> QED
        BY <4>1, <4>2, <4>3 DEF WakeInv
    <3> QED
      BY <3>1, <3>2
  <2> QED
    BY <1>1, <2>2, <2>3, <2>4 DEF WakeInv, Registered
<1> QED
  BY <1>3, <1>4

LEMMA WakeEvent == IInv /\ WakeInv /\ Event => WakeInv'
<1> SUFFICES ASSUME IInv, WakeInv, Event PROVE WakeInv'
  OBVIOUS
<1>1. PICK a \in armed :
          /\ a.fence = fence /\ a.value <= completed
          /\ armed' = armed \ {a} /\ event' = TRUE
          /\ UNCHANGED <<built, fence, completed, fence_values, ready_count,
                         next_fence_value, queue, clientVars>>
  BY DEF Event, Notify
<1>2. Notified'
  BY <1>1 DEF Notified
<1>3. \A b \in DOMAIN fence_values :
          completed < fence_values[b] /\ Registered(fence_values[b]) => Registered(fence_values[b])'
  <2>1. completed \in Nat /\ a.value \in Nat /\ fence_values \in [DOMAIN fence_values -> Nat \cup {Never}]
    BY DEF IInv, TypeOK
  <2> SUFFICES ASSUME NEW b \in DOMAIN fence_values, completed < fence_values[b],
                      Registered(fence_values[b])
               PROVE  Registered(fence_values[b])'
    OBVIOUS
  <2>2. a # [fence |-> fence, value |-> fence_values[b]]
    BY <1>1, <2>1
  <2> QED
    BY <1>1, <2>2 DEF Registered
<1>4. /\ pc' = pc /\ unregistered' = unregistered
      /\ \A i : IsSignal(i)' = IsSignal(i)
  BY <1>1 DEF clientVars, IsSignal
<1> QED
  BY <1>1, <1>2, <1>3, <1>4 DEF WakeInv, Registered

LEMMA WakeStart == IInv /\ WakeInv /\ Start => WakeInv'
<1> SUFFICES ASSUME IInv, WakeInv, Start PROVE WakeInv'
  OBVIOUS
<1>1. pc = "idle"
  BY DEF Start, StageFails, RunFailsToRebuild, RunWithRebuild, RunWithoutRebuild, StartRun
<1>2. ASSUME NEW c \in Configs, StageFails(c) \/ RunWithoutRebuild(c) PROVE WakeInv'
  BY <1>1, <1>2, WakeUnaffected DEF StageFails, RunWithoutRebuild, Reshape, contextVars
<1>3. ASSUME NEW c \in Configs, RunFailsToRebuild(c) PROVE WakeInv'
  BY <1>3 DEF RunFailsToRebuild, RebuildFails, WakeInv
<1>4. ASSUME NEW c \in Configs, RunWithRebuild(c) PROVE WakeInv'
  <2>1. /\ completed' = 0 /\ fence_values' = [b \in 0 .. c.batch_count - 1 |-> 0]
        /\ ready_count' = c.batch_count
    BY <1>4 DEF RunWithRebuild, Rebuild
  <2>2. Reusable' = 0 .. c.batch_count - 1
    BY <2>1 DEF Reusable, Never
  <2>3. c.batch_count \in Nat \ {0}
    BY <1>4, StartRunTypes DEF IInv, RunWithRebuild
  <2>4. Cardinality(0 .. c.batch_count - 1) = c.batch_count
    <3>1. 0 \in Int /\ c.batch_count - 1 \in Int /\ ~(0 > c.batch_count - 1)
      BY <2>3
    <3>2. Cardinality(0 .. c.batch_count - 1) = IF 0 > c.batch_count - 1 THEN 0
                                                ELSE c.batch_count - 1 - 0 + 1
      BY <3>1, FS_Interval
    <3> QED
      BY <2>3, <3>1, <3>2
  <2> QED
    BY <2>1, <2>2, <2>4 DEF WakeInv
<1> QED
  BY <1>2, <1>3, <1>4 DEF Start

LEMMA WakeWork == IInv /\ WakeInv /\ Work => WakeInv'
<1> SUFFICES ASSUME IInv, WakeInv, Work PROVE WakeInv'
  OBVIOUS
<1>1. CASE Poll
  <2>1. CASE UNCHANGED contextVars
    BY <1>1, <2>1, WakeUnaffected DEF Poll, contextVars
  <2>2. ASSUME NEW b \in DOMAIN fence_values, Take(b), pc' = "copy" PROVE WakeInv'
    BY <1>1, <2>2, WakeTake DEF Poll
  <2> QED
    BY <1>1, <2>1, <2>2 DEF Poll, NextBatchReady
<1>2. CASE Wait
  BY <1>2 DEF Wait, EventWait, WakeInv, Registered, IsSignal
<1>3. CASE Scan
  <2>1. CASE NextBatchNothing /\ pc' = "wait"
    BY <1>3, <2>1, WakeNothing DEF Scan
  <2>2. ASSUME NEW b \in DOMAIN fence_values, Take(b), pc' = "copy" PROVE WakeInv'
    BY <1>3, <2>2, WakeTake DEF Scan
  <2> QED
    BY <1>3, <2>1, <2>2 DEF Scan, NextBatchRescan
<1>4. CASE Copy \/ Drain
  BY <1>4, WakeUnaffected DEF Copy, Drain, contextVars
<1>5. CASE Submit
  <2>1. /\ pc = "execute" /\ pc' = "signal"
        /\ UNCHANGED <<built, fence, completed, fence_values, ready_count,
                       next_fence_value, event, armed, unregistered>>
    BY <1>5 DEF Submit, Execute
  <2>2. Len(queue') = Len(queue) + 1 /\ \A i \in 1 .. Len(queue) : queue'[i] = queue[i]
        /\ Len(queue) \in Nat
    BY <1>5 DEF Submit, Execute, IInv, TypeOK
  <2>3. \A i \in 1 .. Len(queue) : i \in 1 .. Len(queue') /\ (IsSignal(i) => IsSignal(i)')
    BY <2>1, <2>2 DEF IsSignal
  <2>4. /\ Reusable' = Reusable /\ Notified' = Notified
        /\ \A v : Registered(v)' = Registered(v)
    BY <2>1 DEF Reusable, Notified, Registered
  <2> QED
    BY <2>1, <2>2, <2>3, <2>4 DEF WakeInv
<1>6. CASE Signal \/ Register
  BY <1>6, WakeSignal, WakeRegister
<1> QED
  BY <1>1, <1>2, <1>3, <1>4, <1>5, <1>6 DEF Work

LEMMA WakeStep == IInv /\ WakeInv /\ [Next]_vars => WakeInv'
<1> SUFFICES ASSUME IInv, WakeInv, [Next]_vars PROVE WakeInv'
  OBVIOUS
<1>1. CASE Fail
  <2>1. CASE CopyFails
    BY <2>1, WakeUnaffected DEF CopyFails, contextVars
  <2>2. CASE SignalFails \/ RegisterFails
    BY <2>2 DEF SignalFails, RegisterFails, WakeInv
  <2> QED
    BY <1>1, <2>1, <2>2 DEF Fail
<1>2. CASE Gpu
  <2>1. ASSUME GpuDraw, UNCHANGED clientVars PROVE WakeInv'
    <3>1. /\ queue # <<>> /\ queue' = Tail(queue) /\ Head(queue).op = "draw"
      BY <2>1 DEF GpuDraw
    <3>2. ~IsSignal(1)
      BY <3>1, TailQueue DEF IInv, IsSignal
    <3> QED
      BY <2>1, <3>1, <3>2, WakePop DEF GpuDraw
  <2> QED
    BY <1>2, <2>1, WakeGpuSignal DEF Gpu
<1>3. CASE UNCHANGED vars
  BY <1>3 DEF vars, contextVars, clientVars, WakeInv, Notified, Registered, IsSignal, Reusable
<1> QED
  BY <1>1, <1>2, <1>3, WakeStart, WakeWork, WakeEvent DEF Next

\* Nobody waits while a slot is counted as ready.
LEMMA NoSlotCounted == Spec => [](pc = "wait" => ready_count = 0)
<1> DEFINE Inv == pc = "wait" => ready_count = 0
<1>1. Init => Inv
  BY DEF Init
<1>2. IInv /\ Inv /\ [Next]_vars => Inv'
  <2> SUFFICES ASSUME IInv, Inv, [Next]_vars, pc' = "wait" PROVE ready_count' = 0
    OBVIOUS
  <2>1. ready_count \in Nat
    BY DEF IInv, TypeOK
  <2>2. CASE Poll \/ Scan
    BY <2>1, <2>2 DEF Poll, Scan, NextBatchMustWait, NextBatchNothing, contextVars
  <2>3. CASE Gpu \/ Event \/ UNCHANGED vars
    BY <2>3 DEF Gpu, Event, GpuDraw, GpuSignal, Notify, vars, contextVars, clientVars
  <2> QED
    BY <2>2, <2>3 DEF Next, Start, StageFails, RunFailsToRebuild, RunWithRebuild,
       RunWithoutRebuild, StartRun, Work, Wait, Copy, Submit, Signal, Register, NextBatch,
       Drain, Fail, CopyFails, SignalFails, RegisterFails
<1> QED
  BY <1>1, <1>2, Invariance, PTL DEF Spec

\* As long as signal_done has not failed, whoever waits in next_batch will be woken up:
\* the event cannot have been consumed by an earlier wait while the slot it stood for
\* was still to be found.
THEOREM WaitersAreWoken == Spec => []NoLostWakeup
<1>1. Init => WakeInv
  BY DEF Init, ContextInit, WakeInv
<1>2. IInv /\ WakeInv /\ (pc = "wait" => ready_count = 0) => NoLostWakeup
  <2> SUFFICES ASSUME IInv, WakeInv, pc = "wait", ready_count = 0, ~unregistered,
                      NEW b \in DOMAIN fence_values, fence_values[b] # Never
               PROVE  \/ event
                      \/ \E a \in armed :
                             /\ a.fence = fence
                             /\ \/ a.value <= completed
                                \/ \E i \in 1 .. Len(queue) : IsSignal(i) /\ queue[i].value = a.value
    BY DEF NoLostWakeup, IsSignal
  <2>1. built = "yes" /\ TypeOK
    BY DEF IInv, TypeOK
  <2>2. CASE completed < fence_values[b]
    <3>1. /\ Registered(fence_values[b])
          /\ \E i \in 1 .. Len(queue) : IsSignal(i) /\ queue[i].value = fence_values[b]
      BY <2>1, <2>2 DEF WakeInv
    <3> QED
      BY <3>1 DEF Registered
  <2>3. CASE ~(completed < fence_values[b])
    <3> SUFFICES ASSUME ~Notified PROVE FALSE
      BY DEF Notified
    <3>1. b \in Reusable
      <4>1. completed \in Nat /\ fence_values[b] \in Nat \cup {Never}
        BY DEF IInv, TypeOK
      <4> QED
        BY <2>3, <4>1 DEF Reusable
    <3>2. ready_count = Cardinality(Reusable)
      BY <2>1 DEF WakeInv
    <3>3. IsFiniteSet(Reusable)
      BY <2>1, SlotsAreFinite
    <3>4. Reusable = {}
      BY <3>2, <3>3, FS_EmptySet
    <3> QED
      BY <3>1, <3>4
  <2> QED
    BY <2>2, <2>3
<1> QED
  BY <1>1, <1>2, WakeStep, NoSlotCounted, Invariance, PTL DEF Spec
=============================================================================
