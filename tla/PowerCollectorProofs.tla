------------------------ MODULE PowerCollectorProofs ------------------------
(***************************************************************************)
(* What holds of the power collector for any number of callback threads,   *)
(* scopes and samples.                                                     *)
(***************************************************************************)
EXTENDS PowerCollector, TLAPS

\* Samples leave the buffer before the description changes.
BufferInv == \A i \in 1 .. Len(buffer) : buffer[i].scope = description

\* What stop has waited for.
StopInv ==
    /\ main \in {"join", "flush", "done"} =>
          ~registered /\ \A t \in Callbacks : pc[t] = "check"
    /\ main \in {"new", "flush", "done"} => pc[Sampler] = "end"
    /\ main = "done" => buffer = <<>>
    /\ \A t \in Callbacks : pc[t] # "end"

IInv == TypeOK /\ BufferInv /\ LinesKeepDescription /\ StopInv

\* flush_buffer moves the whole buffer, in order, to the end of the stream.
LEMMA FlushAppends ==
    ASSUME TypeOK, BufferInv, LinesKeepDescription, Flush(description)
    PROVE  /\ lines' \in Seq(Line) /\ buffer' = <<>> /\ buffer' \in Seq(Sample)
           /\ LinesKeepDescription'
<1> DEFINE new == [i \in 1 .. Len(buffer) |->
                      [by |-> buffer[i].by, scope |-> buffer[i].scope,
                       description |-> description]]
<1>1. /\ lines \in Seq(Line) /\ Len(buffer) \in Nat /\ description \in Nat
      /\ \A i \in 1 .. Len(buffer) : buffer[i] \in Sample
  BY DEF TypeOK
<1>2. \A i \in 1 .. Len(buffer) : new[i] \in Line
  BY <1>1 DEF Sample, Line
<1>3. new \in Seq(Line) /\ Len(new) = Len(buffer)
  BY <1>1, <1>2
<1>4. \A i \in 1 .. Len(new) : new[i].description = new[i].scope
  BY <1>1, <1>3 DEF BufferInv
<1>5. lines' = lines \o new /\ buffer' = <<>>
  BY DEF Flush
<1> HIDE DEF new
<1>6. lines \o new \in Seq(Line)
      /\ Len(lines \o new) = Len(lines) + Len(new)
      /\ \A i \in 1 .. Len(lines) + Len(new) :
            (lines \o new)[i] = IF i <= Len(lines) THEN lines[i] ELSE new[i - Len(lines)]
  BY <1>1, <1>3
<1>7. LinesKeepDescription'
  <2> SUFFICES ASSUME NEW i \in 1 .. Len(lines')
               PROVE  lines'[i].description = lines'[i].scope
    BY DEF LinesKeepDescription
  <2>1. Len(lines) \in Nat /\ Len(new) \in Nat
    BY <1>1, <1>3
  <2>2. CASE i <= Len(lines)
    <3>1. lines'[i] = lines[i] /\ i \in 1 .. Len(lines)
      BY <1>5, <1>6, <2>1, <2>2
    <3> QED
      BY <3>1 DEF LinesKeepDescription
  <2>3. CASE ~(i <= Len(lines))
    <3>1. lines'[i] = new[i - Len(lines)] /\ i - Len(lines) \in 1 .. Len(new)
      BY <1>5, <1>6, <2>1, <2>3
    <3> QED
      BY <1>4, <3>1
  <2> QED
    BY <2>2, <2>3
<1>8. buffer' \in Seq(Sample)
  BY <1>5
<1> QED
  BY <1>5, <1>6, <1>7, <1>8

LEMMA InitInv == Init => IInv
<1> SUFFICES ASSUME Init PROVE IInv
  OBVIOUS
<1>1. pc \in [Threads -> {"check", "lock", "push", "end"}]
      /\ \A t \in Threads : pc[t] # "push"
  BY DEF Init
<1>2. \A t \in Threads : t # "none"
  BY CollectorAssumption DEF Threads
<1>3. pc[Sampler] = "end" /\ \A t \in Callbacks : pc[t] = "check"
  BY CollectorAssumption DEF Init, Threads
<1>4. /\ buffer = <<>> /\ buffer \in Seq(Sample) /\ Len(buffer) = 0
      /\ lines = <<>> /\ lines \in Seq(Line) /\ Len(lines) = 0
  BY DEF Init
<1>5. TypeOK
  BY <1>1, <1>2, <1>4 DEF Init, TypeOK
<1>6. BufferInv /\ LinesKeepDescription
  BY <1>4 DEF BufferInv, LinesKeepDescription
<1>7. main = "new" /\ \A t \in Callbacks : pc[t] # "end"
  BY <1>3 DEF Init
<1> QED
  BY <1>3, <1>5, <1>6, <1>7 DEF IInv, StopInv

\* Steps of the thread of the benchmark that do not touch the buffer.
LEMMA MainInv ==
    ASSUME IInv, Start \/ StartFails \/ EnterScope \/ LeaveScope \/ SetCollecting
                 \/ End \/ Stop \/ Unregister \/ Join
    PROVE  IInv'
<1>0. /\ buffer' = buffer /\ lines' = lines /\ description' = description
      /\ taken' = taken
  BY DEF Start, StartFails, EnterScope, LeaveScope, SetCollecting, End, Stop,
         Unregister, Join
<1>1. BufferInv' /\ LinesKeepDescription'
  BY <1>0 DEF IInv, BufferInv, LinesKeepDescription
<1>2. Sampler \in Threads /\ Callbacks \subseteq Threads /\ Sampler \notin Callbacks
      /\ "main" \notin Threads /\ "none" \notin Threads
  BY CollectorAssumption DEF Threads
<1>3. CASE Start
  BY <1>0, <1>2, <1>3 DEF Start, IInv, TypeOK, StopInv, BufferInv, LinesKeepDescription
<1>4. CASE StartFails \/ End \/ Stop
  BY <1>0, <1>1, <1>2, <1>4 DEF StartFails, End, Stop, IInv, TypeOK, StopInv
<1>7. CASE EnterScope \/ LeaveScope
  BY <1>0, <1>1, <1>2, <1>7 DEF EnterScope, LeaveScope, IInv, TypeOK, StopInv
<1>5. CASE SetCollecting
  BY <1>0, <1>1, <1>2, <1>5 DEF SetCollecting, IInv, TypeOK, StopInv
<1>6. CASE Unregister
  BY <1>0, <1>1, <1>2, <1>6 DEF Unregister, IInv, TypeOK, StopInv
<1>8. CASE Join
  BY <1>0, <1>1, <1>2, <1>8 DEF Join, IInv, TypeOK, StopInv
<1> QED
  BY <1>3, <1>4, <1>5, <1>6, <1>7, <1>8

LEMMA FlushInv ==
    ASSUME IInv, FlushThenDescribe \/ FlushRest
    PROVE  IInv'
<1>1. Flush(description)
  BY DEF FlushThenDescribe, FlushRest
<1>2. /\ lines' \in Seq(Line) /\ buffer' = <<>> /\ buffer' \in Seq(Sample)
      /\ LinesKeepDescription'
  BY <1>1, FlushAppends DEF IInv
<1>3. BufferInv'
  BY <1>2 DEF BufferInv
<1>4. \A t \in Threads : t # "main" /\ t # "none"
  BY CollectorAssumption DEF Threads
<1>5. TypeOK' /\ StopInv'
  <2>1. CASE FlushThenDescribe
    BY <1>2, <1>4, <2>1 DEF FlushThenDescribe, IInv, TypeOK, StopInv
  <2>2. CASE FlushRest
    BY <1>2, <1>4, <2>2 DEF FlushRest, IInv, TypeOK, StopInv
  <2> QED
    BY <2>1, <2>2
<1> QED
  BY <1>2, <1>3, <1>5 DEF IInv

LEMMA ThreadInv ==
    ASSUME IInv, Exit \/ \E t \in Threads : Thread(t)
    PROVE  IInv'
<1>1. Sampler \in Threads /\ Callbacks \subseteq Threads /\ Sampler \notin Callbacks
      /\ \A t \in Threads : t # "main" /\ t # "none" /\ (t # Sampler => t \in Callbacks)
  BY CollectorAssumption DEF Threads
<1>2. CASE Exit
  BY <1>1, <1>2 DEF Exit, IInv, TypeOK, StopInv, BufferInv, LinesKeepDescription
<1>3. ASSUME NEW t \in Threads, Check(t) PROVE IInv'
  BY <1>1, <1>3 DEF Check, IInv, TypeOK, StopInv, BufferInv, LinesKeepDescription
<1>4. ASSUME NEW t \in Threads, Lock(t) PROVE IInv'
  <2>1. TypeOK'
    BY <1>1, <1>4 DEF Lock, IInv, TypeOK
  <2>2. StopInv'
    BY <1>1, <1>4 DEF Lock, IInv, TypeOK, StopInv
  <2> QED
    BY <1>4, <2>1, <2>2 DEF Lock, IInv, BufferInv, LinesKeepDescription
<1>5. ASSUME NEW t \in Threads, Push(t) PROVE IInv'
  <2> DEFINE e == [by |-> t, scope |-> description]
  <2>1. e \in Sample /\ buffer' = Append(buffer, e) /\ e.scope = description
        /\ description' = description /\ lines' = lines
    BY <1>5 DEF Push, IInv, TypeOK, Sample
  <2> HIDE DEF e
  <2>2. buffer' \in Seq(Sample) /\ Len(buffer') = Len(buffer) + 1
        /\ \A i \in 1 .. Len(buffer') : \/ i \in 1 .. Len(buffer) /\ buffer'[i] = buffer[i]
                                       \/ buffer'[i] = e
    <3>1. buffer \in Seq(Sample)
      BY DEF IInv, TypeOK
    <3> QED
      BY <2>1, <3>1
  <2>3. BufferInv' /\ LinesKeepDescription'
    BY <2>1, <2>2 DEF IInv, BufferInv, LinesKeepDescription
  <2>4. main \notin {"flush", "done"} \/ t # Sampler
    BY <1>5 DEF Push, IInv, StopInv
  <2>5. TypeOK'
    BY <1>1, <1>5, <2>2 DEF Push, IInv, TypeOK
  <2>6. StopInv'
    BY <1>1, <1>5 DEF Push, IInv, TypeOK, StopInv
  <2> QED
    BY <2>3, <2>5, <2>6 DEF IInv
<1> QED
  BY <1>2, <1>3, <1>4, <1>5 DEF Thread

\* The inductive invariant holds in every reachable state.
THEOREM Invariance == Spec => []IInv
<1>1. IInv /\ UNCHANGED vars => IInv'
  BY DEF vars, IInv, TypeOK, StopInv, BufferInv, LinesKeepDescription
<1>2. IInv /\ [Next]_vars => IInv'
  BY <1>1, MainInv, FlushInv, ThreadInv DEF Next, Main
<1> QED
  BY <1>2, InitInv, PTL DEF Spec

\* All variables have their types, and the lock is held by whoever uses it.
THEOREM TypeCorrect == Spec => []TypeOK
  BY Invariance, PTL DEF IInv

\* A sample is written with the description under which it was buffered.
THEOREM SamplesAreAttributed == Spec => []LinesKeepDescription
  BY Invariance, PTL DEF IInv

\* The buffer is never used by two threads at once, although stop does not lock.
THEOREM NoRaceOnBuffer == Spec => []BufferIsExclusive
<1>1. IInv => BufferIsExclusive
  <2> SUFFICES ASSUME IInv, main \in {"describe", "flush"}, NEW t \in Threads
               PROVE  pc[t] # "push"
    BY DEF BufferIsExclusive
  <2>1. CASE main = "describe"
    BY <2>1, CollectorAssumption DEF IInv, TypeOK, Threads
  <2>2. CASE main = "flush"
    BY <2>2 DEF IInv, StopInv, Threads
  <2> QED
    BY <2>1, <2>2
<1> QED
  BY <1>1, Invariance, PTL

\* After stop everything has been written and nobody collects.
THEOREM StopIsComplete == Spec => []StoppedForGood
<1>1. IInv => StoppedForGood
  BY DEF IInv, StopInv, StoppedForGood
<1> QED
  BY <1>1, Invariance, PTL

\* What is collected late: with an empty description no thread starts taking a
\* sample, and one that has stored its sample is not taking another.
LateInv ==
    /\ main # "describe" => (is_collecting <=> description # 0)
    /\ main = "describe" => (is_collecting <=> argument # 0)
    /\ description = 0 =>
          /\ OneLateSampleEach
          /\ main # "describe" =>
                \A i \in 1 .. Len(buffer) : pc[buffer[i].by] \in {"check", "end"}

\* The benchmark's thread stores no sample.
LEMMA MainLate ==
    ASSUME IInv, LateInv, Main
    PROVE  LateInv'
<1>1. \A i \in 1 .. Len(buffer) : buffer[i] \in Sample
  BY DEF IInv, TypeOK
<1>2. Sampler \in Threads
  BY DEF Threads
<1>3. CASE Start
  BY <1>1, <1>2, <1>3 DEF Start, IInv, TypeOK, Sample, LateInv, OneLateSampleEach
<1>4. CASE StartFails \/ End \/ Stop \/ Unregister \/ Join
  BY <1>4 DEF StartFails, End, Stop, Unregister, Join, LateInv, OneLateSampleEach
<1>5. CASE EnterScope \/ LeaveScope
  BY <1>5 DEF EnterScope, LeaveScope, LateInv, OneLateSampleEach
<1>6. CASE SetCollecting
  BY <1>6 DEF SetCollecting, LateInv, OneLateSampleEach
<1>7. CASE FlushThenDescribe \/ FlushRest
  <2>1. buffer' = <<>> /\ Len(buffer') = 0
    BY <1>7 DEF FlushThenDescribe, FlushRest, Flush
  <2>2. OneLateSampleEach' /\ \A i \in 1 .. Len(buffer') : pc'[buffer'[i].by] \in {"check", "end"}
    BY <2>1 DEF OneLateSampleEach
  <2>3. main # "describe" => (is_collecting <=> description # 0)
    BY DEF LateInv
  <2>4. main = "describe" => (is_collecting <=> argument # 0)
    BY DEF LateInv
  <2> QED
    BY <1>7, <2>2, <2>3, <2>4 DEF FlushThenDescribe, FlushRest, LateInv
<1> QED
  BY <1>3, <1>4, <1>5, <1>6, <1>7 DEF Main

\* A thread that stores a sample late had none in the buffer.
LEMMA ThreadLate ==
    ASSUME IInv, LateInv, Exit \/ \E t \in Threads : Thread(t)
    PROVE  LateInv'
<1>1. \A i \in 1 .. Len(buffer) : buffer[i] \in Sample /\ buffer[i].by \in Threads
  <2>1. \A i \in 1 .. Len(buffer) : buffer[i] \in Sample
    BY DEF IInv, TypeOK
  <2> QED
    BY <2>1 DEF Sample
<1>2. pc \in [Threads -> {"check", "lock", "push", "end"}] /\ Sampler \in Threads
      /\ "main" \notin Threads /\ "none" \notin Threads
  BY CollectorAssumption DEF IInv, TypeOK, Threads
<1>3. CASE Exit
  BY <1>1, <1>2, <1>3 DEF Exit, LateInv, OneLateSampleEach
<1>4. ASSUME NEW t \in Threads, Check(t) PROVE LateInv'
  <2>1. description # 0 \/ main = "describe"
    BY <1>4 DEF Check, LateInv
  <2> QED
    BY <1>1, <1>2, <1>4, <2>1 DEF Check, LateInv, OneLateSampleEach
<1>5. ASSUME NEW t \in Threads, Lock(t) PROVE LateInv'
  <2>1. main # "describe"
    BY <1>5 DEF Lock, IInv, TypeOK
  <2>2. description = 0 => \A i \in 1 .. Len(buffer) : buffer[i].by # t
    BY <1>5, <2>1 DEF Lock, LateInv
  <2> QED
    BY <1>1, <1>2, <1>5, <2>1, <2>2 DEF Lock, LateInv, OneLateSampleEach
<1>6. ASSUME NEW t \in Threads, Push(t) PROVE LateInv'
  <2> DEFINE e == [by |-> t, scope |-> description]
  <2>1. main # "describe" /\ main' = main /\ description' = description
        /\ is_collecting' = is_collecting
    BY <1>2, <1>6 DEF Push, IInv, TypeOK
  <2>2. description = 0 => \A i \in 1 .. Len(buffer) : buffer[i].by # t
    BY <1>6, <2>1 DEF Push, LateInv
  <2>3. /\ Len(buffer) \in Nat /\ Len(buffer') = Len(buffer) + 1
        /\ \A i \in 1 .. Len(buffer) : buffer'[i] = buffer[i]
        /\ buffer'[Len(buffer) + 1] = e
    <3>1. buffer \in Seq(Sample) /\ e \in Sample /\ buffer' = Append(buffer, e)
      BY <1>6 DEF Push, IInv, TypeOK, Sample
    <3> HIDE DEF e
    <3> QED
      BY <3>1
  <2>4. e.by = t
    OBVIOUS
  <2>5. \A i \in 1 .. Len(buffer') : i \in 1 .. Len(buffer) \/ i = Len(buffer) + 1
    BY <2>3
  <2>6. pc' = [pc EXCEPT ![t] = "check"]
    BY <1>6 DEF Push
  <2> HIDE DEF e
  <2>7. description = 0 => OneLateSampleEach'
    BY <2>1, <2>2, <2>3, <2>4, <2>5 DEF LateInv, OneLateSampleEach
  <2>8. description = 0 =>
           \A i \in 1 .. Len(buffer') : pc'[buffer'[i].by] \in {"check", "end"}
    BY <1>1, <1>2, <2>1, <2>3, <2>4, <2>5, <2>6 DEF LateInv
  <2> QED
    BY <2>1, <2>7, <2>8 DEF LateInv
<1> QED
  BY <1>3, <1>4, <1>5, <1>6 DEF Thread

\* What is stored while the description is empty is at most one sample of each
\* thread, namely the one it was taking when the description was emptied: that
\* is all the window between the test of _is_collecting and the lock lets through.
THEOREM OneLateSample == Spec => []OneLateSampleEach
<1>1. Init => LateInv
  BY DEF Init, LateInv, OneLateSampleEach
<1>2. LateInv /\ UNCHANGED vars => LateInv'
  BY DEF vars, LateInv, OneLateSampleEach
<1>3. IInv /\ LateInv /\ [Next]_vars => LateInv'
  BY <1>2, MainLate, ThreadLate DEF Next
<1>4. LateInv => OneLateSampleEach
  BY DEF LateInv, OneLateSampleEach
<1> QED
  BY <1>1, <1>3, <1>4, Invariance, PTL DEF Spec
=============================================================================
