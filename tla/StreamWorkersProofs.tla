------------------------ MODULE StreamWorkersProofs ------------------------
(***************************************************************************)
(* Proofs about StreamWorkers, for every number of threads and iterations, *)
(* every list of problem sizes and every batch size.                       *)
(***************************************************************************)
EXTENDS StreamWorkers, AccessPatternProofs, FiniteSets, FiniteSetTheorems,
        SequenceTheorems, TLAPS

-----------------------------------------------------------------------------
(* The inductive invariant. *)

Working == {"arrive", "spin", "apply", "stop"}

\* The rounds a worker has completed when it ends.
Required == IF Supported THEN Iterations + 1 ELSE 0

\* Where a worker is determines how many rounds it has behind it, whether it
\* holds its lock, and where in the arrays it can be.
WorkerInv ==
    \A w \in Workers :
        /\ pc[w] \in {"unborn", "started"} => iter[w] = 0
        /\ pc[w] \in Working => Supported /\ iter[w] <= Iterations
        /\ pc[w] \in {"unlock", "done"} => iter[w] = Required
        /\ lock[w] <=> pc[w] \in Working \cup {"unlock"}
        /\ pc[w] = "apply" =>
               pos[w] \in Positions(problem.pattern, problem.size, Parallelism)

\* The rounds before the current one are measured, the later ones are zero.
ResultsInv ==
    \A w \in Workers : pc[w] # "unborn" =>
        \A i \in Rounds :
            /\ i < iter[w] => results[w][i] = "measured"
            /\ i > iter[w] => results[w][i] = "zero"
            /\ i = iter[w] /\ pc[w] \in {"started", "unlock", "done"} =>
                   results[w][i] = "zero"

\* The phase of the main thread determines which workers exist and have ended.
MainInv ==
    /\ main = "create" => \A w \in Workers : pc[w] = "unborn" <=> w >= next
    /\ main \in {"join", "collect", "combine", "reported"} =>
           \A w \in Workers : pc[w] # "unborn"
    /\ main = "join" => \A w \in Workers : w < next => pc[w] = "done"
    /\ main \in {"collect", "combine", "reported"} =>
           \A w \in Workers : pc[w] = "done"

\* The counter has counted every arrival exactly once.
Arrivals == {a \in Workers \X Rounds : a[2] \in Arrived(a[1])}

CounterInv == barrier = Parallelism + Cardinality(Arrivals)

\* The ranks whose results have been copied.
Gathered ==
    IF main = "collect" THEN next
    ELSE IF main \in {"combine", "reported"} THEN Parallelism ELSE 0

Measurement(w, i) == [rank |-> w, round |-> i,
                      value |-> IF Supported THEN "measured" ELSE "zero"]

CollectedInv ==
    /\ Len(collected) = Gathered * Iterations
    /\ \A w \in Workers : w < Gathered =>
           \A i \in 1 .. Iterations :
               collected[w * Iterations + i] = Measurement(w, i)

IInv ==
    /\ TypeOK
    /\ WorkerInv
    /\ ResultsInv
    /\ MainInv
    /\ CounterInv
    /\ CollectedInv
    /\ RowsCombineTheirRound

-----------------------------------------------------------------------------
(* Facts about the constants and the operators. *)

LEMMA ConstantTypes ==
    /\ Parallelism \in Nat \ {0}
    /\ Iterations \in Nat \ {0}
    /\ IntMax \in Nat
    /\ JoinBatch \in Nat \ {0}
    /\ Workers = 0 .. Parallelism - 1
    /\ Rounds = 0 .. Iterations
  BY JobAssumption DEF Workers, Rounds

\* Advance moves within the ranks, or starts the next phase at rank 0.
LEMMA AdvanceType ==
    ASSUME NEW here, NEW there, NEW count \in Nat \ {0},
           next \in Workers, Advance(here, count, there)
    PROVE  /\ next' \in Workers
           /\ main' \in {here, there}
           /\ main' = here /\ here # there => next' = next + count
           /\ main' = there /\ here # there => next' = 0 /\ next + count >= Parallelism
  BY ConstantTypes DEF Advance

\* The stride and the size of a typed problem are positive.
LEMMA ProblemType ==
    ASSUME TypeOK
    PROVE  /\ Stride \in Nat \ {0}
           /\ problem.size \in Nat \ {0}
           /\ problem.pattern \in Patterns
<1>1. problem.pattern \in Patterns /\ problem.size \in Sizes
  BY DEF TypeOK
<1>2. Step(problem.pattern, Parallelism) \in Nat \ {0}
  BY ConstantTypes DEF Step
<1> QED
  BY <1>1, <1>2, JobAssumption DEF Stride

\* Where a loop of the main thread can go.
LEMMA Phases ==
    ASSUME next \in Workers
    PROVE  /\ StartThread => main = "create" /\ main' \in {"create", "join"}
           /\ Join => main = "join" /\ main' \in {"join", "collect"}
           /\ Join /\ main' = "collect" => next' = 0
           /\ Collect => main = "collect" /\ main' \in {"collect", "combine"}
<1>1. StartThread => main = "create" /\ main' \in {"create", "join"}
  BY AdvanceType DEF StartThread
<1>2. Join => main = "join" /\ main' \in {"join", "collect"}
              /\ (main' = "collect" => next' = 0)
  BY AdvanceType, ConstantTypes DEF Join
<1>3. Collect => main = "collect" /\ main' \in {"collect", "combine"}
  BY AdvanceType DEF Collect
<1> QED
  BY <1>1, <1>2, <1>3

-----------------------------------------------------------------------------
(* Every step preserves the types. *)

LEMMA TypeStep ==
    ASSUME TypeOK, WorkerInv, MainInv, CollectedInv, Next
    PROVE  TypeOK'
<1> USE ConstantTypes DEF TypeOK
<1>1. CASE StartThread
  <2>1. [results EXCEPT ![next] = [i \in Rounds |-> "zero"]]
            \in [Workers -> [Rounds -> Cells]]
    BY DEF Cells
  <2>2. next' \in Workers /\ main' \in {"create", "join"}
    BY <1>1, AdvanceType DEF StartThread
  <2> QED
    BY <1>1, <2>1, <2>2 DEF StartThread
<1>2. CASE StartFails \/ JoinFails
  BY <1>2 DEF StartFails, JoinFails
<1>3. CASE Join
  <2>1. next' \in Workers /\ main' \in {"join", "collect"}
    BY <1>3, AdvanceType DEF Join
  <2> QED
    BY <1>3, <2>1 DEF Join
<1>4. CASE Collect
  <2>1. next' \in Workers /\ main' \in {"collect", "combine"}
    BY <1>4, AdvanceType DEF Collect
  <2>2. Copied(next) \in Seq(Entries)
    <3>1. \A i \in 1 .. Iterations :
              [rank |-> next, round |-> i, value |-> results[next][i]] \in Entries
      BY DEF Entries
    <3> QED
      BY <3>1 DEF Copied
  <2>3. collected \o Copied(next) \in Seq(Entries)
    BY <2>2, ConcatProperties
  <2> QED
    BY <1>4, <2>1, <2>3 DEF Collect
<1>5. CASE Combine
  <2>1. ASSUME NEW i \in 0 .. Iterations - 1, NEW t \in Workers
        PROVE  collected[t * Iterations + i + 1] \in Entries
    <3>1. Len(collected) = Parallelism * Iterations
      BY <1>5 DEF CollectedInv, Gathered, Combine
    <3>2. t * Iterations + Iterations <= Parallelism * Iterations
      BY MultiplesApart
    <3>3. t * Iterations \in Nat
      OBVIOUS
    <3>4. 1 <= t * Iterations + i + 1 /\ t * Iterations + i + 1 <= Len(collected)
      <4> HIDE DEF TypeOK
      <4> QED BY <3>1, <3>2, <3>3
    <3>5. t * Iterations + i + 1 \in 1 .. Len(collected)
      BY <3>3, <3>4
    <3> QED
      BY <3>5, ElementOfSeq
  <2>2. \A i \in 0 .. Iterations - 1 :
            {collected[t * Iterations + i + 1] : t \in Workers} \in SUBSET Entries
    <3> HIDE DEF TypeOK
    <3> TAKE i \in 0 .. Iterations - 1
    <3>1. \A t \in Workers : collected[t * Iterations + i + 1] \in Entries
      BY <2>1
    <3> QED
      BY <3>1
  <2>3. combined' = [i \in 0 .. Iterations - 1 |->
                        {collected[t * Iterations + i + 1] : t \in Workers}]
    BY <1>5 DEF Combine
  <2>4. combined' \in [0 .. Iterations - 1 -> SUBSET Entries]
    BY <2>2, <2>3
  <2> QED
    BY <1>5, <2>4 DEF Combine
<1>6. ASSUME NEW w \in Workers, Worker(w)
      PROVE  TypeOK'
  <2>1. CASE Lock(w)
    BY <2>1 DEF Lock, mainVars
  <2>2. CASE Arrive(w)
    <3>1. iter[w] \in Rounds
      BY <2>2 DEF WorkerInv, Working, Arrive
    <3>2. [results EXCEPT ![w][iter[w]] = "accesses"] \in [Workers -> [Rounds -> Cells]]
      BY <3>1 DEF Cells
    <3>3. Wrap(barrier + 1) \in -(IntMax + 1) .. IntMax
      BY DEF Wrap
    <3> QED
      BY <2>2, <3>2, <3>3 DEF Arrive, mainVars
  <2>3. CASE Leave(w)
    BY <2>3 DEF Leave, mainVars
  <2>4. CASE Apply(w)
    <3>1. pos[w] + Stride \in Nat
      <4>1. pos[w] \in Nat
        BY DEF TypeOK
      <4>2. Stride \in Nat
        BY DEF Stride, Step
      <4> QED
        BY <4>1, <4>2
    <3> QED
      BY <2>4, <3>1 DEF Apply, mainVars
  <2>5. CASE StopTimer(w)
    <3>1. iter[w] \in Rounds
      BY <2>5 DEF WorkerInv, Working, StopTimer
    <3>2. [results EXCEPT ![w][iter[w]] = "measured"] \in [Workers -> [Rounds -> Cells]]
      BY <3>1 DEF Cells
    <3>3. iter[w] + 1 \in 0 .. Iterations + 1
      BY <3>1
    <3> QED
      BY <2>5, <3>2, <3>3 DEF StopTimer, mainVars
  <2>6. CASE Unlock(w)
    BY <2>6 DEF Unlock, mainVars
  <2> QED
    BY <1>6, <2>1, <2>2, <2>3, <2>4, <2>5, <2>6 DEF Worker
<1>7. ASSUME NEW w \in Workers, UseAfterFree(w)
      PROVE  TypeOK'
  BY <1>7 DEF UseAfterFree
<1> QED
  BY <1>1, <1>2, <1>3, <1>4, <1>5, <1>6, <1>7 DEF Next, Main

-----------------------------------------------------------------------------
(* Every step preserves what the place of a worker says about it. *)

\* A worker's step leaves the other workers where they are.
LEMMA OthersUnchanged ==
    ASSUME TypeOK, NEW w \in Workers, Worker(w), NEW v \in Workers, v # w
    PROVE  /\ pc'[v] = pc[v] /\ iter'[v] = iter[v] /\ pos'[v] = pos[v]
           /\ lock'[v] = lock[v] /\ results'[v] = results[v]
           /\ problem' = problem /\ UNCHANGED mainVars
  BY DEF TypeOK, Worker, Lock, Arrive, Leave, Apply, StopTimer, Unlock

\* The main thread's steps, and the crash, leave all of them where they are.
MainOnly == UNCHANGED <<problem, barrier, pc, iter, pos, results, lock>>

LEMMA MainOnlySteps ==
    ASSUME Next, ~StartThread, ~ \E w \in Workers : Worker(w)
    PROVE  MainOnly
  BY DEF Next, Main, StartFails, JoinFails, Join, Collect, Combine,
         UseAfterFree, MainOnly

LEMMA WorkerStep ==
    ASSUME TypeOK, WorkerInv, MainInv, Next
    PROVE  WorkerInv'
<1> USE ConstantTypes
<1> DEFINE P(w) ==
        /\ pc[w] \in {"unborn", "started"} => iter[w] = 0
        /\ pc[w] \in Working => Supported /\ iter[w] <= Iterations
        /\ pc[w] \in {"unlock", "done"} => iter[w] = Required
        /\ lock[w] <=> pc[w] \in Working \cup {"unlock"}
        /\ pc[w] = "apply" =>
               pos[w] \in Positions(problem.pattern, problem.size, Parallelism)
<1>0. \A w \in Workers : P(w)
  BY DEF WorkerInv
<1>1. CASE StartThread
  <2>1. pc[next] = "unborn"
    BY <1>1 DEF StartThread, MainInv, TypeOK
  <2> QED
    BY <1>0, <1>1, <2>1
    DEF StartThread, WorkerInv, TypeOK, Working, Required, Supported
<1>2. ASSUME NEW w \in Workers, Worker(w)
      PROVE  WorkerInv'
  <2>1. \A v \in Workers \ {w} : P(v)'
    BY <1>0, <1>2, OthersUnchanged DEF Required, Supported
  <2>2. problem' = problem
    BY <1>2 DEF Worker, Lock, Arrive, Leave, Apply, StopTimer, Unlock
  <2>3. P(w)'
    <3> USE <1>0, <2>2 DEF TypeOK, Working, Required, Supported, mainVars
    <3>1. CASE Lock(w)
      BY <3>1 DEF Lock
    <3>2. CASE Arrive(w)
      BY <3>2 DEF Arrive
    <3>3. CASE Leave(w)
      BY <3>3, FirstPosition, ProblemType DEF Leave
    <3>4. CASE Apply(w)
      <4>1. CASE pos[w] + Stride < problem.size
        <5>1. pos[w] + Stride
                  \in Positions(problem.pattern, problem.size, Parallelism)
          BY <3>4, <4>1, NextPosition, ProblemType DEF Apply, Stride
        <5> QED
          BY <3>4, <4>1, <5>1 DEF Apply
      <4>2. CASE ~(pos[w] + Stride < problem.size)
        BY <3>4, <4>2 DEF Apply
      <4> QED
        BY <4>1, <4>2
    <3>5. CASE StopTimer(w)
      BY <3>5 DEF StopTimer
    <3>6. CASE Unlock(w)
      BY <3>6 DEF Unlock
    <3> QED
      BY <1>2, <3>1, <3>2, <3>3, <3>4, <3>5, <3>6 DEF Worker
  <2> QED
    BY <2>1, <2>3 DEF WorkerInv
<1>3. CASE MainOnly
  BY <1>0, <1>3 DEF MainOnly, WorkerInv, Required, Supported
<1> QED
  BY <1>1, <1>2, <1>3, MainOnlySteps

-----------------------------------------------------------------------------
(* Every step preserves what is measured. *)

LEMMA ResultsStep ==
    ASSUME TypeOK, WorkerInv, ResultsInv, MainInv, Next
    PROVE  ResultsInv'
<1> USE ConstantTypes
<1> DEFINE P(w) ==
        pc[w] # "unborn" =>
            \A i \in Rounds :
                /\ i < iter[w] => results[w][i] = "measured"
                /\ i > iter[w] => results[w][i] = "zero"
                /\ i = iter[w] /\ pc[w] \in {"started", "unlock", "done"} =>
                       results[w][i] = "zero"
<1>0. \A w \in Workers : P(w)
  BY DEF ResultsInv
<1>1. CASE StartThread
  <2>1. pc[next] = "unborn" /\ next \in Workers
    BY <1>1 DEF StartThread, MainInv, TypeOK
  <2>2. iter[next] = 0
    BY <2>1 DEF WorkerInv
  <2> QED
    BY <1>0, <1>1, <2>1, <2>2 DEF StartThread, ResultsInv, TypeOK
<1>2. ASSUME NEW w \in Workers, Worker(w)
      PROVE  ResultsInv'
  <2>1. \A v \in Workers \ {w} : P(v)'
    BY <1>0, <1>2, OthersUnchanged
  <2>2. P(w)'
    <3> USE <1>0 DEF TypeOK, mainVars
    <3>1. CASE Lock(w)
      <4>1. pc[w] = "started" /\ pc'[w] \in {"arrive", "unlock"}
            /\ iter'[w] = iter[w] /\ results'[w] = results[w]
        BY <3>1 DEF Lock
      <4> HIDE DEF TypeOK
      <4> QED
        BY <4>1
    <3>2. CASE Arrive(w)
      <4>1. iter[w] \in Rounds
        BY <3>2 DEF WorkerInv, Working, Arrive
      <4>2. pc[w] = "arrive" /\ pc'[w] = "spin" /\ iter'[w] = iter[w]
        BY <3>2 DEF Arrive
      <4>3. \A i \in Rounds :
                results'[w][i] = IF i = iter[w] THEN "accesses" ELSE results[w][i]
        BY <3>2, <4>1 DEF Arrive
      <4> HIDE DEF TypeOK
      <4> QED
        BY <4>1, <4>2, <4>3
    <3>3. CASE Leave(w)
      BY <3>3 DEF Leave
    <3>4. CASE Apply(w)
      BY <3>4 DEF Apply
    <3>5. CASE StopTimer(w)
      <4>1. iter[w] \in Rounds
        BY <3>5 DEF WorkerInv, Working, StopTimer
      <4>2. /\ pc[w] = "stop"
            /\ iter'[w] = iter[w] + 1
            /\ pc'[w] = "arrive" \/ (pc'[w] = "unlock" /\ iter[w] = Iterations)
        BY <3>5, <4>1 DEF StopTimer
      <4>3. \A i \in Rounds :
                results'[w][i] = IF i = iter[w] THEN "measured" ELSE results[w][i]
        BY <3>5, <4>1 DEF StopTimer
      <4> HIDE DEF TypeOK
      <4> QED
        BY <4>1, <4>2, <4>3
    <3>6. CASE Unlock(w)
      BY <3>6 DEF Unlock
    <3> QED
      BY <1>2, <3>1, <3>2, <3>3, <3>4, <3>5, <3>6 DEF Worker
  <2> QED
    BY <2>1, <2>2 DEF ResultsInv
<1>3. CASE MainOnly
  BY <1>0, <1>3 DEF MainOnly, ResultsInv
<1> QED
  BY <1>1, <1>2, <1>3, MainOnlySteps

-----------------------------------------------------------------------------
(* Every step preserves the relation of the main thread to the workers. *)

LEMMA MainStep ==
    ASSUME TypeOK, MainInv, Next
    PROVE  MainInv'
<1> USE ConstantTypes DEF TypeOK, MainInv
<1>1. CASE StartThread
  <2>1. /\ pc[next] = "unborn" /\ next \in Workers
        /\ pc' = [pc EXCEPT ![next] = "started"]
        /\ \A w \in Workers : pc[w] = "unborn" <=> w >= next
    BY <1>1 DEF StartThread
  <2>2. CASE main' = "create"
    <3>1. next' = next + 1
      BY <1>1, <2>2, AdvanceType DEF StartThread
    <3> QED
      BY <2>1, <2>2, <3>1
  <2>3. CASE main' = "join"
    <3>1. next' = 0 /\ next + 1 >= Parallelism
      BY <1>1, <2>3, AdvanceType DEF StartThread
    <3> QED
      BY <2>1, <2>3, <3>1
  <2> QED
    BY <1>1, <2>2, <2>3, AdvanceType DEF StartThread
<1>2. CASE StartFails \/ JoinFails
  BY <1>2 DEF StartFails, JoinFails
<1>3. CASE Join
  <2>1. /\ \A w \in Workers : w < next + JoinBatch => pc[w] = "done"
        /\ \A w \in Workers : pc[w] # "unborn"
        /\ pc' = pc
    BY <1>3 DEF Join, Batch
  <2>2. CASE main' = "join"
    <3>1. next' = next + JoinBatch
      BY <1>3, <2>2, AdvanceType DEF Join
    <3> QED
      BY <2>1, <2>2, <3>1
  <2>3. CASE main' = "collect"
    <3>1. next + JoinBatch >= Parallelism
      BY <1>3, <2>3, AdvanceType DEF Join
    <3>2. \A w \in Workers : pc[w] = "done"
      BY <2>1, <3>1
    <3> QED
      BY <2>1, <2>3, <3>2
  <2> QED
    BY <1>3, <2>2, <2>3, AdvanceType DEF Join
<1>4. CASE Collect
  <2>1. main' \in {"collect", "combine"}
    BY <1>4, AdvanceType DEF Collect
  <2> QED
    BY <1>4, <2>1 DEF Collect
<1>5. CASE Combine
  BY <1>5 DEF Combine
<1>6. ASSUME NEW w \in Workers, Worker(w)
      PROVE  MainInv'
  <2>1. pc[w] \notin {"unborn", "done"} /\ pc'[w] # "unborn"
    BY <1>6 DEF Worker, Lock, Arrive, Leave, Apply, StopTimer, Unlock
  <2>2. UNCHANGED <<main, next>> /\ \A v \in Workers \ {w} : pc'[v] = pc[v]
    <3>1. UNCHANGED mainVars
      BY <1>6 DEF Worker, Lock, Arrive, Leave, Apply, StopTimer, Unlock
    <3>2. \A v \in Workers \ {w} : pc'[v] = pc[v]
      <4> HIDE DEF TypeOK, MainInv
      <4> TAKE v \in Workers \ {w}
      <4>1. v \in Workers /\ v # w
        OBVIOUS
      <4> QED
        BY <1>6, <4>1, OthersUnchanged
    <3> QED
      BY <3>1, <3>2 DEF mainVars
  <2> QED
    BY <2>1, <2>2
<1>7. ASSUME NEW w \in Workers, UseAfterFree(w)
      PROVE  MainInv'
  BY <1>7 DEF UseAfterFree
<1> QED
  BY <1>1, <1>2, <1>3, <1>4, <1>5, <1>6, <1>7 DEF Next, Main

-----------------------------------------------------------------------------
(* Every step keeps the count of arrivals, so the counter never wraps. *)

\* There are only finitely many arrivals in a job.
LEMMA ArrivalsBounded ==
    /\ IsFiniteSet(Arrivals)
    /\ Cardinality(Arrivals) \in Nat
    /\ Cardinality(Arrivals) <= Parallelism * (Iterations + 1)
<1>1. IsFiniteSet(Workers) /\ Cardinality(Workers) = Parallelism
  BY ConstantTypes, FS_Interval
<1>2. IsFiniteSet(Rounds) /\ Cardinality(Rounds) = Iterations + 1
  BY ConstantTypes, FS_Interval
<1>3. /\ IsFiniteSet(Workers \X Rounds)
      /\ Cardinality(Workers \X Rounds) = Parallelism * (Iterations + 1)
  BY <1>1, <1>2, FS_Product
<1>4. Arrivals \in SUBSET (Workers \X Rounds)
  BY DEF Arrivals
<1> QED
  BY <1>3, <1>4, FS_Subset, FS_CardinalityType

\* An arrival is counted once, and no other step of a worker is one.
LEMMA CounterStep ==
    ASSUME TypeOK, WorkerInv, MainInv, CounterInv, Next,
           IsFiniteSet(Arrivals'),
           Cardinality(Arrivals') <= Parallelism * (Iterations + 1)
    PROVE  CounterInv'
<1> USE ConstantTypes
<1>1. CASE StartThread
  <2>1. pc[next] = "unborn" /\ next \in Workers
    BY <1>1 DEF StartThread, MainInv, TypeOK
  <2>2. \A w \in Workers : Arrived(w)' = Arrived(w)
    BY <1>1, <2>1 DEF StartThread, Arrived, TypeOK
  <2>3. Arrivals' = Arrivals
    BY <2>2 DEF Arrivals
  <2> QED
    BY <1>1, <2>3 DEF CounterInv, StartThread
<1>2. ASSUME NEW w \in Workers, Worker(w)
      PROVE  CounterInv'
  <2>1. \A v \in Workers \ {w} : Arrived(v)' = Arrived(v)
    BY <1>2, OthersUnchanged DEF Arrived
  <2>2. CASE Arrive(w)
    <3>1. pc[w] = "arrive" /\ pc'[w] = "spin" /\ iter'[w] = iter[w]
          /\ iter[w] \in Rounds
      BY <2>2 DEF Arrive, TypeOK, WorkerInv, Working
    <3>2. Arrived(w)' = Arrived(w) \cup {iter[w]} /\ iter[w] \notin Arrived(w)
      BY <3>1 DEF Arrived
    <3>3. Arrivals' = Arrivals \cup {<<w, iter[w]>>} /\ <<w, iter[w]>> \notin Arrivals
      BY <2>1, <3>1, <3>2 DEF Arrivals
    <3>4. Cardinality(Arrivals') = Cardinality(Arrivals) + 1
      BY <3>3, ArrivalsBounded, FS_AddElement
    <3>5. Parallelism * (Iterations + 2) = Parallelism * (Iterations + 1) + Parallelism
      OBVIOUS
    <3>6. barrier + 1 = Parallelism + Cardinality(Arrivals') /\ barrier + 1 <= IntMax
      BY <3>4, <3>5, ArrivalsBounded, CounterFits DEF CounterInv
    <3>7. barrier' = Wrap(barrier + 1)
      BY <2>2 DEF Arrive
    <3> QED
      BY <3>6, <3>7, ArrivalsBounded DEF Wrap, CounterInv
  <2>3. CASE Lock(w) \/ Leave(w) \/ Apply(w) \/ StopTimer(w) \/ Unlock(w)
    <3>1. Arrived(w)' = Arrived(w)
      <4>1. CASE Lock(w)
        BY <4>1 DEF Lock, Arrived, TypeOK
      <4>2. CASE Leave(w)
        BY <4>2 DEF Leave, Arrived, TypeOK
      <4>3. CASE Apply(w)
        BY <4>3 DEF Apply, Arrived, TypeOK
      <4>4. CASE StopTimer(w)
        BY <4>4 DEF StopTimer, Arrived, TypeOK
      <4>5. CASE Unlock(w)
        BY <4>5 DEF Unlock, Arrived, TypeOK
      <4> QED
        BY <2>3, <4>1, <4>2, <4>3, <4>4, <4>5
    <3>2. Arrivals' = Arrivals
      BY <2>1, <3>1 DEF Arrivals
    <3>3. barrier' = barrier
      BY <2>3 DEF Lock, Leave, Apply, StopTimer, Unlock
    <3> QED
      BY <3>2, <3>3 DEF CounterInv
  <2> QED
    BY <1>2, <2>2, <2>3 DEF Worker
<1>3. CASE MainOnly
  BY <1>3 DEF MainOnly, CounterInv, Arrivals, Arrived
<1> QED
  BY <1>1, <1>2, <1>3, MainOnlySteps

-----------------------------------------------------------------------------
(* Every step preserves what has been collected. *)

\* A finished worker's vector holds a measurement of every round, or zeros.
LEMMA CopiedMeasurements ==
    ASSUME TypeOK, WorkerInv, ResultsInv, NEW w \in Workers, pc[w] = "done"
    PROVE  /\ Copied(w) \in Seq(Entries)
           /\ Len(Copied(w)) = Iterations
           /\ \A i \in 1 .. Iterations : Copied(w)[i] = Measurement(w, i)
<1> USE ConstantTypes
<1>1. \A i \in Rounds :
          results[w][i] = IF Supported THEN "measured" ELSE "zero"
  <2>1. CASE Supported
    <3>1. \A i \in Rounds : i < iter[w]
      BY <2>1 DEF WorkerInv, Required
    <3> QED
      BY <2>1, <3>1 DEF ResultsInv
  <2>2. CASE ~Supported
    <3>1. \A i \in Rounds : i > iter[w] \/ i = iter[w]
      BY <2>2 DEF WorkerInv, Required
    <3> QED
      BY <2>2, <3>1 DEF ResultsInv
  <2> QED
    BY <2>1, <2>2
<1>2. \A i \in 1 .. Iterations :
          [rank |-> w, round |-> i, value |-> results[w][i]] = Measurement(w, i)
  BY <1>1 DEF Measurement
<1>3. \A i \in 1 .. Iterations : Measurement(w, i) \in Entries
  BY DEF Measurement, Entries, Cells
<1>4. Copied(w) = [i \in 1 .. Iterations |-> Measurement(w, i)]
  BY <1>2 DEF Copied
<1>5. Copied(w) \in Seq(Entries)
  BY <1>3, <1>4
<1>6. Len(Copied(w)) = Iterations
  BY <1>4
<1> QED
  BY <1>4, <1>5, <1>6

LEMMA CollectedStep ==
    ASSUME TypeOK, WorkerInv, ResultsInv, MainInv, CollectedInv, Next
    PROVE  CollectedInv'
<1> USE ConstantTypes
<1> DEFINE Copies(seq, n) ==
        /\ Len(seq) = n * Iterations
        /\ \A w \in Workers : w < n =>
               \A i \in 1 .. Iterations :
                   seq[w * Iterations + i] = Measurement(w, i)
<1>0. Copies(collected, Gathered)
  BY DEF CollectedInv
<1>1. CASE Collect
  <2>1. pc[next] = "done" /\ next \in Workers /\ main = "collect"
    BY <1>1 DEF Collect, MainInv, TypeOK
  <2>2. /\ Copied(next) \in Seq(Entries)
        /\ Len(Copied(next)) = Iterations
        /\ \A i \in 1 .. Iterations : Copied(next)[i] = Measurement(next, i)
    BY <2>1, CopiedMeasurements
  <2>3. Len(collected) = next * Iterations /\ collected \in Seq(Entries)
        /\ next * Iterations \in Nat
    BY <1>0, <2>1 DEF Gathered, TypeOK
  <2>4. Len(collected') = next * Iterations + Iterations
    BY <1>1, <2>2, <2>3, ConcatProperties DEF Collect
  <2>5. \A k \in 1 .. next * Iterations + Iterations :
            collected'[k] = IF k <= next * Iterations THEN collected[k]
                            ELSE Copied(next)[k - next * Iterations]
    <3>1. \A k \in 1 .. Len(collected) + Len(Copied(next)) :
              (collected \o Copied(next))[k] =
                  IF k <= Len(collected) THEN collected[k]
                  ELSE Copied(next)[k - Len(collected)]
      BY <2>2, <2>3, ConcatProperties
    <3>2. collected' = collected \o Copied(next)
      BY <1>1 DEF Collect
    <3> QED
      BY <2>2, <2>3, <3>1, <3>2
  <2>6. ASSUME NEW w \in Workers, w < next + 1, NEW i \in 1 .. Iterations
        PROVE  collected'[w * Iterations + i] = Measurement(w, i)
    <3>1. w * Iterations \in Nat
      OBVIOUS
    <3>2. CASE w < next
      <4>1. w * Iterations + Iterations <= next * Iterations
        BY <2>1, <3>2, MultiplesApart
      <4>2. w * Iterations + i \in 1 .. next * Iterations
        BY <2>3, <3>1, <4>1
      <4>3. collected'[w * Iterations + i] = collected[w * Iterations + i]
        BY <2>3, <2>5, <4>2
      <4> QED
        BY <1>0, <2>1, <3>2, <4>3 DEF Gathered
    <3>3. CASE w = next
      <4>1. next * Iterations + i \in 1 .. next * Iterations + Iterations
            /\ ~(next * Iterations + i <= next * Iterations)
            /\ (next * Iterations + i) - next * Iterations = i
        BY <2>3
      <4>2. collected'[next * Iterations + i] = Copied(next)[i]
        BY <2>5, <4>1
      <4> QED
        BY <2>2, <3>3, <4>2
    <3> QED
      BY <2>1, <2>6, <3>2, <3>3
  <2>7. Gathered' = next + 1
    <3>1. CASE main' = "collect"
      BY <1>1, <2>1, <3>1, AdvanceType DEF Collect, Gathered
    <3>2. CASE main' = "combine"
      BY <1>1, <2>1, <3>2, AdvanceType DEF Collect, Gathered
    <3> QED
      BY <1>1, <2>1, <3>1, <3>2, AdvanceType DEF Collect
  <2>8. (next + 1) * Iterations = next * Iterations + Iterations
    BY <2>1
  <2>9. problem' = problem
    BY <1>1 DEF Collect
  <2> QED
    BY <2>4, <2>6, <2>7, <2>8, <2>9 DEF CollectedInv, Measurement, Supported
<1>2. CASE ~Collect
  <2>1. collected' = collected /\ problem' = problem
    BY <1>2 DEF Next, Main, StartThread, Join, Combine, StartFails, JoinFails,
       UseAfterFree, Worker, Lock, Arrive, Leave, Apply, StopTimer, Unlock, mainVars
  <2>2. Gathered' = Gathered
    <3>1. CASE StartThread
      BY <3>1, Phases DEF Gathered, TypeOK
    <3>2. CASE Join
      BY <3>2, Phases DEF Gathered, TypeOK
    <3>3. CASE Combine
      BY <3>3 DEF Combine, Gathered
    <3>4. CASE StartFails \/ JoinFails
      BY <3>4 DEF StartFails, JoinFails, Gathered
    <3>5. CASE \E w \in Workers : Worker(w)
      BY <3>5 DEF Worker, Lock, Arrive, Leave, Apply, StopTimer, Unlock, mainVars,
         Gathered
    <3>6. CASE \E w \in Workers : UseAfterFree(w)
      BY <3>6 DEF UseAfterFree, Gathered
    <3> QED
      BY <1>2, <3>1, <3>2, <3>3, <3>4, <3>5, <3>6 DEF Next, Main
  <2> QED
    BY <2>1, <2>2 DEF CollectedInv, Measurement, Supported
<1> QED
  BY <1>1, <1>2

\* Combining reads the entry of the same round of every rank.
LEMMA RowsStep ==
    ASSUME TypeOK, CollectedInv, RowsCombineTheirRound, Next
    PROVE  RowsCombineTheirRound'
<1> USE ConstantTypes
<1>1. CASE Combine
  <2>1. ASSUME NEW i \in 0 .. Iterations - 1, NEW t \in Workers
        PROVE  collected[t * Iterations + i + 1] = Measurement(t, i + 1)
    <3>1. Gathered = Parallelism
      BY <1>1 DEF Combine, Gathered
    <3>2. i + 1 \in 1 .. Iterations /\ t < Gathered
      BY <3>1
    <3>3. t * Iterations + (i + 1) = t * Iterations + i + 1
      OBVIOUS
    <3>4. collected[t * Iterations + (i + 1)] = Measurement(t, i + 1)
      BY <3>2 DEF CollectedInv
    <3> QED
      BY <3>3, <3>4
  <2>2. \A i \in 0 .. Iterations - 1 :
            {collected[t * Iterations + i + 1] : t \in Workers}
                = {Measurement(t, i + 1) : t \in Workers}
    BY <2>1
  <2>3. combined' = [i \in 0 .. Iterations - 1 |->
                        {collected[t * Iterations + i + 1] : t \in Workers}]
    BY <1>1 DEF Combine
  <2>4. combined' = [i \in 0 .. Iterations - 1 |->
                        {Measurement(t, i + 1) : t \in Workers}]
    BY <2>2, <2>3
  <2>5. problem' = problem
    BY <1>1 DEF Combine
  <2> QED
    BY <2>4, <2>5 DEF RowsCombineTheirRound, Measurement, Supported
<1>2. CASE ~Combine
  <2>1. /\ combined' = combined /\ problem' = problem
        /\ main' = "reported" => main = "reported"
    <3>1. CASE StartThread
      BY <3>1, Phases DEF StartThread, TypeOK
    <3>2. CASE Join
      BY <3>2, Phases DEF Join, TypeOK
    <3>3. CASE Collect
      BY <3>3, Phases DEF Collect, TypeOK
    <3>4. CASE StartFails \/ JoinFails
      BY <3>4 DEF StartFails, JoinFails
    <3>5. CASE \E w \in Workers : Worker(w)
      BY <3>5 DEF Worker, Lock, Arrive, Leave, Apply, StopTimer, Unlock, mainVars
    <3>6. CASE \E w \in Workers : UseAfterFree(w)
      BY <3>6 DEF UseAfterFree
    <3> QED
      BY <1>2, <3>1, <3>2, <3>3, <3>4, <3>5, <3>6 DEF Next, Main
  <2> QED
    BY <2>1 DEF RowsCombineTheirRound, Supported
<1> QED
  BY <1>1, <1>2

-----------------------------------------------------------------------------
(* The invariant and what follows from it. *)

LEMMA InitInvariant == Init => IInv
<1> USE ConstantTypes
<1> SUFFICES ASSUME Init
             PROVE  IInv
  OBVIOUS
<1>1. TypeOK
  <2>1. Parallelism \in -(IntMax + 1) .. IntMax
    <3>1. Parallelism * (Iterations + 2) = Parallelism * Iterations + 2 * Parallelism
      OBVIOUS
    <3>2. Parallelism * Iterations \in Nat
      OBVIOUS
    <3> QED
      BY <3>1, <3>2, CounterFits
  <2>2. collected \in Seq(Entries)
    BY EmptySeq DEF Init
  <2> QED
    BY <2>1, <2>2 DEF Init, TypeOK, Cells
<1>2. WorkerInv
  BY DEF Init, WorkerInv, Working
<1>3. ResultsInv
  BY DEF Init, ResultsInv
<1>4. MainInv
  BY DEF Init, MainInv
<1>5. CounterInv
  <2>1. Arrivals = {}
    BY DEF Init, Arrivals, Arrived
  <2> QED
    BY <2>1, FS_EmptySet DEF Init, CounterInv
<1>6. CollectedInv
  BY EmptySeq DEF Init, CollectedInv, Gathered
<1>7. RowsCombineTheirRound
  BY DEF Init, RowsCombineTheirRound
<1> QED
  BY <1>1, <1>2, <1>3, <1>4, <1>5, <1>6, <1>7 DEF IInv

LEMMA StutterInvariant == IInv /\ UNCHANGED vars => IInv'
  BY DEF IInv, vars, TypeOK, WorkerInv, ResultsInv, MainInv, CounterInv, CollectedInv,
     RowsCombineTheirRound, Arrivals, Arrived, Gathered, Measurement, Required,
     Supported

\* The invariant holds in every reachable state.
THEOREM Invariance == Spec => []IInv
<1>1. (/\ IsFiniteSet(Arrivals)
       /\ Cardinality(Arrivals) \in Nat
       /\ Cardinality(Arrivals) <= Parallelism * (Iterations + 1))'
  BY ArrivalsBounded, PTL
<1>2. IInv /\ Next => IInv'
  <2> SUFFICES ASSUME IInv, Next
               PROVE  IInv'
    OBVIOUS
  <2> USE DEF IInv
  <2>1. TypeOK'
    BY TypeStep
  <2>2. WorkerInv'
    BY WorkerStep
  <2>3. ResultsInv'
    BY ResultsStep
  <2>4. MainInv'
    BY MainStep
  <2>5. CounterInv'
    BY <1>1, CounterStep
  <2>6. CollectedInv'
    BY CollectedStep
  <2>7. RowsCombineTheirRound'
    BY RowsStep
  <2> QED
    BY <2>1, <2>2, <2>3, <2>4, <2>5, <2>6, <2>7
<1>3. IInv /\ [Next]_vars => IInv'
  BY <1>2, StutterInvariant
<1> QED
  BY <1>3, InitInvariant, PTL DEF Spec, Safety

\* Every variable keeps its type, however many threads and rounds there are.
THEOREM TypeCorrect == Spec => []TypeOK
<1>1. IInv => TypeOK
  BY DEF IInv
<1> QED
  BY <1>1, Invariance, PTL

\* The busy waiting in synchronise ends at its first test for every worker, in
\* every interleaving: the counter never falls behind an iteration, and it does
\* not overflow.
THEOREM BarrierNeverBlocks == Spec => []NobodySpins
<1>1. IInv => NobodySpins
  <2> USE ConstantTypes
  <2> SUFFICES ASSUME IInv
               PROVE  NobodySpins
    OBVIOUS
  <2>1. barrier = Parallelism + Cardinality(Arrivals) /\ Cardinality(Arrivals) \in Nat
    BY ArrivalsBounded DEF IInv, CounterInv
  <2>2. ASSUME NEW w \in Workers, pc[w] = "spin"
        PROVE  barrier - iter[w] >= 0
    <3>1. iter[w] \in Nat /\ iter[w] <= Iterations
      BY <2>2 DEF IInv, WorkerInv, Working, TypeOK
    <3>2. {w} \X (0 .. iter[w]) \in SUBSET Arrivals
      BY <2>2, <3>1 DEF Arrivals, Arrived
    <3>3. IsFiniteSet({w}) /\ Cardinality({w}) = 1
      BY FS_Singleton
    <3>4. IsFiniteSet(0 .. iter[w]) /\ Cardinality(0 .. iter[w]) = iter[w] + 1
      <4>1. 0 \in Int /\ iter[w] \in Int /\ ~(0 > iter[w])
        BY <3>1
      <4>2. /\ IsFiniteSet(0 .. iter[w])
            /\ Cardinality(0 .. iter[w]) = IF 0 > iter[w] THEN 0 ELSE iter[w] - 0 + 1
        BY <4>1, FS_Interval
      <4> QED
        BY <4>1, <4>2
    <3>5. Cardinality({w} \X (0 .. iter[w])) = 1 * (iter[w] + 1)
      <4>1. Cardinality({w} \X (0 .. iter[w])) = Cardinality({w}) * Cardinality(0 .. iter[w])
        BY <3>3, <3>4, FS_Product, Zenon
      <4> QED
        BY <3>3, <3>4, <4>1
    <3>6. Cardinality({w} \X (0 .. iter[w])) <= Cardinality(Arrivals)
      BY <3>2, ArrivalsBounded, FS_Subset
    <3> QED
      BY <2>1, <3>1, <3>5, <3>6
  <2> QED
    BY <2>1, <2>2 DEF NobodySpins
<1> QED
  BY <1>1, Invariance, PTL

\* Concurrent workers never access the same element, nor one that was not
\* allocated, for every problem size, thread count and access pattern.
THEOREM NoRacesOnArrays == Spec => []NoSharedElements
<1>1. IInv => NoSharedElements
  <2> USE ConstantTypes
  <2> SUFFICES ASSUME IInv
               PROVE  NoSharedElements
    OBVIOUS
  <2>1. problem.size \in Nat \ {0} /\ problem.pattern \in Patterns
    BY ProblemType DEF IInv
  <2>2. \A w \in Workers : pc[w] = "apply" =>
            pos[w] \in Positions(problem.pattern, problem.size, Parallelism)
    BY DEF IInv, WorkerInv
  <2>3. ASSUME NEW v \in Workers, pc[v] = "apply"
        PROVE  ElementOf(v) \in 0 .. Allocated(problem.size, Parallelism) - 1
    BY <2>1, <2>2, <2>3, RanksInBounds DEF ElementOf
  <2>4. ASSUME NEW v \in Workers, pc[v] = "apply",
               NEW w \in Workers \ {v}, pc[w] = "apply"
        PROVE  ElementOf(v) # ElementOf(w)
    BY <2>1, <2>2, <2>4, RanksDisjoint DEF ElementOf
  <2> QED
    BY <2>3, <2>4 DEF NoSharedElements
<1> QED
  BY <1>1, Invariance, PTL

\* Every row of a reported result combines the measurements of its own round.
THEOREM ResultsAreComplete == Spec => []RowsCombineTheirRound
<1>1. IInv => RowsCombineTheirRound
  BY DEF IInv
<1> QED
  BY <1>1, Invariance, PTL

\* A job that reports a result destroys no worker whose thread is running.
THEOREM ObjectsAreJoined == Spec => []ObjectsOutliveThreads
<1>1. IInv => ObjectsOutliveThreads
  BY DEF IInv, MainInv, WorkerInv, Working, ObjectsOutliveThreads
<1> QED
  BY <1>1, Invariance, PTL

\* The threads, the barrier and the join implement the job: a report is given
\* only when every worker has completed every round that the problem requires.
THEOREM WorkersImplementJob == Spec => Job!JobSafety
<1> USE ConstantTypes
<1>1. Init => Job!JobInit
  BY DEF Init, Job!JobInit, Ended, Supported
<1>2. IInv /\ [Next]_vars => [Job!JobNext]_(Job!jobVars)
  <2> SUFFICES ASSUME IInv, [Next]_vars
               PROVE  Job!JobNext \/ UNCHANGED Job!jobVars
    OBVIOUS
  <2> USE DEF Job!jobVars, Ended, Supported
  <2>1. CASE StartThread
    BY <2>1, Phases DEF StartThread, IInv, TypeOK
  <2>2. CASE Join
    BY <2>2, Phases DEF Join, IInv, TypeOK
  <2>3. CASE Collect
    BY <2>3, Phases DEF Collect, IInv, TypeOK
  <2>4. CASE Combine
    <3>1. \A w \in Workers : iter[w] = Required
      BY <2>4 DEF Combine, IInv, MainInv, WorkerInv
    <3>2. Job!Report
      BY <2>4, <3>1 DEF Combine, Required, Job!Report
    <3> QED
      BY <3>2 DEF Job!JobNext
  <2>5. CASE StartFails \/ JoinFails
    <3>1. Job!Fail
      BY <2>5 DEF StartFails, JoinFails, Job!Fail
    <3> QED
      BY <3>1 DEF Job!JobNext
  <2>6. ASSUME NEW w \in Workers, Worker(w)
        PROVE  Job!JobNext \/ UNCHANGED Job!jobVars
    <3>1. CASE StopTimer(w)
      <4>1. pc[w] = "stop" /\ iter' = [iter EXCEPT ![w] = @ + 1]
            /\ main' = main /\ problem' = problem
        BY <3>1 DEF StopTimer, mainVars
      <4>2. Supported /\ iter[w] < Iterations + 1
        BY <4>1 DEF IInv, WorkerInv, Working, TypeOK
      <4>3. main \notin {"reported", "crashed"}
        BY <2>6, <4>1 DEF IInv, MainInv, Worker
      <4>4. Job!Complete(w)
        BY <4>1, <4>2, <4>3 DEF Job!Complete, IInv, TypeOK
      <4> QED
        BY <4>4 DEF Job!JobNext
    <3>2. CASE ~StopTimer(w)
      BY <2>6, <3>2 DEF Worker, Lock, Arrive, Leave, Apply, Unlock, mainVars
    <3> QED
      BY <3>1, <3>2
  <2>7. ASSUME NEW w \in Workers, UseAfterFree(w)
        PROVE  Job!JobNext \/ UNCHANGED Job!jobVars
    <3>1. Job!Crash
      BY <2>7 DEF UseAfterFree, Job!Crash
    <3> QED
      BY <3>1 DEF Job!JobNext
  <2>8. CASE UNCHANGED vars
    BY <2>8 DEF vars
  <2> QED
    BY <2>1, <2>2, <2>3, <2>4, <2>5, <2>6, <2>7, <2>8 DEF Next, Main
<1> QED
  BY <1>1, <1>2, Invariance, PTL DEF Spec, Safety, Job!JobSafety

-----------------------------------------------------------------------------
(* How many elements a worker processes per round. *)

\* The loop of step<N>::apply has run n times: it ends with the first counter
\* that is not below N.
RoundInv ==
    \A w \in Workers : pc[w] = "stop" =>
        \E n \in 1 .. problem.size :
            /\ pos[w] = n * Stride
            /\ (n - 1) * Stride < problem.size
            /\ problem.size <= n * Stride

LEMMA RoundStep ==
    ASSUME IInv, RoundInv, [Next]_vars
    PROVE  RoundInv'
<1> USE ConstantTypes
<1>1. problem' = problem
  BY DEF Next, vars, mainVars, Main, StartThread, StartFails, Join, JoinFails, Collect, Combine,
         Worker, Lock, Arrive, Leave, Apply, StopTimer, Unlock, UseAfterFree
<1>2. problem.size \in Nat \ {0} /\ Stride \in Nat \ {0}
  BY ProblemType DEF IInv, Stride, Step
<1>3. SUFFICES ASSUME NEW w \in Workers, pc'[w] = "stop"
               PROVE  \E n \in 1 .. problem.size :
                          /\ pos'[w] = n * Stride
                          /\ (n - 1) * Stride < problem.size
                          /\ problem.size <= n * Stride
  BY <1>1 DEF RoundInv, Stride
<1>4. CASE pc[w] = "stop" /\ pos'[w] = pos[w]
  BY <1>4 DEF RoundInv
<1>5. CASE Apply(w)
  <2>1. /\ pos[w] \in Positions(problem.pattern, problem.size, Parallelism)
        /\ pos'[w] = pos[w] + Stride /\ problem.size <= pos[w] + Stride
    <3>1. pc[w] = "apply" /\ pos[w] \in Nat /\ pos'[w] = pos[w] + Stride
      BY <1>5 DEF Apply, IInv, TypeOK
    <3>2. ~(pos[w] + Stride < problem.size)
      BY <1>3, <1>5 DEF Apply, IInv, TypeOK
    <3> QED
      BY <1>2, <3>1, <3>2 DEF IInv, WorkerInv
  <2>2. PICK k \in 0 .. problem.size - 1 : pos[w] = k * Stride /\ pos[w] < problem.size
    BY <1>2, <2>1 DEF Positions, Stride
  <2>3. k * Stride + Stride = (k + 1) * Stride /\ k + 1 \in 1 .. problem.size
    BY <1>2
  <2> QED
    BY <1>2, <2>1, <2>2, <2>3
<1>6. ASSUME ~Apply(w), ~(pc[w] = "stop" /\ pos'[w] = pos[w]) PROVE FALSE
  <2>1. CASE \E v \in Workers \ {w} : Worker(v)
    BY <1>3, <1>6, <2>1, OthersUnchanged DEF IInv
  <2>2. CASE Worker(w)
    BY <1>3, <1>6, <2>2
    DEF Worker, Lock, Arrive, Leave, StopTimer, Unlock, IInv, TypeOK
  <2>3. CASE StartThread
    BY <1>3, <1>6, <2>3 DEF StartThread, IInv, TypeOK
  <2>4. CASE MainOnly \/ UNCHANGED vars
    BY <1>3, <1>6, <2>4 DEF MainOnly, vars
  <2> QED
    BY <2>1, <2>2, <2>3, <2>4, MainOnlySteps
<1> QED
  BY <1>4, <1>5, <1>6

\* After the loop of a round a worker has processed the number of elements by
\* which steps of the size of its stride get past the problem size, no more and
\* no less.
THEOREM RoundsEndAtProblemSize == Spec => []RoundInv
<1>1. Init => RoundInv
  BY DEF Init, RoundInv
<1>2. IInv /\ RoundInv /\ [Next]_vars => RoundInv'
  BY RoundStep
<1> QED
  BY <1>1, <1>2, Invariance, PTL DEF Spec, Safety

\* A worker processes as many elements as the problem size says if its accesses
\* are one element apart, and only then (or if there is just one element): the
\* interleaved pattern with several threads never does.
THEOREM WholeProblemNeedsUnitStride ==
    Spec => [](\A w \in Workers : pc[w] = "stop" =>
                  (pos[w] = problem.size * Stride <=> Stride = 1 \/ problem.size = 1))
<1>1. IInv /\ RoundInv =>
          \A w \in Workers : pc[w] = "stop" =>
              (pos[w] = problem.size * Stride <=> Stride = 1 \/ problem.size = 1)
  <2> SUFFICES ASSUME IInv, RoundInv, NEW w \in Workers, pc[w] = "stop"
               PROVE  pos[w] = problem.size * Stride <=> Stride = 1 \/ problem.size = 1
    OBVIOUS
  <2>1. problem.size \in Nat \ {0} /\ Stride \in Nat \ {0}
    BY ConstantTypes, ProblemType DEF IInv, Stride, Step
  <2>2. PICK n \in 1 .. problem.size : /\ pos[w] = n * Stride
                                       /\ (n - 1) * Stride < problem.size
                                       /\ problem.size <= n * Stride
    BY DEF RoundInv
  <2>3. CASE n < problem.size
    <3>1. n * Stride + Stride <= problem.size * Stride
      BY <2>1, <2>3, MultiplesApart
    <3>2. n * Stride \in Nat /\ problem.size * Stride \in Nat
      BY <2>1
    <3>3. Stride # 1 /\ problem.size # 1
      BY <2>1, <2>2, <2>3
    <3> QED
      BY <2>1, <2>2, <3>1, <3>2, <3>3
  <2>4. CASE n = problem.size
    <3>1. Stride = 1 \/ problem.size = 1
      <4> SUFFICES ASSUME Stride >= 2, problem.size >= 2 PROVE FALSE
        BY <2>1
      <4>1. (problem.size - 1) * Stride = (problem.size - 1) * (Stride - 2) + 2 * (problem.size - 1)
        BY <2>1
      <4>2. (problem.size - 1) * (Stride - 2) >= 0
        BY <2>1
      <4>3. (problem.size - 1) * (Stride - 2) \in Int
        BY <2>1
      <4> QED
        BY <2>1, <2>2, <2>4, <4>1, <4>2, <4>3
    <3> QED
      BY <2>2, <2>4, <3>1
  <2> QED
    BY <2>1, <2>2, <2>3, <2>4
<1> QED
  BY <1>1, RoundsEndAtProblemSize, Invariance, PTL

\* The comment on step holds for the contiguous pattern.
THEOREM ContiguousProcessesWholeProblem ==
    Spec => [](problem.pattern = "contiguous" => WholeProblemProcessed)
<1>1. (\A w \in Workers : pc[w] = "stop" =>
           (pos[w] = problem.size * Stride <=> Stride = 1 \/ problem.size = 1))
      => (problem.pattern = "contiguous" => WholeProblemProcessed)
  BY DEF Stride, Step, WholeProblemProcessed
<1> QED
  BY <1>1, WholeProblemNeedsUnitStride, PTL
=============================================================================
