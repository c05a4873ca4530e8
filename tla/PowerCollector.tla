--------------------------- MODULE PowerCollector ---------------------------
(***************************************************************************)
(* trrojan::power_collector: the thread of the benchmark names what is     *)
(* being measured, while a sampler thread polls sensors and the threads of *)
(* sensor libraries call back with measurements.  They share a buffer,     *)
(* which is written to the log with the current description.               *)
(*                                                                         *)
(* trrojan.cpp creates one collector and starts it; it is stopped when the *)
(* program ends, also if that is because starting it has failed.           *)
(***************************************************************************)
EXTENDS Integers, Sequences

CONSTANTS
    Sampler,       \* the sampler thread
    Callbacks,     \* the threads in which sensors call on_measurement
    MaxScopes,     \* bound: how many unique descriptions are used
    MaxSamples     \* bound: how many samples are taken

ASSUME CollectorAssumption ==
    /\ Sampler \notin Callbacks
    /\ {"none", "main"} \cap ({Sampler} \cup Callbacks) = {}
    /\ MaxScopes \in Nat /\ MaxSamples \in Nat

VARIABLES
    main,            \* what the thread of the benchmark does next
    argument,        \* the argument of set_description
    unique_id,       \* _unique_identifier
    description,     \* _description; 0 is the empty string
    is_collecting, is_running,
    registered,      \* have the sensors got the callback?
    lock,            \* _lock is held by a thread, by "main" or by "none"
    pc,              \* pc[t]: what thread t does next
    taken,           \* how many samples have been taken
    buffer,          \* _buffer, samples: who took it, under which description
    lines            \* _stream: samples with the description written beside

vars == <<main, argument, unique_id, description, is_collecting, is_running,
          registered, lock, pc, taken, buffer, lines>>

Threads == {Sampler} \cup Callbacks

Init ==
    /\ main = "new"
    /\ argument = 0
    /\ unique_id = 0
    /\ description = 0
    /\ is_collecting = FALSE
    /\ is_running = FALSE
    /\ registered = FALSE
    /\ lock = "none"
    /\ pc = [t \in Threads |-> IF t = Sampler THEN "end" ELSE "check"]
    /\ taken = 0
    /\ buffer = <<>>
    /\ lines = <<>>

-----------------------------------------------------------------------------
(* The thread of the benchmark.                                             *)

\* start
Start ==
    /\ main = "new"
    /\ is_running' = TRUE
    /\ registered' = TRUE
    /\ pc' = [pc EXCEPT ![Sampler] = "check"]
    /\ main' = "ready"
    /\ UNCHANGED <<argument, unique_id, description, is_collecting, lock, taken,
                   buffer, lines>>

\* The file cannot be opened, or a sensor cannot be started: the collector keeps
\* claiming that it is running until it is stopped.
StartFails ==
    /\ main = "new"
    /\ is_running' = TRUE
    /\ registered' \in BOOLEAN
    /\ main' = "stop"
    /\ UNCHANGED <<argument, unique_id, description, is_collecting, lock, pc, taken,
                   buffer, lines>>

\* set_next_unique_description calls set_description with a new identifier.  The
\* scope before may still be active if its benchmark has thrown an exception.
EnterScope ==
    /\ main = "ready"
    /\ unique_id < MaxScopes
    /\ unique_id' = unique_id + 1
    /\ argument' = unique_id + 1
    /\ main' = "set"
    /\ UNCHANGED <<description, is_collecting, is_running, registered, lock, pc, taken,
                   buffer, lines>>

\* set_description("")
LeaveScope ==
    /\ main = "ready"
    /\ description # 0
    /\ argument' = 0
    /\ main' = "set"
    /\ UNCHANGED <<unique_id, description, is_collecting, is_running, registered, lock,
                   pc, taken, buffer, lines>>

\* Variant: set_description does without the lock.
SetUnlocked ==
    /\ main = "set"
    /\ is_collecting' = (argument # 0)
    /\ main' = "describe"
    /\ UNCHANGED <<argument, unique_id, description, is_running, registered, lock, pc,
                   taken, buffer, lines>>

\* set_description takes the lock and enables or disables the collection.
SetCollecting ==
    /\ main = "set"
    /\ lock = "none"
    /\ lock' = "main"
    /\ is_collecting' = (argument # 0)
    /\ main' = "describe"
    /\ UNCHANGED <<argument, unique_id, description, is_running, registered, pc, taken,
                   buffer, lines>>

\* flush_buffer, with description d.
Flush(d) ==
    /\ lines' = lines \o [i \in 1 .. Len(buffer) |->
                             [by |-> buffer[i].by, scope |-> buffer[i].scope,
                              description |-> d]]
    /\ buffer' = <<>>

\* Variant: the new description is stored before the buffer is flushed.
DescribeThenFlush ==
    /\ main = "describe"
    /\ Flush(argument)
    /\ description' = argument
    /\ lock' = "none"
    /\ main' = "ready"
    /\ UNCHANGED <<argument, unique_id, is_collecting, is_running, registered, pc, taken>>

\* The rest of set_description.
FlushThenDescribe ==
    /\ main = "describe"
    /\ Flush(description)
    /\ description' = argument
    /\ lock' = "none"
    /\ main' = "ready"
    /\ UNCHANGED <<argument, unique_id, is_collecting, is_running, registered, pc, taken>>

\* The program ends.
End ==
    /\ main = "ready"
    /\ main' = "stop"
    /\ UNCHANGED <<argument, unique_id, description, is_collecting, is_running,
                   registered, lock, pc, taken, buffer, lines>>

\* Variant: the thread is not told to exit.
StopSensorsOnly ==
    /\ main = "stop"
    /\ main' = "unregister"
    /\ UNCHANGED <<argument, unique_id, description, is_collecting, is_running,
                   registered, lock, pc, taken, buffer, lines>>

\* stop: tell the thread to exit.
Stop ==
    /\ main = "stop"
    /\ is_running' = FALSE
    /\ main' = "unregister"
    /\ UNCHANGED <<argument, unique_id, description, is_collecting, registered, lock, pc,
                   taken, buffer, lines>>

\* stop: unregister the callbacks.  This relies on the library: no callback is
\* running any more when it returns.
Unregister ==
    /\ main = "unregister"
    /\ \A t \in Callbacks : pc[t] = "check"
    /\ registered' = FALSE
    /\ main' = "join"
    /\ UNCHANGED <<argument, unique_id, description, is_collecting, is_running, lock, pc,
                   taken, buffer, lines>>

\* Variant: the thread is detached instead.
Detach ==
    /\ main = "join"
    /\ main' = "flush"
    /\ UNCHANGED <<argument, unique_id, description, is_collecting, is_running,
                   registered, lock, pc, taken, buffer, lines>>

\* stop: wait for the thread, if there is one.
Join ==
    /\ main = "join"
    /\ pc[Sampler] = "end"
    /\ main' = "flush"
    /\ UNCHANGED <<argument, unique_id, description, is_collecting, is_running,
                   registered, lock, pc, taken, buffer, lines>>

\* stop: the remaining data are written, without taking the lock.
FlushRest ==
    /\ main = "flush"
    /\ Flush(description)
    /\ main' = "done"
    /\ UNCHANGED <<argument, unique_id, description, is_collecting, is_running,
                   registered, lock, pc, taken>>

-----------------------------------------------------------------------------
(* The sampler and the callbacks.                                           *)

\* sample: the loop ends.
Exit ==
    /\ pc[Sampler] = "check"
    /\ ~is_running
    /\ pc' = [pc EXCEPT ![Sampler] = "end"]
    /\ UNCHANGED <<main, argument, unique_id, description, is_collecting, is_running,
                   registered, lock, taken, buffer, lines>>

\* Variant: a thread takes samples as long as the collector is running.
CheckRunning(t) ==
    /\ pc[t] = "check"
    /\ IF t = Sampler THEN is_running ELSE registered
    /\ taken < MaxSamples
    /\ taken' = taken + 1
    /\ pc' = [pc EXCEPT ![t] = "lock"]
    /\ UNCHANGED <<main, argument, unique_id, description, is_collecting, is_running,
                   registered, lock, buffer, lines>>

\* sample and on_measurement: a thread finds that samples are being collected.
\* The sampler comes to this point only while the collector is running.
Check(t) ==
    /\ pc[t] = "check"
    /\ IF t = Sampler THEN is_running ELSE registered
    /\ is_collecting
    /\ taken < MaxSamples
    /\ taken' = taken + 1
    /\ pc' = [pc EXCEPT ![t] = "lock"]
    /\ UNCHANGED <<main, argument, unique_id, description, is_collecting, is_running,
                   registered, lock, buffer, lines>>

Lock(t) ==
    /\ pc[t] = "lock"
    /\ lock = "none"
    /\ lock' = t
    /\ pc' = [pc EXCEPT ![t] = "push"]
    /\ UNCHANGED <<main, argument, unique_id, description, is_collecting, is_running,
                   registered, taken, buffer, lines>>

\* The sampler reads its sensors, the callback has a measurement already; one
\* sample stands for those of all sensors.
Push(t) ==
    /\ pc[t] = "push"
    /\ buffer' = Append(buffer, [by |-> t, scope |-> description])
    /\ lock' = "none"
    /\ pc' = [pc EXCEPT ![t] = "check"]
    /\ UNCHANGED <<main, argument, unique_id, description, is_collecting, is_running,
                   registered, taken, lines>>

Main == \/ Start \/ StartFails \/ EnterScope \/ LeaveScope
        \/ SetCollecting \/ FlushThenDescribe
        \/ End \/ Stop \/ Unregister \/ Join \/ FlushRest

Thread(t) == Check(t) \/ Lock(t) \/ Push(t)

Next == Main \/ Exit \/ \E t \in Threads : Thread(t)

\* Threads go on unless they wait for the lock or for each other.  Sensors are
\* sampled every few milliseconds and the lock is held for much less, so no
\* thread keeps others from it; MaxSamples stands for that.
Finish == SetCollecting \/ FlushThenDescribe \/ Stop \/ Unregister \/ Join \/ FlushRest
Fairness ==
    /\ WF_vars(Finish)
    /\ WF_vars(Exit)
    /\ \A t \in Threads : WF_vars(Lock(t) \/ Push(t))

Spec == Init /\ [][Next]_vars /\ Fairness
-----------------------------------------------------------------------------
(* Properties.                                                              *)

Sample == [by : Threads, scope : Nat]
Line == [by : Threads, scope : Nat, description : Nat]

\* The types of all variables; the lock is held by whoever uses it.
TypeOK ==
    /\ main \in {"new", "ready", "set", "describe", "stop", "unregister", "join",
                 "flush", "done"}
    /\ argument \in Nat /\ unique_id \in Nat /\ description \in Nat
    /\ is_collecting \in BOOLEAN /\ is_running \in BOOLEAN /\ registered \in BOOLEAN
    /\ lock \in {"none", "main"} \cup Threads
    /\ pc \in [Threads -> {"check", "lock", "push", "end"}]
    /\ \A t \in Threads : lock = t <=> pc[t] = "push"
    /\ lock = "main" <=> main = "describe"
    /\ taken \in Nat
    /\ buffer \in Seq(Sample)
    /\ lines \in Seq(Line)

\* What is written is written with the description that was valid when the
\* sample went into the buffer (set_description: "flush all data with the old
\* description"), whichever thread took it and whenever it is written.
LinesKeepDescription ==
    \A i \in 1 .. Len(lines) : lines[i].description = lines[i].scope

\* The thread of the benchmark does not touch the buffer while another one
\* does, not even in stop, where it does not hold the lock.
BufferIsExclusive ==
    main \in {"describe", "flush"} => \A t \in Threads : pc[t] # "push"

\* After stop nobody collects, and all samples have been written ("wait for all
\* asynchronous processing to end").
StoppedForGood ==
    main = "done" =>
        /\ buffer = <<>>
        /\ pc[Sampler] = "end"
        /\ \A t \in Callbacks : pc[t] = "check" /\ ~registered

\* stop returns, whatever the other threads are doing.
StopReturns == main = "stop" ~> main = "done"

\* While the description is empty, a thread that had been taking a sample may still
\* store it, but no thread stores a second one: what is stored although collecting
\* has been disabled is at most one sample of each thread.
OneLateSampleEach ==
    description = 0 =>
        \A i, k \in 1 .. Len(buffer) : buffer[i].by = buffer[k].by => i = k

\* "Setting an empty descriptions will disable the collection of data until a
\* new non-empty string is set. The sensors will still run, but all samples will
\* be discarded." (power_collector.h, set_description)
DisabledDiscardsSamples ==
    \A i \in 1 .. Len(lines) : lines[i].description # 0
=============================================================================
