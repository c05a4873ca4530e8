----------------------------- MODULE StreamJob -----------------------------
(***************************************************************************)
(* What stream_benchmark::run(config) promises its caller: every worker    *)
(* completes the rounds the problem requires, and a result is returned     *)
(* only when all of them have.  A job may fail instead (the thread library *)
(* refused a thread or a join), and only a failed job can take the process *)
(* down.  The barrier, the locks, the order in which threads are joined    *)
(* and how results are stored do not appear here.                          *)
(***************************************************************************)
EXTENDS Integers

CONSTANTS Workers,      \* the ranks of the job
          Rounds        \* rounds per worker when the size is a compiled one

VARIABLES required,     \* rounds each worker performs in this job
          done,         \* done[w]: rounds worker w has completed
          outcome       \* what the caller has seen so far

jobVars == <<required, done, outcome>>

JobInit ==
    /\ required \in {0, Rounds}
    /\ done = [w \in Workers |-> 0]
    /\ outcome = "running"

\* Worker w completes a round; its thread may still do so after the job has
\* failed, because nothing stops it.
Complete(w) ==
    /\ outcome \in {"running", "failed"}
    /\ done[w] < required
    /\ done' = [done EXCEPT ![w] = @ + 1]
    /\ UNCHANGED <<required, outcome>>

Report ==
    /\ outcome = "running"
    /\ \A w \in Workers : done[w] = required
    /\ outcome' = "reported"
    /\ UNCHANGED <<required, done>>

Fail ==
    /\ outcome = "running"
    /\ outcome' = "failed"
    /\ UNCHANGED <<required, done>>

Crash ==
    /\ outcome = "failed"
    /\ outcome' = "crashed"
    /\ UNCHANGED <<required, done>>

JobNext ==
    \/ \E w \in Workers : Complete(w)
    \/ Report
    \/ Fail
    \/ Crash

\* While the job runs something happens until the caller has an outcome.
Settle == outcome = "running" /\ JobNext

JobSafety == JobInit /\ [][JobNext]_jobVars

JobSpec == JobSafety /\ WF_jobVars(Settle)
=============================================================================
