--------------------------- MODULE AccessPattern ---------------------------
(***************************************************************************)
(* How the ranks of a stream job divide the arrays a, b and c among them:  *)
(* trrojanstream/include/trrojan/stream/access_pattern.h.  A worker of     *)
(* rank r accesses the elements Element(..., i) for i = 0, Step, 2 * Step, *)
(* ... below the problem size, which is the loop of worker_thread::step.   *)
(***************************************************************************)
EXTENDS Integers

Patterns == {"contiguous", "interleaved"}

\* Variant: the ranges of contiguous ranks overlap in one element.
OffsetOverlapping(pattern, size, rank) ==
    IF pattern = "contiguous" THEN rank * (size - 1) ELSE rank

\* access_pattern_traits<A, P>::offset(rank), with P the problem size.
Offset(pattern, size, rank) ==
    IF pattern = "contiguous" THEN rank * size ELSE rank

\* access_pattern_traits<A, P>::step(parallelism).
Step(pattern, parallelism) ==
    IF pattern = "contiguous" THEN 1 ELSE parallelism

\* The element which a worker accesses when its loop counter is i.
Element(pattern, size, rank, i) == Offset(pattern, size, rank) + i

\* The loop counters with which the body of the loop of step<N> runs.
Positions(pattern, size, parallelism) ==
    {i \in 0 .. size - 1 :
        \E k \in 0 .. size - 1 : i = k * Step(pattern, parallelism)}

\* problem::allocate: the number of elements in each of the three arrays.
Allocated(size, parallelism) == size * parallelism
=============================================================================
