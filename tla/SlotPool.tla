------------------------------ MODULE SlotPool ------------------------------
(***************************************************************************)
(* What the streaming context promises: a slot is handed to the CPU only   *)
(* while it is free; when the CPU is done it goes to the GPU; and it is    *)
(* free again only after that.  How slots are counted and how the CPU      *)
(* learns that one is free do not appear here.                             *)
(***************************************************************************)
VARIABLES owner    \* owner[b]: who may use slot b: "free", "cpu" or "gpu"

PoolInit == owner = <<>>

\* The pool is built anew, with as many slots as the configuration asks for.
Renew == \A b \in DOMAIN owner' : owner'[b] = "free"

Acquire(b) == owner[b] = "free" /\ owner' = [owner EXCEPT ![b] = "cpu"]

Submit(b) == owner[b] = "cpu" /\ owner' = [owner EXCEPT ![b] = "gpu"]

\* The GPU gets past a point in its queue: the slots used up to there are free.
Finish(slots) ==
    /\ \A b \in slots : owner[b] = "gpu"
    /\ owner' = [b \in DOMAIN owner |-> IF b \in slots THEN "free" ELSE owner[b]]

PoolNext ==
    \/ Renew
    \/ \E b \in DOMAIN owner : Acquire(b) \/ Submit(b)
    \/ \E slots \in SUBSET DOMAIN owner : Finish(slots)

PoolSpec == PoolInit /\ [][PoolNext]_owner
=============================================================================
