------------------------- MODULE BatchLayoutProofs -------------------------
(***************************************************************************)
(* The batches of a frame are all spheres of the data set, each of them    *)
(* once, if the number of batches is that of the data set and batch size.  *)
(***************************************************************************)
EXTENDS BatchLayout, TLAPS

\* Where the last batch begins and how many spheres are left for it.
LEMMA LastBatch ==
    ASSUME NEW spheres \in Nat \ {0}, NEW size \in Nat \ {0},
           NEW total, total = TotalBatches(spheres, size)
    PROVE  /\ total \in Nat \ {0}
           /\ (total - 1) * size < spheres
           /\ (total - 1) * size + BatchElements(total, spheres, size, total - 1) = spheres
<1> DEFINE q == spheres \div size
           r == spheres % size
<1>1. q \in Nat /\ r \in 0 .. size - 1 /\ spheres = size * q + r
  OBVIOUS
<1>2. total = q + (IF r # 0 THEN 1 ELSE 0)
  BY DEF TotalBatches
<1>3. BatchElements(total, spheres, size, total - 1) = IF r > 0 THEN r ELSE size
  BY DEF BatchElements
<1> HIDE DEF q, r
<1>4. CASE r # 0
  <2>1. total - 1 = q /\ total \in Nat \ {0}
    BY <1>1, <1>2, <1>4
  <2> QED
    BY <1>1, <1>3, <1>4, <2>1
<1>5. CASE r = 0
  <2>1. total = q /\ spheres = size * q
    BY <1>1, <1>2, <1>5
  <2>2. q # 0
    BY <1>1, <2>1
  <2>3. (q - 1) * size = size * q - size
    BY <1>1
  <2> QED
    BY <1>1, <1>3, <1>5, <2>1, <2>2, <2>3
<1> QED
  BY <1>4, <1>5

\* Every batch but the last one is full, and is followed by the next one.
LEMMA NextBatchFollows ==
    ASSUME NEW total \in Nat \ {0}, NEW spheres \in Nat, NEW size \in Nat \ {0},
           NEW t \in 0 .. total - 2
    PROVE  BatchOffset(size, t) + BatchElements(total, spheres, size, t)
             = BatchOffset(size, t + 1)
  BY DEF BatchOffset, BatchElements
\* Smaller batch numbers come first.
LEMMA Monotone ==
    ASSUME NEW t \in Nat, NEW u \in Nat, t < u, NEW size \in Nat
    PROVE  t * size + size <= u * size
<1>1. PICK d \in Nat : u = t + 1 + d
  BY u - t - 1 \in Nat /\ u = t + 1 + (u - t - 1)
<1>2. u * size = t * size + size + d * size
  BY <1>1
<1>3. d * size >= 0
  OBVIOUS
<1> QED
  BY <1>2, <1>3

\* The end of a batch: that of the data set for the last one, otherwise the
\* begin of the next one; no batch reaches beyond the data set.
LEMMA BatchEnd ==
    ASSUME NEW spheres \in Nat \ {0}, NEW size \in Nat \ {0},
           NEW total, total = TotalBatches(spheres, size), NEW t \in 0 .. total - 1
    PROVE  LET end == t * size + BatchElements(total, spheres, size, t)
           IN  /\ end \in Nat /\ end <= spheres
               /\ BatchElements(total, spheres, size, t) \in Nat
               /\ t = total - 1 => end = spheres
               /\ t # total - 1 => end = t * size + size
               /\ end <= t * size + size
<1>1. /\ total \in Nat \ {0} /\ (total - 1) * size < spheres
      /\ (total - 1) * size + BatchElements(total, spheres, size, total - 1) = spheres
  BY LastBatch
<1>2. t * size \in Nat /\ (total - 1) * size \in Nat
  BY <1>1
<1>5. BatchElements(total, spheres, size, t) \in Nat
  BY DEF BatchElements
<1>3. CASE t = total - 1
  <2>1. BatchElements(total, spheres, size, t) <= size
    BY DEF BatchElements
  <2> QED
    BY <1>1, <1>2, <1>3, <1>5, <2>1
<1>4. CASE t # total - 1
  <2>1. BatchElements(total, spheres, size, t) = size
    BY <1>4 DEF BatchElements
  <2>2. t * size + size <= (total - 1) * size
    BY <1>1, <1>4, Monotone
  <2> QED
    BY <1>1, <1>2, <1>4, <2>1, <2>2
<1> QED
  BY <1>3, <1>4, <1>5

\* Rendering all batches of a frame renders all spheres and nothing else
\* (rebuild, batch_elements and offset of sphere_streaming_context).
THEOREM BatchesCoverSpheres ==
    ASSUME NEW spheres \in Nat \ {0}, NEW size \in Nat \ {0},
           NEW total, total = TotalBatches(spheres, size)
    PROVE  UNION {BatchSpheres(total, spheres, size, t) : t \in 0 .. total - 1}
             = 0 .. spheres - 1
<1>1. /\ total \in Nat \ {0}
      /\ (total - 1) * size + BatchElements(total, spheres, size, total - 1) = spheres
  BY LastBatch
<1>2. ASSUME NEW t \in 0 .. total - 1, NEW x \in BatchSpheres(total, spheres, size, t)
      PROVE  x \in 0 .. spheres - 1
  <2>1. t * size \in Nat
    BY <1>1
  <2>2. /\ BatchElements(total, spheres, size, t) \in Nat
        /\ t * size + BatchElements(total, spheres, size, t) <= spheres
    BY BatchEnd
  <2>3. x \in t * size .. t * size + BatchElements(total, spheres, size, t) - 1
    BY DEF BatchSpheres, BatchOffset
  <2> QED
    BY <2>1, <2>2, <2>3
<1>3. ASSUME NEW x \in 0 .. spheres - 1
      PROVE  \E t \in 0 .. total - 1 : x \in BatchSpheres(total, spheres, size, t)
  <2> DEFINE t == x \div size
  <2>1. t \in Nat /\ t * size <= x /\ x < t * size + size /\ t * size \in Nat
    <3>1. t \in Nat /\ x % size \in 0 .. size - 1 /\ x = size * t + (x % size)
      OBVIOUS
    <3> QED
      BY <3>1
  <2> HIDE DEF t
  <2>2. t <= total - 1
    <3> SUFFICES ASSUME total - 1 < t PROVE FALSE
      BY <1>1, <2>1
    <3>1. (total - 1) * size + size <= t * size
      BY <1>1, <2>1, Monotone
    <3>2. spheres <= (total - 1) * size + size /\ (total - 1) * size \in Nat
      <4>1. total - 1 \in 0 .. total - 1
        BY <1>1
      <4> QED
        BY <1>1, <4>1, BatchEnd
    <3> QED
      BY <2>1, <3>1, <3>2
  <2>3. t \in 0 .. total - 1
    BY <1>1, <2>1, <2>2
  <2>4. x < t * size + BatchElements(total, spheres, size, t)
    <3> DEFINE end == t * size + BatchElements(total, spheres, size, t)
    <3>1. end = spheres \/ end = t * size + size
      BY <2>3, BatchEnd
    <3> HIDE DEF end
    <3>2. x \in Nat /\ x < spheres
      OBVIOUS
    <3>3. x < end
      BY <2>1, <3>1, <3>2
    <3> QED
      BY <3>3 DEF end
  <2>5. BatchElements(total, spheres, size, t) \in Nat
    BY <2>3, BatchEnd
  <2>6. x \in BatchSpheres(total, spheres, size, t)
    BY <2>1, <2>4, <2>5 DEF BatchSpheres, BatchOffset
  <2> QED
    BY <2>3, <2>6
<1> QED
  BY <1>2, <1>3

\* No sphere is rendered by two batches of a frame.
THEOREM BatchesAreDisjoint ==
    ASSUME NEW spheres \in Nat \ {0}, NEW size \in Nat \ {0},
           NEW total, total = TotalBatches(spheres, size),
           NEW t \in 0 .. total - 1, NEW u \in 0 .. total - 1, t < u
    PROVE  BatchSpheres(total, spheres, size, t)
             \cap BatchSpheres(total, spheres, size, u) = {}
<1>1. total \in Nat \ {0}
  BY LastBatch
<1>2. t * size + size <= u * size /\ t * size \in Nat /\ u * size \in Nat
  BY <1>1, Monotone
<1>3. /\ BatchElements(total, spheres, size, t) \in Nat
      /\ t * size + BatchElements(total, spheres, size, t) <= t * size + size
  BY BatchEnd
<1>4. ASSUME NEW x \in BatchSpheres(total, spheres, size, t)
      PROVE  x \notin BatchSpheres(total, spheres, size, u)
  <2>1. x \in t * size .. t * size + BatchElements(total, spheres, size, t) - 1
    BY <1>4 DEF BatchSpheres, BatchOffset
  <2>2. x < u * size
    BY <1>2, <1>3, <2>1
  <2> QED
    BY <1>2, <2>1, <2>2 DEF BatchSpheres, BatchOffset
<1> QED
  BY <1>4

=============================================================================
