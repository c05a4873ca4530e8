------------------------ MODULE AccessPatternProofs ------------------------
(***************************************************************************)
(* The division of the arrays among the ranks of a stream job, for every   *)
(* problem size and every number of threads.                               *)
(***************************************************************************)
EXTENDS AccessPattern, TLAPS

\* Multiples of a positive number differ by at least that number.
LEMMA MultiplesApart ==
    ASSUME NEW u \in Int, NEW v \in Int, u < v, NEW m \in Nat
    PROVE  u * m + m <= v * m
<1>1. PICK d \in Nat : v = u + 1 + d
  BY v - u - 1 \in Nat /\ v = u + 1 + (v - u - 1)
<1>2. v * m = u * m + m + d * m
  BY <1>1
<1>3. d * m >= 0
  OBVIOUS
<1> QED
  BY <1>2, <1>3

\* The two ranks of a contiguous problem own ranges that do not overlap.
LEMMA ContiguousApart ==
    ASSUME NEW size \in Nat \ {0}, NEW v \in Nat, NEW w \in Nat, v < w,
           NEW i \in 0 .. size - 1, NEW j \in 0 .. size - 1
    PROVE  v * size + i < w * size + j
<1>1. v * size + size <= w * size
  BY MultiplesApart
<1>2. v * size \in Nat /\ w * size \in Nat
  OBVIOUS
<1> QED
  BY <1>1, <1>2

\* Two numbers below m that differ by multiples of m are equal.
LEMMA InterleavedApart ==
    ASSUME NEW m \in Nat \ {0}, NEW v \in 0 .. m - 1, NEW w \in 0 .. m - 1,
           NEW k \in Nat, NEW l \in Nat, v + k * m = w + l * m
    PROVE  v = w
<1>1. k * m \in Nat /\ l * m \in Nat
  OBVIOUS
<1>2. CASE k < l
  <2>1. k * m + m <= l * m
    BY <1>2, MultiplesApart
  <2> QED
    BY <1>1, <2>1
<1>3. CASE l < k
  <2>1. l * m + m <= k * m
    BY <1>3, MultiplesApart
  <2> QED
    BY <1>1, <2>1
<1>4. CASE k = l
  BY <1>1, <1>4
<1> QED
  BY <1>2, <1>3, <1>4

\* No element of the arrays belongs to two ranks: for every problem size and
\* number of threads, under both access patterns of access_pattern.h.
THEOREM RanksDisjoint ==
    ASSUME NEW size \in Nat \ {0}, NEW parallelism \in Nat \ {0},
           NEW pattern \in Patterns,
           NEW v \in 0 .. parallelism - 1, NEW w \in 0 .. parallelism - 1,
           v # w,
           NEW i \in Positions(pattern, size, parallelism),
           NEW j \in Positions(pattern, size, parallelism)
    PROVE  Element(pattern, size, v, i) # Element(pattern, size, w, j)
<1>1. i \in 0 .. size - 1 /\ j \in 0 .. size - 1
  BY DEF Positions
<1>2. CASE pattern = "contiguous"
  <2>1. CASE v < w
    <3>1. v * size + i < w * size + j
      BY <1>1, <2>1, ContiguousApart
    <3>2. v * size \in Int /\ w * size \in Int
      OBVIOUS
    <3> QED
      BY <1>1, <1>2, <3>1, <3>2 DEF Element, Offset
  <2>2. CASE w < v
    <3>1. w * size + j < v * size + i
      BY <1>1, <2>2, ContiguousApart
    <3>2. v * size \in Int /\ w * size \in Int
      OBVIOUS
    <3> QED
      BY <1>1, <1>2, <3>1, <3>2 DEF Element, Offset
  <2> QED
    BY <2>1, <2>2
<1>3. CASE pattern # "contiguous"
  <2>1. PICK k \in 0 .. size - 1 : i = k * parallelism
    BY <1>3 DEF Positions, Step
  <2>2. PICK l \in 0 .. size - 1 : j = l * parallelism
    BY <1>3 DEF Positions, Step
  <2>3. v + k * parallelism # w + l * parallelism
    BY InterleavedApart
  <2> QED
    BY <1>3, <2>1, <2>2, <2>3 DEF Element, Offset
<1> QED
  BY <1>2, <1>3

\* Every element a rank accesses is one that problem::allocate reserved.
THEOREM RanksInBounds ==
    ASSUME NEW size \in Nat \ {0}, NEW parallelism \in Nat \ {0},
           NEW pattern \in Patterns,
           NEW w \in 0 .. parallelism - 1,
           NEW i \in Positions(pattern, size, parallelism)
    PROVE  Element(pattern, size, w, i) \in 0 .. Allocated(size, parallelism) - 1
<1>1. i \in 0 .. size - 1
  BY DEF Positions
<1>2. w * size \in Nat /\ size * parallelism \in Nat
  OBVIOUS
<1>3. CASE pattern = "contiguous"
  <2>1. w * size + size <= parallelism * size
    BY MultiplesApart
  <2>2. parallelism * size = size * parallelism
    OBVIOUS
  <2> QED
    BY <1>1, <1>2, <1>3, <2>1, <2>2 DEF Element, Offset, Allocated
<1>4. CASE pattern # "contiguous"
  <2>1. size * parallelism >= size + parallelism - 1
    <3>1. (size - 1) * (parallelism - 1) >= 0
      OBVIOUS
    <3>2. (size - 1) * (parallelism - 1) = size * parallelism - size - parallelism + 1
      OBVIOUS
    <3> QED
      BY <1>2, <3>1, <3>2
  <2> QED
    BY <1>1, <1>2, <1>4, <2>1 DEF Element, Offset, Allocated
<1> QED
  BY <1>3, <1>4

\* The loop of step<N>::apply goes from one position of the rank to the next.
LEMMA NextPosition ==
    ASSUME NEW size \in Nat \ {0}, NEW parallelism \in Nat \ {0}, NEW pattern,
           NEW i \in Positions(pattern, size, parallelism),
           i + Step(pattern, parallelism) < size
    PROVE  i + Step(pattern, parallelism) \in Positions(pattern, size, parallelism)
<1> DEFINE m == Step(pattern, parallelism)
<1>1. m \in Nat \ {0}
  BY DEF Step
<1>2. PICK k \in 0 .. size - 1 : i = k * m
  BY DEF Positions
<1>3. i + m = (k + 1) * m
  BY <1>1, <1>2
<1>4. k + 1 <= (k + 1) * m
  <2> HIDE DEF m
  <2>1. PICK d \in Nat : m = d + 1
    BY <1>1, m - 1 \in Nat
  <2>2. (k + 1) * m = (k + 1) * d + (k + 1)
    BY <2>1
  <2>3. (k + 1) * d >= 0
    BY <2>1
  <2> QED
    BY <2>2, <2>3
<1>5. k + 1 \in 0 .. size - 1 /\ i + m \in 0 .. size - 1
  BY <1>1, <1>2, <1>3, <1>4
<1> QED
  BY <1>3, <1>5 DEF Positions

LEMMA FirstPosition ==
    ASSUME NEW size \in Nat \ {0}, NEW parallelism \in Nat \ {0}, NEW pattern
    PROVE  0 \in Positions(pattern, size, parallelism)
<1>1. Step(pattern, parallelism) \in Nat
  BY DEF Step
<1>2. 0 = 0 * Step(pattern, parallelism)
  BY <1>1
<1> QED
  BY <1>2 DEF Positions

\* A contiguous job uses the whole of the arrays: every element that
\* problem::allocate has reserved is accessed by a rank.
THEOREM ContiguousCoversArrays ==
    ASSUME NEW size \in Nat \ {0}, NEW parallelism \in Nat \ {0},
           NEW x \in 0 .. Allocated(size, parallelism) - 1
    PROVE  \E w \in 0 .. parallelism - 1 :
               \E i \in Positions("contiguous", size, parallelism) :
                   x = Element("contiguous", size, w, i)
<1> DEFINE w == x \div size
           i == x % size
<1>1. x \in Nat /\ x < parallelism * size
  BY DEF Allocated
<1>2. w \in Nat /\ i \in 0 .. size - 1 /\ x = w * size + i
  <2>1. w \in Nat /\ i \in 0 .. size - 1 /\ x = size * w + i
    BY <1>1
  <2> QED
    BY <2>1
<1> HIDE DEF w, i
<1>3. w < parallelism
  <2> SUFFICES ASSUME parallelism <= w PROVE FALSE
    BY <1>2
  <2>1. w = parallelism \/ parallelism * size + size <= w * size
    BY <1>2, MultiplesApart
  <2>2. w * size \in Nat /\ parallelism * size \in Nat
    BY <1>2
  <2> QED
    BY <1>1, <1>2, <2>1, <2>2
<1>4. i \in Positions("contiguous", size, parallelism)
  BY <1>2 DEF Positions, Step
<1>5. w \in 0 .. parallelism - 1 /\ x = Element("contiguous", size, w, i)
  BY <1>2, <1>3 DEF Element, Offset
<1> QED
  BY <1>4, <1>5
=============================================================================
