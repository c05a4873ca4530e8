---------------------- MODULE ConfigurationSetProofs -----------------------
(***************************************************************************)
(* What holds of ConfigurationSet for every configuration set: the         *)
(* enumeration in foreach_configuration visits every combination of        *)
(* manifestations exactly once, and optimise_order only changes the order. *)
(*                                                                         *)
(* The operators are recursive functions.  What they compute is shown by   *)
(* induction, whose principle is stated over sets (the set of the numbers  *)
(* for which the claim holds), and which rests on the natural numbers      *)
(* being well-founded.                                                     *)
(***************************************************************************)
EXTENDS ConfigurationSet, FiniteSetTheorems, SequenceTheorems, TLAPS

-----------------------------------------------------------------------------
(* Induction and recursion.                                                 *)

\* A set that contains 0, and the successors of its elements up to N, contains
\* all numbers up to N.
LEMMA Induction ==
    ASSUME NEW N \in Nat, NEW T, 0 \in T, \A n \in 0 .. N - 1 : n \in T => n + 1 \in T
    PROVE  \A n \in 0 .. N : n \in T
<1> DEFINE Rest == {n \in 0 .. N : n \notin T}
<1> SUFFICES ASSUME Rest # {} PROVE FALSE
    OBVIOUS
<1>1. PICK x \in Rest : \A y \in Rest : ~ (<<y, x>> \in OpToRel(<, Nat))
    <2>1. Rest \subseteq Nat
        OBVIOUS
    <2> HIDE DEF Rest
    <2> QED
        BY <2>1, NatLessThanWellFounded, WFMin
<1>2. x - 1 \in 0 .. N - 1
    OBVIOUS
<1>3. x - 1 \in Rest
    BY <1>2
<1>4. <<x - 1, x>> \in OpToRel(<, Nat)
    BY <1>2 DEF OpToRel
<1> QED
    BY <1>1, <1>3, <1>4

\* A function on 0 .. N is given by its first value and by the step from one
\* value to the next.
IsStep(g, N, S) == g \in [S \X (1 .. N) -> S]

IsIteration(f, N, S, c, g) ==
    /\ f \in [0 .. N -> S]
    /\ f[0] = c
    /\ \A n \in 1 .. N : f[n] = g[<<f[n - 1], n>>]

LEMMA Recursion ==
    ASSUME NEW N \in Nat, NEW S, NEW c \in S, NEW g, IsStep(g, N, S)
    PROVE  \E f : IsIteration(f, N, S, c, g)
<1> DEFINE T == {m \in 0 .. N : \E f : IsIteration(f, m, S, c, g)}
<1>1. 0 \in T
    <2> DEFINE f == [n \in 0 .. 0 |-> c]
    <2>1. IsIteration(f, 0, S, c, g)
        BY DEF IsIteration
    <2> QED
        BY <2>1
<1>2. ASSUME NEW m \in 0 .. N - 1, m \in T PROVE m + 1 \in T
    <2>1. PICK f : IsIteration(f, m, S, c, g)
        BY <1>2
    <2> DEFINE h == [n \in 0 .. m + 1 |-> IF n <= m THEN f[n] ELSE g[<<f[m], m + 1>>]]
    <2>2. g[<<f[m], m + 1>>] \in S
        BY <2>1 DEF IsIteration, IsStep
    <2>3. h \in [0 .. m + 1 -> S] /\ h[0] = c
        BY <2>1, <2>2 DEF IsIteration
    <2>4. ASSUME NEW n \in 1 .. m + 1 PROVE h[n] = g[<<h[n - 1], n>>]
        <3>1. CASE n <= m
            BY <2>1, <3>1 DEF IsIteration
        <3>2. CASE n = m + 1
            BY <3>2
        <3> QED
            BY <3>1, <3>2
    <2>5. IsIteration(h, m + 1, S, c, g)
        BY <2>3, <2>4 DEF IsIteration
    <2> HIDE DEF h
    <2> QED
        BY <2>5
<1>3. N \in T
    <2> HIDE DEF T
    <2> QED
        BY <1>1, <1>2, Induction
<1> QED
    BY <1>3

-----------------------------------------------------------------------------
(* Division.                                                                *)

LEMMA DivMod ==
    ASSUME NEW i \in Nat, NEW d \in Nat \ {0}
    PROVE  /\ i \div d \in Nat /\ i % d \in 0 .. d - 1
           /\ i = d * (i \div d) + (i % d)
OBVIOUS

LEMMA ProductPositive ==
    ASSUME NEW a \in Nat \ {0}, NEW b \in Nat \ {0}
    PROVE  a * b \in Nat \ {0}
OBVIOUS

LEMMA TimesMonotonic ==
    ASSUME NEW d \in Nat, NEW a \in Nat, NEW b \in Nat, a < b
    PROVE  d * a + d <= d * b
<1>1. PICK m \in Nat : b = a + 1 + m
    BY b - a - 1 \in Nat /\ b = a + 1 + (b - a - 1)
<1>2. d * b = d * a + d + d * m
    BY <1>1
<1>3. d * m \in Nat
    OBVIOUS
<1> QED
    BY <1>2, <1>3

\* A number lies between two multiples of the divisor, and quotients are ordered
\* like the numbers.
LEMMA QuotientBounds ==
    ASSUME NEW i \in Nat, NEW d \in Nat \ {0}
    PROVE  /\ i \div d \in Nat /\ d * (i \div d) \in Nat
           /\ d * (i \div d) <= i /\ i < d * (i \div d) + d
<1> DEFINE q == i \div d
           r == i % d
<1>1. q \in Nat /\ r \in 0 .. d - 1 /\ i = d * q + r
    BY DivMod
<1> HIDE DEF q, r
<1>2. d * q \in Nat
    BY <1>1
<1>3. d * q <= i /\ i < d * q + d
    BY <1>1, <1>2
<1> QED
    BY <1>1, <1>2, <1>3 DEF q

LEMMA QuotientMonotonic ==
    ASSUME NEW i \in Nat, NEW k \in Nat, NEW d \in Nat \ {0}, i <= k
    PROVE  i \div d <= k \div d
<1> DEFINE a == i \div d
           b == k \div d
<1>1. /\ a \in Nat /\ d * a \in Nat /\ d * a <= i
      /\ b \in Nat /\ d * b \in Nat /\ k < d * b + d
    BY QuotientBounds
<1> HIDE DEF a, b
<1>2. b < a => d * b + d <= d * a
    BY <1>1, TimesMonotonic
<1>3. a <= b
    BY <1>1, <1>2
<1> QED
    BY <1>3 DEF a, b

\* Quotient and remainder are determined by the number.
LEMMA DivModUnique ==
    ASSUME NEW d \in Nat \ {0}, NEW q \in Nat, NEW r \in 0 .. d - 1
    PROVE  (d * q + r) \div d = q /\ (d * q + r) % d = r
<1> DEFINE i == d * q + r
<1>1. i \in Nat
    OBVIOUS
<1> HIDE DEF i
<1> DEFINE k == i \div d
           e == i % d
<1>2. k \in Nat /\ e \in 0 .. d - 1 /\ i = d * k + e
    BY <1>1, DivMod
<1> HIDE DEF k, e
<1>3. d * k \in Nat /\ d * q \in Nat
    BY <1>2
<1>4. d * q + r = d * k + e
    BY <1>2 DEF i
<1>5. k = q
    <2>1. CASE k < q
        <3>1. d * k + d <= d * q
            BY <1>2, <2>1, TimesMonotonic
        <3> QED
            BY <1>2, <1>3, <1>4, <3>1
    <2>2. CASE q < k
        <3>1. d * q + d <= d * k
            BY <1>2, <2>2, TimesMonotonic
        <3> QED
            BY <1>2, <1>3, <1>4, <3>1
    <2> QED
        BY <1>2, <2>1, <2>2
<1>6. e = r
    BY <1>2, <1>3, <1>4, <1>5
<1> QED
    BY <1>5, <1>6 DEF i, k, e

\* The digit at frequency d of a number is that of its remainder modulo d * r, and
\* of the number that a multiple of d * r has been added to.
LEMMA DigitOfRemainder ==
    ASSUME NEW i \in Nat, NEW a \in Nat, NEW d \in Nat \ {0}, NEW r \in Nat \ {0}
    PROVE  ((i + (d * r) * a) \div d) % r = (i \div d) % r
<1> DEFINE q == i \div d
           e == i % d
<1>1. q \in Nat /\ e \in 0 .. d - 1 /\ i = d * q + e
    BY DivMod
<1> HIDE DEF q, e
<1> DEFINE t == q \div r
           u == q % r
<1>2. t \in Nat /\ u \in 0 .. r - 1 /\ q = r * t + u
    BY <1>1, DivMod
<1> HIDE DEF t, u
<1>3. i + (d * r) * a = d * (q + r * a) + e
    BY <1>1
<1>4. q + r * a \in Nat
    BY <1>1
<1>5. (i + (d * r) * a) \div d = q + r * a
    BY <1>1, <1>3, <1>4, DivModUnique
<1>6. q + r * a = r * (t + a) + u
    BY <1>2
<1>7. (q + r * a) % r = u
    BY <1>2, <1>6, DivModUnique, t + a \in Nat
<1> QED
    BY <1>5, <1>7 DEF u, q
-----------------------------------------------------------------------------
(* The enumeration of foreach_configuration.                                *)

LEMMA SequenceShape ==
    ASSUME NEW s, IsSequence(s)
    PROVE  /\ s \in Seq({s[i] : i \in DOMAIN s})
           /\ Len(s) \in Nat /\ DOMAIN s = 1 .. Len(s)
           /\ s \in [1 .. Len(s) -> {s[i] : i \in DOMAIN s}]
           /\ s = <<>> <=> Len(s) = 0
<1>1. s \in Seq({s[i] : i \in DOMAIN s})
    BY DEF IsSequence
<1> DEFINE S == {s[i] : i \in DOMAIN s}
<1> HIDE DEF S
<1>2. s \in Seq(S)
    BY <1>1 DEF S
<1>3. /\ Len(s) \in Nat /\ DOMAIN s = 1 .. Len(s) /\ s \in [1 .. Len(s) -> S]
      /\ s = <<>> <=> Len(s) = 0
    BY <1>2, LenProperties, EmptySeq
<1> QED
    BY <1>1, <1>3 DEF S

\* Whatever the elements are taken from.
LEMMA SequenceOf ==
    ASSUME NEW s, NEW S
    PROVE  /\ s \in Seq(S) => IsSequence(s)
           /\ IsSequence(s) /\ (\A i \in DOMAIN s : s[i] \in S) => s \in Seq(S)
<1>1. ASSUME s \in Seq(S) PROVE IsSequence(s)
    BY <1>1, SeqOfRange DEF IsSequence, Range
<1>2. ASSUME IsSequence(s), \A i \in DOMAIN s : s[i] \in S PROVE s \in Seq(S)
    <2> DEFINE R == {s[i] : i \in DOMAIN s}
    <2>1. s \in Seq(R) /\ R \subseteq S
        BY <1>2 DEF IsSequence
    <2> HIDE DEF R
    <2> QED
        BY <2>1, SeqMonotonic
<1> QED
    BY <1>1, <1>2

LEMMA SingletonShape ==
    ASSUME NEW value
    PROVE  IsSequence(<<value>>) /\ <<value>> # <<>> /\ AllDifferent(<<value>>)
<1>1. <<value>> \in Seq({value}) /\ DOMAIN <<value>> = {1}
    OBVIOUS
<1>2. IsSequence(<<value>>)
    BY <1>1, SequenceOf
<1> QED
    BY <1>1, <1>2 DEF AllDifferent

LEMMA FactorShape ==
    ASSUME NEW set, IsConfigurationSet(set)
    PROVE  /\ Len(set) \in Nat /\ DOMAIN set = 1 .. Len(set)
           /\ \A j \in 1 .. Len(set) :
                  /\ Len(set[j].values) \in Nat \ {0}
                  /\ DOMAIN set[j].values = 1 .. Len(set[j].values)
<1>1. Len(set) \in Nat /\ DOMAIN set = 1 .. Len(set)
    BY SequenceShape DEF IsConfigurationSet
<1>2. ASSUME NEW j \in 1 .. Len(set)
      PROVE  /\ Len(set[j].values) \in Nat \ {0}
             /\ DOMAIN set[j].values = 1 .. Len(set[j].values)
    <2>1. IsSequence(set[j].values) /\ set[j].values # <<>>
        BY <1>1 DEF IsConfigurationSet
    <2> QED
        BY <2>1, SequenceShape
<1> QED
    BY <1>1, <1>2

\* The recursive function in Products is defined: cntTests in the code.
LEMMA ProductsRecursion ==
    ASSUME NEW set, IsConfigurationSet(set)
    PROVE  /\ Products(set) \in [0 .. Len(set) -> Nat \ {0}]
           /\ Products(set)[0] = 1
           /\ \A n \in 1 .. Len(set) :
                  Products(set)[n] = Products(set)[n - 1] * Len(set[n].values)
<1> DEFINE N == Len(set)
           r(n) == Len(set[n].values)
           Pos == Nat \ {0}
           g == [x \in Pos \X (1 .. N) |-> x[1] * r(x[2])]
           IsProduct(f) == f = [n \in 0 .. N |-> IF n = 0 THEN 1 ELSE f[n - 1] * r(n)]
<1>1. N \in Nat /\ \A n \in 1 .. N : r(n) \in Pos
    BY FactorShape
<1> HIDE DEF r, N
<1>2. IsStep(g, N, Pos) /\ 1 \in Pos
    BY <1>1, ProductPositive DEF IsStep
<1> HIDE DEF Pos, g
<1>3. PICK f : IsIteration(f, N, Pos, 1, g)
    BY <1>1, <1>2, Recursion
<1>4. ASSUME NEW n \in 1 .. N PROVE f[n] = f[n - 1] * r(n)
    <2>1. f[n - 1] \in Pos
        BY <1>1, <1>3 DEF IsIteration
    <2> QED
        BY <1>3, <2>1 DEF g, IsIteration
<1>5. IsProduct(f)
    <2>1. f \in [0 .. N -> Pos] /\ f[0] = 1
        BY <1>3 DEF IsIteration
    <2> QED
        BY <1>1, <1>4, <2>1
<1>6. \E h : IsProduct(h)
    BY <1>5
<1>7. Products(set) = CHOOSE h : IsProduct(h)
    BY DEF Products, N, r
<1>8. IsProduct(Products(set))
    BY <1>6, <1>7
<1> DEFINE p == Products(set)
<1> HIDE DEF p
<1>9. p = [n \in 0 .. N |-> IF n = 0 THEN 1 ELSE p[n - 1] * r(n)]
    BY <1>8 DEF p
<1>10. p[0] = 1 /\ \A n \in 1 .. N : p[n] = p[n - 1] * r(n)
    BY <1>1, <1>9
<1>11. \A n \in 0 .. N : p[n] \in Pos
    <2> DEFINE T == {n \in 0 .. N : p[n] \in Pos}
    <2>1. 0 \in T
        BY <1>1, <1>2, <1>10
    <2>2. ASSUME NEW n \in 0 .. N - 1, n \in T PROVE n + 1 \in T
        <3>1. n + 1 \in 1 .. N /\ (n + 1) - 1 = n
            BY <1>1
        <3>2. p[n + 1] = p[n] * r(n + 1)
            BY <1>10, <3>1
        <3>3. p[n] * r(n + 1) \in Pos
            BY <1>1, <2>2, <3>1, ProductPositive DEF Pos
        <3> QED
            BY <1>1, <3>1, <3>2, <3>3
    <2> HIDE DEF T
    <2>3. \A n \in 0 .. N : n \in T
        BY <1>1, <2>1, <2>2, Induction
    <2> QED
        BY <2>3 DEF T
<1>12. p \in [0 .. N -> Pos]
    BY <1>9, <1>11
<1> QED
    BY <1>10, <1>12 DEF p, N, r, Pos
\* Each product divides the ones behind it.
LEMMA ProductsDivide ==
    ASSUME NEW set, IsConfigurationSet(set), NEW m \in 0 .. Len(set)
    PROVE  \A n \in m .. Len(set) : \E k \in Nat : Products(set)[n] = Products(set)[m] * k
<1> DEFINE N == Len(set)
           p == Products(set)
           r(n) == Len(set[n].values)
           T == {n \in 0 .. N : n < m \/ \E k \in Nat : p[n] = p[m] * k}
<1>1. N \in Nat /\ m \in 0 .. N /\ \A n \in 1 .. N : r(n) \in Nat
    BY FactorShape
<1>2. p \in [0 .. N -> Nat \ {0}] /\ \A n \in 1 .. N : p[n] = p[n - 1] * r(n)
    BY ProductsRecursion
<1> HIDE DEF N, p, r
<1>3. p[m] \in Nat
    BY <1>1, <1>2
<1>4. 0 \in T
    <2>1. p[m] = p[m] * 1
        BY <1>3
    <2> QED
        BY <1>1, <2>1
<1>5. ASSUME NEW n \in 0 .. N - 1, n \in T PROVE n + 1 \in T
    <2>1. CASE n + 1 < m
        BY <1>1, <2>1
    <2>2. CASE n + 1 = m
        <3>1. p[m] = p[m] * 1
            BY <1>3
        <3> QED
            BY <1>1, <2>2, <3>1
    <2>3. CASE n >= m
        <3>1. PICK k \in Nat : p[n] = p[m] * k
            BY <1>1, <1>5, <2>3
        <3>2. n + 1 \in 1 .. N /\ (n + 1) - 1 = n
            BY <1>1
        <3>3. p[n + 1] = p[n] * r(n + 1) /\ r(n + 1) \in Nat
            BY <1>1, <1>2, <3>2
        <3>4. p[n + 1] = p[m] * (k * r(n + 1)) /\ k * r(n + 1) \in Nat
            BY <1>3, <3>1, <3>3
        <3> QED
            BY <1>1, <3>2, <3>4
    <2> QED
        BY <1>1, <2>1, <2>2, <2>3
<1>6. \A n \in 0 .. N : n \in T
    <2> HIDE DEF T
    <2> QED
        BY <1>1, <1>4, <1>5, Induction
<1>7. \A n \in m .. N : \E k \in Nat : p[n] = p[m] * k
    BY <1>1, <1>6
<1> QED
    BY <1>7 DEF N, p

\* The choice of factor j in configuration i, which is one of its manifestations.
LEMMA ChoiceShape ==
    ASSUME NEW set, IsConfigurationSet(set), NEW i \in Nat, NEW j \in 1 .. Len(set)
    PROVE  /\ Choice(set, i)[j] =
                  ((i \div Products(set)[j - 1]) % Len(set[j].values)) + 1
           /\ Choice(set, i)[j] \in 1 .. Len(set[j].values)
<1> DEFINE r == Len(set[j].values)
           d == Products(set)[j - 1]
<1>1. DOMAIN set = 1 .. Len(set) /\ j - 1 \in 0 .. Len(set) /\ r \in Nat \ {0}
    BY FactorShape
<1>2. d \in Nat \ {0}
    BY <1>1, ProductsRecursion
<1>3. Choice(set, i)[j] = ((i \div d) % r) + 1
    BY <1>1 DEF Choice, Frequency
<1> HIDE DEF r, d
<1>4. (i \div d) % r \in 0 .. r - 1
    <2>1. i \div d \in Nat
        BY <1>2, DivMod
    <2> QED
        BY <1>1, <2>1, DivMod
<1>5. Choice(set, i)[j] \in 1 .. r
    BY <1>1, <1>3, <1>4
<1> QED
    BY <1>3, <1>5 DEF r, d

LEMMA ChoiceIsPossible ==
    ASSUME NEW set, IsConfigurationSet(set), NEW i \in Nat
    PROVE  Choice(set, i) \in Choices(set)
<1> DEFINE all == UNION {DOMAIN set[k].values : k \in DOMAIN set}
<1>1. \A k \in DOMAIN set : Choice(set, i)[k] \in DOMAIN set[k].values
    BY FactorShape, ChoiceShape
<1>2. \A k \in DOMAIN set : Choice(set, i)[k] \in all
    BY <1>1
<1> HIDE DEF all
<1>3. Choice(set, i) \in [DOMAIN set -> all]
    BY <1>2 DEF Choice
<1> QED
    BY <1>1, <1>3 DEF Choices, all

\* Adding a multiple of the product of n factors does not change their choice.
LEMMA ChoiceOfSum ==
    ASSUME NEW set, IsConfigurationSet(set), NEW n \in 0 .. Len(set), NEW j \in 1 .. n,
           NEW i \in Nat, NEW a \in Nat
    PROVE  Choice(set, i + Products(set)[n] * a)[j] = Choice(set, i)[j]
<1> DEFINE p == Products(set)
           r == Len(set[j].values)
<1>1. /\ Len(set) \in Nat /\ j \in 1 .. Len(set) /\ j \in 0 .. Len(set)
      /\ j - 1 \in 0 .. Len(set) /\ n \in j .. Len(set)
    BY FactorShape
<1>2. /\ p[j - 1] \in Nat \ {0} /\ p[j] = p[j - 1] * r /\ p[n] \in Nat \ {0}
      /\ r \in Nat \ {0}
    BY <1>1, ProductsRecursion, FactorShape
<1>3. PICK k \in Nat : p[n] = p[j] * k
    BY <1>1, ProductsDivide
<1>4. /\ Choice(set, i + p[n] * a)[j] = (((i + p[n] * a) \div p[j - 1]) % r) + 1
      /\ Choice(set, i)[j] = ((i \div p[j - 1]) % r) + 1
    <2> DEFINE pn == p[n]
    <2>1. pn \in Nat
        BY <1>2
    <2> HIDE DEF p, pn
    <2>2. i + pn * a \in Nat
        BY <2>1
    <2> QED
        BY <1>1, <2>2, ChoiceShape DEF p, pn
<1> HIDE DEF p, r
<1> DEFINE d == p[j - 1]
           b == k * a
<1>5. p[n] * a = (d * r) * b /\ b \in Nat
    BY <1>2, <1>3
<1>6. ((i + p[n] * a) \div d) % r = (i \div d) % r
    <2>1. d \in Nat \ {0} /\ r \in Nat \ {0}
        BY <1>2
    <2> HIDE DEF d, b
    <2>2. ((i + (d * r) * b) \div d) % r = (i \div d) % r
        BY <1>5, <2>1, DigitOfRemainder
    <2> QED
        BY <1>5, <2>2
<1>7. Choice(set, i + p[n] * a)[j] = Choice(set, i)[j]
    BY <1>4, <1>6
<1> QED
    BY <1>7 DEF p
\* Every choice of manifestations is made in the configuration with the number that
\* has them as its digits.
LEMMA EveryChoiceIsMade ==
    ASSUME NEW set, IsConfigurationSet(set), NEW c \in Choices(set)
    PROVE  \E i \in 0 .. Count(set) - 1 : \A j \in 1 .. Len(set) : Choice(set, i)[j] = c[j]
<1> DEFINE N == Len(set)
           p == Products(set)
           r(n) == Len(set[n].values)
           Makes(i, n) == \A j \in 1 .. n : Choice(set, i)[j] = c[j]
           T == {n \in 0 .. N : \E i \in 0 .. p[n] - 1 : Makes(i, n)}
<1>1. N \in Nat /\ \A n \in 1 .. N : r(n) \in Nat \ {0} /\ c[n] \in 1 .. r(n)
    BY FactorShape DEF Choices
<1>2. /\ p \in [0 .. N -> Nat \ {0}] /\ p[0] = 1
      /\ \A n \in 1 .. N : p[n] = p[n - 1] * r(n)
    BY ProductsRecursion
<1>3. \A n \in 0 .. N, j \in 1 .. N, i \in Nat, a \in Nat :
          j <= n => Choice(set, i + p[n] * a)[j] = Choice(set, i)[j]
    <2> TAKE n \in 0 .. N, j \in 1 .. N, i \in Nat, a \in Nat
    <2> HAVE j <= n
    <2>1. j \in 1 .. n
        OBVIOUS
    <2> QED
        BY <2>1, ChoiceOfSum
<1>4. \A i \in Nat, j \in 1 .. N : Choice(set, i)[j] = ((i \div p[j - 1]) % r(j)) + 1
    BY ChoiceShape
<1> HIDE DEF N, p, r
<1>5. 0 \in T
    <2>1. 0 \in 0 .. p[0] - 1 /\ 0 \in 0 .. N
        BY <1>1, <1>2
    <2> QED
        BY <2>1
<1>6. ASSUME NEW n \in 0 .. N - 1, n \in T PROVE n + 1 \in T
    <2>1. PICK i \in 0 .. p[n] - 1 : Makes(i, n)
        BY <1>6
    <2> DEFINE m == n + 1
               a == c[m] - 1
               k == i + p[n] * a
    <2>2. m \in 1 .. N /\ m - 1 = n /\ n \in 0 .. N
        BY <1>1
    <2> HIDE DEF m
    <2>3. /\ p[n] \in Nat \ {0} /\ i \in 0 .. p[n] - 1 /\ p[m] = p[n] * r(m)
          /\ r(m) \in Nat \ {0} /\ a \in Nat /\ a < r(m) /\ c[m] = a + 1
        <3>1. p[n] \in Nat \ {0} /\ p[m] = p[n] * r(m)
            BY <1>2, <2>2
        <3>2. r(m) \in Nat \ {0} /\ c[m] \in 1 .. r(m)
            BY <1>1, <2>2
        <3> QED
            BY <3>1, <3>2
    <2> HIDE DEF a
    <2>4. k \in 0 .. p[m] - 1
        <3>1. p[n] * a + p[n] <= p[n] * r(m)
            BY <2>3, TimesMonotonic
        <3>2. p[n] * a \in Nat
            BY <2>3
        <3> QED
            BY <2>3, <3>1, <3>2
    <2>5. Choice(set, k)[m] = c[m]
        <3>1. k \div p[n] = a
            <4>1. k = p[n] * a + i
                BY <2>3
            <4> QED
                BY <2>3, <4>1, DivModUnique
        <3>2. a % r(m) = a
            <4>1. a = r(m) * 0 + a /\ a \in 0 .. r(m) - 1
                BY <2>3
            <4> QED
                BY <2>3, <4>1, DivModUnique
        <3>3. k \in Nat
            BY <2>3, <2>4
        <3> QED
            BY <1>4, <2>2, <2>3, <3>1, <3>2, <3>3
    <2>6. ASSUME NEW j \in 1 .. m PROVE Choice(set, k)[j] = c[j]
        <3>1. CASE j = m
            BY <2>5, <3>1
        <3>2. CASE j # m
            <4>1. j \in 1 .. n /\ j \in 1 .. N
                BY <1>1, <2>2, <3>2 DEF m
            <4>2. Choice(set, k)[j] = Choice(set, i)[j]
                BY <1>3, <2>2, <2>3, <4>1
            <4> QED
                BY <2>1, <4>1, <4>2
        <3> QED
            BY <3>1, <3>2
    <2>7. Makes(k, m)
        BY <2>6
    <2>8. m \in T
        <3> HIDE DEF Makes, k
        <3> QED
            BY <1>1, <2>2, <2>4, <2>7
    <2> QED
        BY <2>8 DEF m
<1>7. N \in T
    <2> HIDE DEF T
    <2>1. \A n \in 0 .. N : n \in T
        BY <1>1, <1>5, <1>6, Induction
    <2> QED
        BY <1>1, <2>1
<1> QED
    BY <1>7 DEF N, p, Count

\* Different configurations make different choices.
LEMMA ChoicesDiffer ==
    ASSUME NEW set, IsConfigurationSet(set),
           NEW i \in 0 .. Count(set) - 1, NEW k \in 0 .. Count(set) - 1,
           \A j \in 1 .. Len(set) : Choice(set, i)[j] = Choice(set, k)[j]
    PROVE  i = k
<1> DEFINE N == Len(set)
           p == Products(set)
           r(n) == Len(set[n].values)
           Same(u, v, n) == \A j \in 1 .. n : Choice(set, u)[j] = Choice(set, v)[j]
           T == {n \in 0 .. N : \A u, v \in 0 .. p[n] - 1 : Same(u, v, n) => u = v}
<1>1. N \in Nat /\ \A n \in 1 .. N : r(n) \in Nat \ {0}
    BY FactorShape
<1>2. /\ p \in [0 .. N -> Nat \ {0}] /\ p[0] = 1
      /\ \A n \in 1 .. N : p[n] = p[n - 1] * r(n)
    BY ProductsRecursion
<1>3. \A n \in 0 .. N, j \in 1 .. N, u \in Nat, a \in Nat :
          j <= n => Choice(set, u + p[n] * a)[j] = Choice(set, u)[j]
    <2> TAKE n \in 0 .. N, j \in 1 .. N, u \in Nat, a \in Nat
    <2> HAVE j <= n
    <2>1. j \in 1 .. n
        OBVIOUS
    <2> QED
        BY <2>1, ChoiceOfSum
<1>4. \A u \in Nat, j \in 1 .. N : Choice(set, u)[j] = ((u \div p[j - 1]) % r(j)) + 1
    BY ChoiceShape
<1> HIDE DEF N, p, r
<1>5. 0 \in T
    BY <1>1, <1>2
<1>6. ASSUME NEW n \in 0 .. N - 1, n \in T PROVE n + 1 \in T
    <2> DEFINE m == n + 1
               d == p[n]
    <2>1. m \in 1 .. N /\ m - 1 = n /\ n \in 0 .. N /\ m \in 0 .. N
        BY <1>1
    <2>2. d \in Nat \ {0} /\ p[m] = d * r(m) /\ r(m) \in Nat \ {0}
        BY <1>1, <1>2, <2>1
    <2> HIDE DEF m, d
    \* What a number below the product of m factors chooses for the last of them.
    <2>3. ASSUME NEW u \in 0 .. p[m] - 1
          PROVE  /\ u \in Nat /\ u \div d \in Nat /\ u % d \in 0 .. d - 1
                 /\ u = (u % d) + d * (u \div d)
                 /\ Choice(set, u)[m] = (u \div d) + 1
        <3>1. u \in Nat /\ u < d * r(m)
            BY <2>2
        <3> DEFINE q == u \div d
        <3>2. q \in Nat /\ u % d \in 0 .. d - 1 /\ u = (u % d) + d * q
            <4>1. /\ u \div d \in Nat /\ u % d \in 0 .. d - 1
                  /\ u = d * (u \div d) + (u % d)
                BY <2>2, <3>1, DivMod
            <4> DEFINE e == u % d
            <4> HIDE DEF q, e
            <4>2. q \in Nat /\ e \in 0 .. d - 1 /\ u = d * q + e
                BY <4>1 DEF q, e
            <4>3. d * q \in Nat
                BY <2>2, <4>2
            <4>4. u = e + d * q
                BY <4>2, <4>3
            <4> QED
                BY <4>2, <4>4 DEF e
        <3>3. Choice(set, u)[m] = (q % r(m)) + 1
            BY <1>4, <2>1, <3>1 DEF d
        <3> HIDE DEF q
        <3>4. q < r(m)
            <4> SUFFICES ASSUME r(m) <= q PROVE FALSE
                BY <2>2, <3>2
            <4>1. d * r(m) <= d * q
                <5>1. CASE r(m) = q
                    BY <2>2, <5>1
                <5>2. CASE r(m) < q
                    <6>1. d * r(m) + d <= d * q
                        BY <2>2, <3>2, <5>2, TimesMonotonic
                    <6>2. d * r(m) \in Nat /\ d * q \in Nat
                        BY <2>2, <3>2
                    <6> QED
                        BY <2>2, <6>1, <6>2
                <5> QED
                    BY <2>2, <3>2, <5>1, <5>2
            <4>2. d * r(m) \in Nat /\ d * q \in Nat
                BY <2>2, <3>2
            <4> QED
                BY <2>2, <3>1, <3>2, <4>1, <4>2
        <3>5. q % r(m) = q
            <4>1. q = r(m) * 0 + q /\ q \in 0 .. r(m) - 1
                BY <2>2, <3>2, <3>4
            <4> QED
                BY <2>2, <4>1, DivModUnique
        <3> QED
            BY <3>1, <3>2, <3>3, <3>5 DEF q
    <2>4. ASSUME NEW u \in 0 .. p[m] - 1, NEW v \in 0 .. p[m] - 1, Same(u, v, m)
          PROVE  u = v
        <3>1. m \in 1 .. m /\ m \in Nat
            BY <2>1
        <3>2. u \div d = v \div d
            <4>1. Choice(set, u)[m] = Choice(set, v)[m]
                BY <2>4, <3>1
            <4> QED
                BY <2>3, <4>1
        <3>3. Same(u % d, v % d, n)
            <4> SUFFICES ASSUME NEW j \in 1 .. n
                         PROVE  Choice(set, u % d)[j] = Choice(set, v % d)[j]
                OBVIOUS
            <4>1. j \in 1 .. m /\ j \in 1 .. N /\ j <= n
                BY <1>1, <2>1 DEF m
            <4>2. /\ Choice(set, (u % d) + d * (u \div d))[j] = Choice(set, u % d)[j]
                  /\ Choice(set, (v % d) + d * (v \div d))[j] = Choice(set, v % d)[j]
                <5> DEFINE eu == u % d
                           qu == u \div d
                           ev == v % d
                           qv == v \div d
                <5>1. eu \in 0 .. d - 1 /\ qu \in Nat /\ ev \in 0 .. d - 1 /\ qv \in Nat
                    BY <2>3
                <5> HIDE DEF eu, qu, ev, qv
                <5>2. eu \in Nat /\ ev \in Nat
                    BY <2>2, <5>1
                <5>3. /\ Choice(set, eu + d * qu)[j] = Choice(set, eu)[j]
                      /\ Choice(set, ev + d * qv)[j] = Choice(set, ev)[j]
                    <6>1. j \in 1 .. n
                        OBVIOUS
                    <6>2. Choice(set, eu + d * qu)[j] = Choice(set, eu)[j]
                        BY <1>3, <2>1, <4>1, <5>1, <5>2, <6>1 DEF d
                    <6>3. Choice(set, ev + d * qv)[j] = Choice(set, ev)[j]
                        BY <1>3, <2>1, <4>1, <5>1, <5>2, <6>1 DEF d
                    <6> QED
                        BY <6>2, <6>3
                <5> QED
                    BY <5>3 DEF eu, qu, ev, qv
            <4>3. /\ u = (u % d) + d * (u \div d)
                  /\ v = (v % d) + d * (v \div d)
                BY <2>3
            <4> QED
                BY <2>4, <4>1, <4>2, <4>3
        <3>4. u % d = v % d
            <4>1. u % d \in 0 .. p[n] - 1 /\ v % d \in 0 .. p[n] - 1
                BY <2>3 DEF d
            <4> HIDE DEF Same
            <4> QED
                BY <1>6, <3>3, <4>1
        <3> QED
            BY <2>3, <3>2, <3>4
    <2>5. m \in T
        <3> HIDE DEF Same
        <3> QED
            BY <2>1, <2>4
    <2> QED
        BY <2>5 DEF m
<1>7. N \in T
    <2> HIDE DEF T
    <2>1. \A n \in 0 .. N : n \in T
        BY <1>1, <1>5, <1>6, Induction
    <2> QED
        BY <1>1, <2>1
<1> QED
    BY <1>7 DEF N, p, Count
LEMMA PositionOfName ==
    ASSUME NEW set, IsConfigurationSet(set), NEW j \in DOMAIN set
    PROVE  Position(set, set[j].name) = j
BY DEF Position, IsConfigurationSet

\* A configuration shows what was chosen for it.
LEMMA ChosenDiffer ==
    ASSUME NEW set, IsConfigurationSet(set), NEW c \in Choices(set), NEW d \in Choices(set),
           Chosen(set, c) = Chosen(set, d)
    PROVE  \A j \in 1 .. Len(set) : c[j] = d[j]
<1> TAKE j \in 1 .. Len(set)
<1>1. j \in DOMAIN set
    BY FactorShape
<1> DEFINE name == set[j].name
           values == set[j].values
<1>2. Chosen(set, c)[name] = values[c[j]] /\ Chosen(set, d)[name] = values[d[j]]
    <2>1. Position(set, name) = j /\ name \in {set[k].name : k \in DOMAIN set}
        BY <1>1, PositionOfName
    <2> QED
        BY <2>1 DEF Chosen
<1>3. c[j] \in DOMAIN values /\ d[j] \in DOMAIN values
    BY <1>1 DEF Choices
<1>4. AllDifferent(values)
    BY <1>1 DEF IsConfigurationSet
<1> QED
    BY <1>2, <1>3, <1>4 DEF AllDifferent

\* No configuration is repeated: the counter of the loop in foreach_configuration
\* determines the manifestations, and they determine the counter.
THEOREM ConfigurationsDiffer ==
    ASSUME NEW set, IsConfigurationSet(set),
           NEW i \in 0 .. Count(set) - 1, NEW k \in 0 .. Count(set) - 1,
           Configuration(set, i) = Configuration(set, k)
    PROVE  i = k
<1>1. i \in Nat /\ k \in Nat
    OBVIOUS
<1>2. Choice(set, i) \in Choices(set) /\ Choice(set, k) \in Choices(set)
    BY <1>1, ChoiceIsPossible
<1>3. \A j \in 1 .. Len(set) : Choice(set, i)[j] = Choice(set, k)[j]
    BY <1>2, ChosenDiffer DEF Configuration
<1> QED
    BY <1>3, ChoicesDiffer
\* The configurations are all combinations of the manifestations, as many as the
\* product of the sizes of the factors (foreach_configuration).
THEOREM EnumerationIsComplete ==
    ASSUME NEW set, IsConfigurationSet(set)
    PROVE  /\ Count(set) \in Nat \ {0}
           /\ {Configuration(set, i) : i \in 0 .. Count(set) - 1} = Combinations(set)
           /\ IsFiniteSet(Combinations(set))
           /\ Cardinality(Combinations(set)) = Count(set)
<1> DEFINE K == Count(set)
<1>1. K \in Nat \ {0}
    <2>1. Len(set) \in 0 .. Len(set)
        BY FactorShape
    <2> QED
        BY <2>1, ProductsRecursion DEF Count
<1>2. \A i \in 0 .. K - 1 : Configuration(set, i) \in Combinations(set)
    <2> TAKE i \in 0 .. K - 1
    <2>1. i \in Nat
        OBVIOUS
    <2>2. Choice(set, i) \in Choices(set)
        BY <2>1, ChoiceIsPossible
    <2> QED
        BY <2>2 DEF Configuration, Combinations
<1>3. ASSUME NEW x \in Combinations(set) PROVE \E i \in 0 .. K - 1 : x = Configuration(set, i)
    <2>1. PICK c \in Choices(set) : x = Chosen(set, c)
        BY DEF Combinations
    <2>2. PICK i \in 0 .. K - 1 : \A j \in 1 .. Len(set) : Choice(set, i)[j] = c[j]
        BY EveryChoiceIsMade
    <2>3. Choice(set, i) = c
        <3>1. DOMAIN set = 1 .. Len(set)
            BY FactorShape
        <3>2. \A j \in DOMAIN set : Choice(set, i)[j] = c[j]
            BY <2>2, <3>1
        <3>3. c = [j \in DOMAIN set |-> c[j]]
            BY DEF Choices
        <3>4. Choice(set, i) = [j \in DOMAIN set |-> Choice(set, i)[j]]
            BY DEF Choice
        <3> QED
            BY <3>2, <3>3, <3>4
    <2> QED
        BY <2>1, <2>3 DEF Configuration
<1>4. {Configuration(set, i) : i \in 0 .. K - 1} = Combinations(set)
    BY <1>2, <1>3
<1> DEFINE f == [n \in 1 .. K |-> Configuration(set, n - 1)]
<1>5. f \in Bijection(1 .. K, Combinations(set))
    <2>1. \A n \in 1 .. K : n - 1 \in 0 .. K - 1
        BY <1>1
    <2>2. f \in [1 .. K -> Combinations(set)]
        BY <1>2, <2>1
    <2>3. \A m, n \in 1 .. K : f[m] = f[n] => m = n
        <3> SUFFICES ASSUME NEW m \in 1 .. K, NEW n \in 1 .. K, f[m] = f[n]
                     PROVE  m = n
            OBVIOUS
        <3>1. Configuration(set, m - 1) = Configuration(set, n - 1)
            OBVIOUS
        <3>2. m - 1 = n - 1
            BY <2>1, <3>1, ConfigurationsDiffer
        <3> QED
            BY <3>2
    <2>4. \A x \in Combinations(set) : \E n \in 1 .. K : f[n] = x
        <3> TAKE x \in Combinations(set)
        <3>1. PICK i \in 0 .. K - 1 : x = Configuration(set, i)
            BY <1>3
        <3>2. i + 1 \in 1 .. K /\ (i + 1) - 1 = i
            BY <1>1
        <3> QED
            BY <3>1, <3>2
    <2> HIDE DEF f
    <2> QED
        BY <2>2, <2>3, <2>4 DEF Bijection, Injection, Surjection, IsInjective
<1>6. IsFiniteSet(Combinations(set)) /\ Cardinality(Combinations(set)) = K
    <2>1. ExistsBijection(1 .. K, Combinations(set))
        BY <1>5 DEF ExistsBijection
    <2>2. IsFiniteSet(1 .. K) /\ Cardinality(1 .. K) = K
        BY <1>1, FS_Interval
    <2> QED
        BY <2>1, <2>2, FS_Bijection
<1> QED
    BY <1>1, <1>4, <1>6
-----------------------------------------------------------------------------
(* Merging and reordering.                                                  *)

\* h tells for each element of t where it is in s, up to place n.
IsSelection(h, t, s, n, places) ==
    /\ h \in [1 .. Len(t) -> 1 .. n]
    /\ \A i, k \in 1 .. Len(t) : i < k => h[i] < h[k]
    /\ \A i \in 1 .. Len(t) : h[i] \in places /\ t[i] = s[h[i]]
    /\ \A m \in 1 .. n : m \in places => \E i \in 1 .. Len(t) : h[i] = m

\* One more place, which is kept or is not.
LEMMA SelectionGrows ==
    ASSUME NEW S, NEW s, NEW t \in Seq(S), NEW n \in Nat, s[n + 1] \in S, NEW places, NEW h,
           IsSelection(h, t, s, n, places)
    PROVE  LET u == IF n + 1 \in places THEN Append(t, s[n + 1]) ELSE t
           IN  u \in Seq(S) /\ \E k : IsSelection(k, u, s, n + 1, places)
<1>1. Len(t) \in Nat
    BY LenProperties
<1>2. CASE n + 1 \notin places
    <2>1. IsSelection(h, t, s, n + 1, places)
        <3>1. h \in [1 .. Len(t) -> 1 .. n + 1]
            BY DEF IsSelection
        <3> QED
            BY <1>1, <1>2, <3>1 DEF IsSelection
    <2> QED
        BY <1>2, <2>1
<1>3. CASE n + 1 \in places
    <2> DEFINE u == Append(t, s[n + 1])
               k == [i \in 1 .. Len(t) + 1 |-> IF i <= Len(t) THEN h[i] ELSE n + 1]
    <2>1. /\ u \in Seq(S) /\ Len(u) = Len(t) + 1
          /\ \A i \in 1 .. Len(t) : u[i] = t[i]
          /\ u[Len(t) + 1] = s[n + 1]
        BY AppendProperties
    <2> HIDE DEF u
    <2>2. \A i \in 1 .. Len(t) : h[i] \in 1 .. n /\ h[i] \in places /\ t[i] = s[h[i]]
        BY DEF IsSelection
    <2>3. k \in [1 .. Len(u) -> 1 .. n + 1]
        BY <1>1, <2>1, <2>2
    <2>4. /\ \A i \in 1 .. Len(t) : k[i] = h[i]
          /\ k[Len(t) + 1] = n + 1
        BY <1>1
    <2> HIDE DEF k
    <2>5. ASSUME NEW i \in 1 .. Len(u), NEW j \in 1 .. Len(u), i < j PROVE k[i] < k[j]
        <3>1. i \in 1 .. Len(t)
            BY <1>1, <2>1, <2>5
        <3>2. CASE j \in 1 .. Len(t)
            BY <2>4, <2>5, <3>1, <3>2 DEF IsSelection
        <3>3. CASE j = Len(t) + 1
            BY <2>2, <2>4, <3>1, <3>3
        <3> QED
            BY <1>1, <2>1, <3>2, <3>3
    <2>6. ASSUME NEW i \in 1 .. Len(u) PROVE k[i] \in places /\ u[i] = s[k[i]]
        <3>1. CASE i \in 1 .. Len(t)
            BY <2>1, <2>2, <2>4, <3>1
        <3>2. CASE i = Len(t) + 1
            BY <1>3, <2>1, <2>4, <3>2
        <3> QED
            BY <1>1, <2>1, <3>1, <3>2
    <2>7. ASSUME NEW m \in 1 .. n + 1, m \in places PROVE \E i \in 1 .. Len(u) : k[i] = m
        <3>1. CASE m = n + 1
            BY <1>1, <2>1, <2>4, <3>1
        <3>2. CASE m \in 1 .. n
            <4>1. PICK i \in 1 .. Len(t) : h[i] = m
                BY <2>7, <3>2 DEF IsSelection
            <4>2. i \in 1 .. Len(u)
                BY <1>1, <2>1
            <4> QED
                BY <2>4, <4>1, <4>2
        <3> QED
            BY <3>1, <3>2
    <2>8. IsSelection(k, u, s, n + 1, places)
        BY <2>3, <2>5, <2>6, <2>7 DEF IsSelection
    <2> QED
        BY <1>3, <2>1, <2>8 DEF u
<1> QED
    BY <1>2, <1>3

\* Kept returns the elements at the places, in their order.
LEMMA KeptIsSelection ==
    ASSUME NEW S, NEW s \in Seq(S), NEW places
    PROVE  /\ Kept(s, places) \in Seq(S)
           /\ \E h : IsSelection(h, Kept(s, places), s, Len(s), places)
<1> DEFINE N == Len(s)
           next(t, n) == IF n \in places THEN Append(t, s[n]) ELSE t
           g == [x \in Seq(S) \X (1 .. N) |-> next(x[1], x[2])]
           IsKept(f) == f = [n \in 0 .. N |-> IF n = 0 THEN <<>> ELSE next(f[n - 1], n)]
<1>1. N \in Nat /\ \A n \in 1 .. N : s[n] \in S
    BY LenProperties, ElementOfSeq
<1>2. \A t \in Seq(S), n \in 1 .. N : next(t, n) \in Seq(S)
    BY <1>1, AppendProperties
<1> HIDE DEF N, next
<1>3. IsStep(g, N, Seq(S))
    BY <1>2 DEF IsStep
<1>4. <<>> \in Seq(S) /\ Len(<<>>) = 0
    BY EmptySeq
<1> HIDE DEF g
<1>5. PICK f : IsIteration(f, N, Seq(S), <<>>, g)
    BY <1>1, <1>3, <1>4, Recursion
<1>6. /\ f \in [0 .. N -> Seq(S)] /\ f[0] = <<>>
      /\ \A n \in 1 .. N : f[n] = next(f[n - 1], n)
    <2>1. f \in [0 .. N -> Seq(S)] /\ f[0] = <<>>
        BY <1>5 DEF IsIteration
    <2>2. ASSUME NEW n \in 1 .. N PROVE f[n] = next(f[n - 1], n)
        <3>1. n - 1 \in 0 .. N
            BY <1>1
        <3>2. f[n - 1] \in Seq(S)
            BY <2>1, <3>1
        <3> QED
            BY <1>5, <3>2 DEF g, IsIteration
    <2> QED
        BY <2>1, <2>2
<1>7. IsKept(f)
    BY <1>1, <1>6
<1> DEFINE p == CHOOSE q : IsKept(q)
<1>8. Kept(s, places) = p[N]
    BY DEF Kept, N, next
<1>9. IsKept(p)
    BY <1>7
<1> HIDE DEF p
<1>10. p[0] = <<>> /\ \A n \in 1 .. N : p[n] = next(p[n - 1], n)
    BY <1>1, <1>9
<1> DEFINE T == {n \in 0 .. N : p[n] \in Seq(S) /\ \E h : IsSelection(h, p[n], s, n, places)}
<1>11. 0 \in T
    <2> DEFINE h == [i \in {} |-> 1]
    <2>1. IsSelection(h, <<>>, s, 0, places)
        <3>1. h \in [1 .. 0 -> 1 .. 0]
            OBVIOUS
        <3> QED
            BY <1>4, <3>1 DEF IsSelection
    <2> HIDE DEF h
    <2>2. p[0] \in Seq(S) /\ \E k : IsSelection(k, p[0], s, 0, places)
        BY <1>4, <1>10, <2>1
    <2> QED
        BY <1>1, <2>2
<1>12. ASSUME NEW n \in 0 .. N - 1, n \in T PROVE n + 1 \in T
    <2>1. n + 1 \in 1 .. N /\ n + 1 \in 0 .. N /\ (n + 1) - 1 = n /\ n \in Nat
        BY <1>1
    <2>2. PICK h : IsSelection(h, p[n], s, n, places)
        BY <1>12
    <2>3. p[n] \in Seq(S) /\ s[n + 1] \in S
        BY <1>1, <1>12, <2>1
    <2>4. p[n + 1] = IF n + 1 \in places THEN Append(p[n], s[n + 1]) ELSE p[n]
        BY <1>10, <2>1 DEF next
    <2>5. /\ p[n + 1] \in Seq(S)
          /\ \E k : IsSelection(k, p[n + 1], s, n + 1, places)
        BY <2>1, <2>2, <2>3, <2>4, SelectionGrows
    <2> QED
        BY <2>1, <2>5
<1>13. N \in T
    <2> HIDE DEF T
    <2>1. \A n \in 0 .. N : n \in T
        BY <1>1, <1>11, <1>12, Induction
    <2> QED
        BY <1>1, <2>1
<1> QED
    BY <1>8, <1>13 DEF N

\* replace_factor: the set stays a set, has the factor, and every other factor that it
\* had.
LEMMA ReplaceFactorIsSet ==
    ASSUME NEW set, IsConfigurationSet(set), NEW name, NEW value
    PROVE  IsConfigurationSet(ReplaceFactor(set, Factor(name, <<value>>)))
<1> DEFINE f == Factor(name, <<value>>)
           T == {set[i] : i \in DOMAIN set} \cup {f}
           new == ReplaceFactor(set, f)
<1>1. set \in Seq(T) /\ DOMAIN set = 1 .. Len(set) /\ Len(set) \in Nat
    <2>1. IsSequence(set) /\ \A i \in DOMAIN set : set[i] \in T
        BY DEF IsConfigurationSet
    <2> HIDE DEF T
    <2> QED
        BY <2>1, SequenceShape, SequenceOf
<1>2. f.name = name /\ f.values = <<value>> /\ f \in T
    BY DEF Factor
<1>3. IsSequence(f.values) /\ f.values # <<>> /\ AllDifferent(f.values)
    BY <1>2, SingletonShape
<1>4. /\ new \in Seq(T)
      /\ \A i, k \in DOMAIN new : new[i].name = new[k].name => i = k
      /\ \A i \in DOMAIN new : new[i] = f \/ \E k \in DOMAIN set : new[i] = set[k]
    <2>1. CASE HasFactor(set, name)
        <3> DEFINE at == Position(set, name)
        <3>1. at \in DOMAIN set /\ set[at].name = name
            BY <2>1 DEF HasFactor, Position
        <3>2. new = [set EXCEPT ![at] = f]
            BY <1>2, <2>1 DEF ReplaceFactor
        <3> HIDE DEF at, f, new, T
        <3>3. new \in Seq(T) /\ DOMAIN new = DOMAIN set
            BY <1>1, <1>2, <3>1, <3>2, ExceptSeq
        <3>4. \A i \in DOMAIN set : new[i] = IF i = at THEN f ELSE set[i]
            BY <3>2
        <3>5. \A i \in DOMAIN set : new[i].name = set[i].name
            BY <1>2, <3>1, <3>4
        <3> QED
            BY <3>3, <3>4, <3>5 DEF IsConfigurationSet
    <2>2. CASE ~HasFactor(set, name)
        <3>1. new = Append(set, f)
            BY <1>2, <2>2 DEF ReplaceFactor
        <3>2. \A i \in DOMAIN set : set[i].name # name
            BY <2>2 DEF HasFactor
        <3> HIDE DEF f, new, T
        <3>3. /\ new \in Seq(T) /\ Len(new) = Len(set) + 1
              /\ \A i \in 1 .. Len(set) : new[i] = set[i]
              /\ new[Len(set) + 1] = f
            BY <1>1, <1>2, <3>1, AppendProperties
        <3>4. DOMAIN new = 1 .. Len(set) + 1
            BY <3>3, LenProperties
        <3>5. \A i \in DOMAIN new : i \in DOMAIN set \/ i = Len(set) + 1
            BY <1>1, <3>4
        <3> QED
            BY <1>1, <1>2, <3>2, <3>3, <3>5 DEF IsConfigurationSet
    <2> QED
        BY <2>1, <2>2
<1> HIDE DEF f, new, T
<1>5. IsSequence(new)
    BY <1>4, SequenceOf
<1> QED
    BY <1>3, <1>4, <1>5 DEF IsConfigurationSet, new, f

\* Of a sequence without repetitions a part has none.
LEMMA KeptShape ==
    ASSUME NEW s, IsSequence(s), NEW places
    PROVE  /\ IsSequence(Kept(s, places))
           /\ \A i \in DOMAIN Kept(s, places) :
                  \E m \in DOMAIN s : m \in places /\ Kept(s, places)[i] = s[m]
           /\ AllDifferent(s) => AllDifferent(Kept(s, places))
<1> DEFINE S == {s[i] : i \in DOMAIN s}
           t == Kept(s, places)
<1>1. s \in Seq(S) /\ DOMAIN s = 1 .. Len(s) /\ Len(s) \in Nat
    BY SequenceShape
<1> HIDE DEF S
<1>2. t \in Seq(S) /\ \E h : IsSelection(h, t, s, Len(s), places)
    BY <1>1, KeptIsSelection
<1> HIDE DEF t
<1>3. IsSequence(t) /\ DOMAIN t = 1 .. Len(t) /\ Len(t) \in Nat
    BY <1>2, SequenceOf, LenProperties
<1>4. PICK h : IsSelection(h, t, s, Len(s), places)
    BY <1>2
<1>5. \A i \in DOMAIN t : h[i] \in DOMAIN s /\ h[i] \in places /\ t[i] = s[h[i]]
    BY <1>1, <1>3, <1>4 DEF IsSelection
<1>6. ASSUME AllDifferent(s) PROVE AllDifferent(t)
    <2> SUFFICES ASSUME NEW i \in DOMAIN t, NEW k \in DOMAIN t, t[i] = t[k] PROVE i = k
        BY DEF AllDifferent
    <2>1. h[i] = h[k]
        BY <1>5, <1>6 DEF AllDifferent
    <2>2. i \in 1 .. Len(t) /\ k \in 1 .. Len(t)
        BY <1>3
    <2>3. h[i] \in Nat /\ h[k] \in Nat
        BY <1>1, <1>5
    <2>4. ~(i < k) /\ ~(k < i)
        BY <1>4, <2>1, <2>2, <2>3 DEF IsSelection
    <2> QED
        BY <2>2, <2>4
<1> QED
    BY <1>3, <1>5, <1>6 DEF t

\* merge: what is appended are factors of the other set that are not in this one.
LEMMA MergeIsSet ==
    ASSUME NEW set, IsConfigurationSet(set), NEW other, IsConfigurationSet(other)
    PROVE  IsConfigurationSet(Merge(set, other))
<1> DEFINE places == {j \in DOMAIN other : ~HasFactor(set, other[j].name)}
           t == Kept(other, places)
           T == {set[i] : i \in DOMAIN set} \cup {t[i] : i \in DOMAIN t}
           new == Merge(set, other)
<1>1. IsSequence(set) /\ IsSequence(other)
    BY DEF IsConfigurationSet
<1>2. /\ IsSequence(t)
      /\ \A i \in DOMAIN t : \E m \in DOMAIN other : m \in places /\ t[i] = other[m]
    <2> HIDE DEF places
    <2> QED
        BY <1>1, KeptShape
<1>3. \A i, k \in DOMAIN t : t[i].name = t[k].name => i = k
    <2>1. AllDifferent(other)
        BY DEF IsConfigurationSet, AllDifferent
    <2>2. AllDifferent(t)
        BY <1>1, <2>1, KeptShape
    <2> HIDE DEF t, places
    <2>3. \A i, k \in DOMAIN t : t[i].name = t[k].name => t[i] = t[k]
        BY <1>2 DEF IsConfigurationSet
    <2> QED
        BY <2>2, <2>3 DEF AllDifferent
<1>4. \A i \in DOMAIN set, k \in DOMAIN t : set[i].name # t[k].name
    <2> HIDE DEF t
    <2> QED
        BY <1>2 DEF HasFactor
<1>5. /\ set \in Seq(T) /\ DOMAIN set = 1 .. Len(set) /\ Len(set) \in Nat
      /\ t \in Seq(T) /\ DOMAIN t = 1 .. Len(t) /\ Len(t) \in Nat
    <2>1. (\A i \in DOMAIN set : set[i] \in T) /\ (\A i \in DOMAIN t : t[i] \in T)
        OBVIOUS
    <2> HIDE DEF T, t
    <2> QED
        BY <1>1, <1>2, <2>1, SequenceShape, SequenceOf
<1>6. /\ new \in Seq(T) /\ Len(new) = Len(set) + Len(t)
      /\ \A i \in 1 .. Len(set) + Len(t) :
             new[i] = IF i <= Len(set) THEN set[i] ELSE t[i - Len(set)]
    <2> HIDE DEF T
    <2> QED
        BY <1>5, ConcatProperties DEF Merge
<1> HIDE DEF T, t, new
<1>7. IsSequence(new) /\ DOMAIN new = 1 .. Len(set) + Len(t)
    BY <1>6, SequenceOf, LenProperties
<1>8. \A i \in DOMAIN new :
          \/ i \in DOMAIN set /\ new[i] = set[i]
          \/ i - Len(set) \in DOMAIN t /\ i > Len(set) /\ new[i] = t[i - Len(set)]
    BY <1>5, <1>6, <1>7
<1>9. ASSUME NEW i \in DOMAIN new, NEW k \in DOMAIN new, new[i].name = new[k].name
      PROVE  i = k
    <2>1. CASE i \in DOMAIN set /\ new[i] = set[i]
        BY <1>4, <1>8, <1>9, <2>1 DEF IsConfigurationSet
    <2>2. CASE i - Len(set) \in DOMAIN t /\ i > Len(set) /\ new[i] = t[i - Len(set)]
        <3>1. CASE k \in DOMAIN set /\ new[k] = set[k]
            BY <1>4, <1>9, <2>2, <3>1
        <3>2. CASE k - Len(set) \in DOMAIN t /\ k > Len(set) /\ new[k] = t[k - Len(set)]
            <4>1. i - Len(set) = k - Len(set)
                BY <1>3, <1>9, <2>2, <3>2
            <4> QED
                BY <1>5, <1>7, <4>1
        <3> QED
            BY <1>8, <3>1, <3>2
    <2> QED
        BY <1>8, <2>1, <2>2
<1>10. \A i \in DOMAIN new : \/ \E k \in DOMAIN set : new[i] = set[k]
                             \/ \E k \in DOMAIN other : new[i] = other[k]
    BY <1>2, <1>8 DEF t
<1> QED
    BY <1>7, <1>9, <1>10 DEF IsConfigurationSet, new

\* A step of optimise_order.
LEMMA SwapIsSet ==
    ASSUME NEW set, IsConfigurationSet(set), NEW s \in DOMAIN set, NEW d \in DOMAIN set
    PROVE  /\ IsConfigurationSet(Swap(set, s, d))
           /\ DOMAIN Swap(set, s, d) = DOMAIN set
           /\ \A i \in DOMAIN set :
                  Swap(set, s, d)[i] = IF i = d THEN set[s]
                                       ELSE IF i = s THEN set[d] ELSE set[i]
<1> DEFINE S == {set[i] : i \in DOMAIN set}
           new == Swap(set, s, d)
<1>1. set \in Seq(S) /\ DOMAIN set = 1 .. Len(set) /\ Len(set) \in Nat
    BY SequenceShape DEF IsConfigurationSet
<1>2. set[s] \in S /\ set[d] \in S
    OBVIOUS
<1>3. /\ DOMAIN new = DOMAIN set
      /\ \A i \in DOMAIN set :
             new[i] = IF i = d THEN set[s] ELSE IF i = s THEN set[d] ELSE set[i]
    BY DEF Swap
<1>4. new \in Seq(S)
    <2> HIDE DEF S
    <2>1. [set EXCEPT ![s] = set[d]] \in Seq(S) /\ Len([set EXCEPT ![s] = set[d]]) = Len(set)
        BY <1>1, <1>2, ExceptSeq
    <2>2. [[set EXCEPT ![s] = set[d]] EXCEPT ![d] = set[s]] \in Seq(S)
        BY <1>1, <1>2, <2>1, ExceptSeq
    <2>3. new = [[set EXCEPT ![s] = set[d]] EXCEPT ![d] = set[s]]
        BY DEF Swap
    <2> QED
        BY <2>2, <2>3
<1> HIDE DEF new, S
<1>5. IsSequence(new)
    BY <1>4, SequenceOf
<1>6. \A i, k \in DOMAIN new : new[i].name = new[k].name => i = k
    BY <1>3 DEF IsConfigurationSet
<1>7. \A i \in DOMAIN new : \E k \in DOMAIN set : new[i] = set[k]
    BY <1>3
<1> QED
    BY <1>3, <1>5, <1>6, <1>7 DEF IsConfigurationSet, new

\* The factors that optimise_order finds; there are no more of them than factors.
LEMMA FoundShape ==
    ASSUME NEW set, IsConfigurationSet(set), NEW names, IsSequence(names), AllDifferent(names)
    PROVE  /\ Len(Found(set, names)) \in 0 .. Len(set)
           /\ DOMAIN Found(set, names) = 1 .. Len(Found(set, names))
           /\ AllDifferent(Found(set, names))
           /\ \A k \in DOMAIN Found(set, names) : HasFactor(set, Found(set, names)[k])
<1> DEFINE places == {i \in DOMAIN names : HasFactor(set, names[i])}
           f == Found(set, names)
           at == [k \in 1 .. Len(f) |-> Position(set, f[k])]
<1>1. /\ IsSequence(f) /\ AllDifferent(f)
      /\ \A k \in DOMAIN f : \E m \in DOMAIN names : m \in places /\ f[k] = names[m]
    <2> HIDE DEF places
    <2>1. f = Kept(names, places)
        BY DEF Found, places
    <2> HIDE DEF f
    <2> QED
        BY <2>1, KeptShape
<1>2. \A k \in DOMAIN f : HasFactor(set, f[k])
    <2> HIDE DEF f
    <2> QED
        BY <1>1
<1>3. Len(f) \in Nat /\ DOMAIN f = 1 .. Len(f)
    <2> HIDE DEF f
    <2> QED
        BY <1>1, SequenceShape
<1>4. Len(set) \in Nat /\ DOMAIN set = 1 .. Len(set)
    BY FactorShape
<1> HIDE DEF f, places
<1>5. \A k \in 1 .. Len(f) : at[k] \in 1 .. Len(set) /\ set[at[k]].name = f[k]
    BY <1>2, <1>3, <1>4 DEF HasFactor, Position
<1>6. at \in Injection(1 .. Len(f), 1 .. Len(set))
    <2>1. at \in [1 .. Len(f) -> 1 .. Len(set)]
        BY <1>5
    <2>2. \A k, m \in 1 .. Len(f) : at[k] = at[m] => k = m
        BY <1>1, <1>3, <1>5 DEF AllDifferent
    <2> HIDE DEF at
    <2> QED
        BY <2>1, <2>2 DEF Injection, IsInjective
<1>7. /\ IsFiniteSet(1 .. Len(set)) /\ Cardinality(1 .. Len(set)) = Len(set)
      /\ Cardinality(1 .. Len(f)) = Len(f)
    <2> DEFINE m == Len(f)
               n == Len(set)
    <2>1. m \in Nat /\ n \in Nat
        BY <1>3, <1>4
    <2> HIDE DEF m, n, at
    <2>2. IsFiniteSet(1 .. n) /\ Cardinality(1 .. n) = n /\ Cardinality(1 .. m) = m
        BY <2>1, FS_Interval
    <2> QED
        BY <2>2 DEF m, n
<1>8. Len(f) <= Len(set)
    <2> HIDE DEF at
    <2> QED
        BY <1>6, <1>7, FS_Injection
<1> QED
    BY <1>1, <1>2, <1>3, <1>4, <1>8 DEF f

\* The same factors in another order.
IsReordering(new, set) ==
    /\ IsConfigurationSet(new)
    /\ DOMAIN new = DOMAIN set
    /\ {new[i] : i \in DOMAIN new} = {set[i] : i \in DOMAIN set}

\* The first n names are at the end, the first of them in the last place.
ArePlaced(new, names, n) == \A k \in 1 .. n : new[Len(new) - (k - 1)].name = names[k]

\* A swap puts one more factor into its place and leaves the others there.
LEMMA SwapPlaces ==
    ASSUME NEW set, IsConfigurationSet(set), NEW t, IsReordering(t, set),
           NEW names, AllDifferent(names), DOMAIN names = 1 .. Len(names),
           Len(names) \in 0 .. Len(set),
           NEW n \in 1 .. Len(names), HasFactor(set, names[n])
    PROVE  LET u == Swap(t, Position(t, names[n]), Len(set) - (n - 1))
           IN  /\ IsReordering(u, set)
               /\ ArePlaced(t, names, n - 1) => ArePlaced(u, names, n)
<1> DEFINE s == Position(t, names[n])
           d == Len(set) - (n - 1)
           u == Swap(t, s, d)
<1>1. /\ Len(set) \in Nat /\ DOMAIN set = 1 .. Len(set)
      /\ Len(t) = Len(set) /\ DOMAIN t = 1 .. Len(t)
    BY FactorShape DEF IsReordering
<1>2. s \in DOMAIN t /\ t[s].name = names[n]
    <2>1. PICK i \in DOMAIN set : set[i].name = names[n]
        BY DEF HasFactor
    <2>2. PICK k \in DOMAIN t : t[k] = set[i]
        BY <2>1 DEF IsReordering
    <2> QED
        BY <2>1, <2>2 DEF Position
<1>3. d \in DOMAIN t
    BY <1>1
<1> HIDE DEF s, d
<1>4. /\ IsConfigurationSet(u) /\ DOMAIN u = DOMAIN t
      /\ \A i \in DOMAIN t : u[i] = IF i = d THEN t[s] ELSE IF i = s THEN t[d] ELSE t[i]
    <2>1. IsConfigurationSet(t)
        BY DEF IsReordering
    <2> QED
        BY <1>2, <1>3, <2>1, SwapIsSet
<1> HIDE DEF u
<1>5. {u[i] : i \in DOMAIN u} = {t[i] : i \in DOMAIN t}
    <2>1. \A i \in DOMAIN u : \E k \in DOMAIN t : u[i] = t[k]
        BY <1>2, <1>3, <1>4
    <2>2. \A k \in DOMAIN t : \E i \in DOMAIN u : u[i] = t[k]
        BY <1>2, <1>3, <1>4
    <2> QED
        BY <2>1, <2>2
<1>6. IsReordering(u, set)
    BY <1>4, <1>5 DEF IsReordering
<1>7. ASSUME ArePlaced(t, names, n - 1), NEW k \in 1 .. n
      PROVE  u[Len(u) - (k - 1)].name = names[k]
    <2>1. Len(u) = Len(set)
        BY <1>1, <1>4, FactorShape
    <2>2. CASE k = n
        BY <1>2, <1>3, <1>4, <2>1, <2>2 DEF d
    <2>3. CASE k # n
        <3> DEFINE i == Len(set) - (k - 1)
        <3>1. k \in 1 .. n - 1 /\ i \in DOMAIN t /\ i # d
            BY <1>1, <2>3 DEF d
        <3>2. t[i].name = names[k]
            BY <1>1, <1>7, <3>1 DEF ArePlaced
        <3>3. names[k] # names[n]
            BY <2>3, <3>1 DEF AllDifferent
        <3>4. u[i] = t[i]
            BY <1>2, <1>4, <3>1, <3>2, <3>3
        <3> QED
            BY <2>1, <3>2, <3>4
    <2> QED
        BY <2>2, <2>3
<1> QED
    BY <1>6, <1>7 DEF ArePlaced, u, s, d

\* optimise_order keeps all factors and puts those that it finds at the end, the
\* first of the names, which the benchmarks list as the most expensive, last.
THEOREM OptimiseOrderPermutes ==
    ASSUME NEW set, IsConfigurationSet(set), NEW names, IsSequence(names), AllDifferent(names)
    PROVE  /\ IsReordering(OptimiseOrder(set, names), set)
           /\ ArePlaced(OptimiseOrder(set, names), Found(set, names), Len(Found(set, names)))
<1> DEFINE found == Found(set, names)
           N == Len(found)
           S == {t \in Seq({set[i] : i \in DOMAIN set}) : IsReordering(t, set)}
           next(t, n) == Swap(t, Position(t, found[n]), Len(set) - (n - 1))
           g == [x \in S \X (1 .. N) |-> next(x[1], x[2])]
           IsOrder(f) == f = [n \in 0 .. N |-> IF n = 0 THEN set ELSE next(f[n - 1], n)]
<1>1. /\ N \in 0 .. Len(set) /\ N \in Nat /\ DOMAIN found = 1 .. N /\ AllDifferent(found)
      /\ \A n \in 1 .. N : HasFactor(set, found[n])
    <2>1. Len(set) \in Nat
        BY FactorShape
    <2> HIDE DEF found
    <2> QED
        BY <2>1, FoundShape DEF found
<1> HIDE DEF found
<1>2. ASSUME NEW t, IsReordering(t, set), NEW n \in 1 .. N
      PROVE  /\ IsReordering(next(t, n), set)
             /\ ArePlaced(t, found, n - 1) => ArePlaced(next(t, n), found, n)
    BY <1>1, <1>2, SwapPlaces
<1> HIDE DEF next
<1>3. ASSUME NEW t, IsReordering(t, set) PROVE t \in S
    <2> DEFINE T == {set[i] : i \in DOMAIN set}
    <2>1. IsSequence(t) /\ \A i \in DOMAIN t : t[i] \in T
        BY <1>3 DEF IsReordering, IsConfigurationSet
    <2> HIDE DEF T
    <2>2. t \in Seq(T)
        BY <2>1, SequenceOf
    <2> QED
        BY <1>3, <2>2 DEF T
<1>4. \A t \in S : IsReordering(t, set)
    OBVIOUS
<1> HIDE DEF S, N
<1>5. IsStep(g, N, S)
    BY <1>2, <1>3, <1>4 DEF IsStep
<1>6. IsReordering(set, set)
    BY DEF IsReordering
<1> HIDE DEF g
<1>7. PICK f : IsIteration(f, N, S, set, g)
    BY <1>1, <1>3, <1>5, <1>6, Recursion
<1>8. /\ f \in [0 .. N -> S] /\ f[0] = set
      /\ \A n \in 1 .. N : f[n] = next(f[n - 1], n)
    <2>1. f \in [0 .. N -> S] /\ f[0] = set
        BY <1>7 DEF IsIteration
    <2>2. ASSUME NEW n \in 1 .. N PROVE f[n] = next(f[n - 1], n)
        <3>1. n - 1 \in 0 .. N
            BY <1>1
        <3>2. f[n - 1] \in S
            BY <2>1, <3>1
        <3> QED
            BY <1>7, <3>2 DEF g, IsIteration
    <2> QED
        BY <2>1, <2>2
<1>9. IsOrder(f)
    BY <1>1, <1>8
<1> DEFINE p == CHOOSE q : IsOrder(q)
<1>10. OptimiseOrder(set, names) = p[N]
    BY DEF OptimiseOrder, N, next, found
<1>11. IsOrder(p)
    BY <1>9
<1> HIDE DEF p
<1>12. p[0] = set /\ \A n \in 1 .. N : p[n] = next(p[n - 1], n)
    BY <1>1, <1>11
<1> DEFINE T == {n \in 0 .. N : IsReordering(p[n], set) /\ ArePlaced(p[n], found, n)}
<1>13. 0 \in T
    BY <1>1, <1>6, <1>12 DEF ArePlaced
<1>14. ASSUME NEW n \in 0 .. N - 1, n \in T PROVE n + 1 \in T
    <2>1. n + 1 \in 1 .. N /\ n + 1 \in 0 .. N /\ (n + 1) - 1 = n
        BY <1>1
    <2>2. p[n + 1] = next(p[n], n + 1)
        BY <1>12, <2>1
    <2> QED
        BY <1>2, <1>14, <2>1, <2>2
<1>15. N \in T
    <2> HIDE DEF T
    <2>1. \A n \in 0 .. N : n \in T
        BY <1>1, <1>13, <1>14, Induction
    <2> QED
        BY <1>1, <2>1
<1> QED
    BY <1>10, <1>15 DEF N, found

\* The last factor never returns to a manifestation it has left.
LEMMA LastChoiceMonotonic ==
    ASSUME NEW set, IsConfigurationSet(set), Len(set) > 0,
           NEW i \in 0 .. Count(set) - 1, NEW k \in 0 .. Count(set) - 1, i <= k
    PROVE  Choice(set, i)[Len(set)] <= Choice(set, k)[Len(set)]
<1> DEFINE n == Len(set)
           r == Len(set[n].values)
           d == Products(set)[n - 1]
<1>1. n \in Nat /\ n \in 1 .. n /\ n - 1 \in 0 .. n /\ r \in Nat \ {0}
    BY FactorShape
<1>2. d \in Nat \ {0} /\ Count(set) = d * r
    BY <1>1, ProductsRecursion DEF Count
<1>3. /\ Choice(set, i)[n] = ((i \div d) % r) + 1
      /\ Choice(set, k)[n] = ((k \div d) % r) + 1
    BY <1>1, ChoiceShape
<1> HIDE DEF d, r
<1>4. ASSUME NEW x \in 0 .. d * r - 1 PROVE (x \div d) \in 0 .. r - 1 /\ (x \div d) % r = x \div d
    <2>1. x \in Nat /\ x < d * r
        BY <1>1, <1>2
    <2> DEFINE q == x \div d
    <2>2. q \in Nat /\ d * q <= x
        BY <1>2, <2>1, QuotientBounds
    <2> HIDE DEF q
    <2>3. q < r
        <3> SUFFICES ASSUME r <= q PROVE FALSE
            BY <1>1, <2>2
        <3>1. r = q \/ d * r + d <= d * q
            BY <1>1, <1>2, <2>2, TimesMonotonic
        <3>2. d * r \in Nat /\ d * q \in Nat
            BY <1>1, <1>2, <2>2
        <3> QED
            BY <1>2, <2>1, <2>2, <3>1, <3>2
    <2>4. q % r = q
        BY <1>1, <2>2, <2>3
    <2> QED
        BY <1>1, <2>2, <2>3, <2>4 DEF q
<1>5. i \div d <= k \div d
    BY <1>2, QuotientMonotonic
<1>6. (i \div d) \in 0 .. r - 1 /\ (k \div d) \in 0 .. r - 1
    BY <1>2, <1>4
<1>7. (i \div d) % r = i \div d /\ (k \div d) % r = k \div d
    BY <1>2, <1>4
<1>8. Choice(set, i)[n] = (i \div d) + 1 /\ Choice(set, k)[n] = (k \div d) + 1
    BY <1>3, <1>7
<1> DEFINE a == i \div d
           b == k \div d
<1>9. a \in Nat /\ b \in Nat /\ a <= b
    BY <1>1, <1>5, <1>6
<1> HIDE DEF a, b, n
<1>10. Choice(set, i)[n] = a + 1 /\ Choice(set, k)[n] = b + 1
    BY <1>8 DEF a, b
<1>11. Choice(set, i)[n] <= Choice(set, k)[n]
    BY <1>9, <1>10
<1> QED
    BY <1>11 DEF n

\* What optimise_order is for: if the configurations of the set that it returns are
\* enumerated, the first factor it finds takes each manifestation only once.  (Not
\* so if factors are appended afterwards, as benchmark_base::run does with the
\* defaults.)
THEOREM OrderMinimisesSwitching ==
    ASSUME NEW set, IsConfigurationSet(set), NEW names, IsSequence(names), AllDifferent(names),
           Found(set, names) # <<>>
    PROVE  LET new == OptimiseOrder(set, names)
               name == Found(set, names)[1]
               at(i) == Configuration(new, i)[name]
           IN  \A i, j, k \in 0 .. Count(new) - 1 :
                   i <= j /\ j <= k /\ at(i) = at(k) => at(j) = at(i)
<1> DEFINE new == OptimiseOrder(set, names)
           found == Found(set, names)
           name == found[1]
           n == Len(new)
           values == new[n].values
<1>1. /\ IsReordering(new, set) /\ ArePlaced(new, found, Len(found))
      /\ IsConfigurationSet(new)
    BY OptimiseOrderPermutes DEF IsReordering
<1>2. Len(found) \in Nat \ {0}
    <2>1. IsSequence(Found(set, names))
        BY KeptShape DEF Found
    <2> QED
        BY <2>1, SequenceShape
<1>3. n \in Nat /\ DOMAIN new = 1 .. n /\ n > 0
    <2>1. Len(new) \in Nat /\ DOMAIN new = 1 .. Len(new)
        BY <1>1, FactorShape
    <2>2. DOMAIN new = DOMAIN set /\ DOMAIN set = 1 .. Len(set) /\ Len(set) \in Nat
        BY <1>1, FactorShape DEF IsReordering
    <2>3. Len(found) \in 0 .. Len(set)
        BY FoundShape
    <2> HIDE DEF new, found
    <2> QED
        BY <1>2, <2>1, <2>2, <2>3
<1>4. new[n].name = name
    <2> HIDE DEF new, found
    <2>1. 1 \in 1 .. Len(found) /\ n - (1 - 1) = n
        BY <1>2, <1>3
    <2> QED
        BY <1>1, <2>1 DEF ArePlaced
<1> HIDE DEF new, found
<1>5. n \in DOMAIN new /\ Position(new, name) = n
    BY <1>1, <1>3, <1>4, PositionOfName
<1>6. AllDifferent(values)
    BY <1>1, <1>5 DEF IsConfigurationSet
<1>7. ASSUME NEW i \in 0 .. Count(new) - 1
      PROVE  /\ Configuration(new, i)[name] = values[Choice(new, i)[n]]
             /\ Choice(new, i)[n] \in DOMAIN values
             /\ Choice(new, i)[n] \in Int
    <2>1. name \in {new[j].name : j \in DOMAIN new}
        BY <1>4, <1>5
    <2>2. Choice(new, i)[n] \in 1 .. Len(values) /\ DOMAIN values = 1 .. Len(values)
        BY <1>1, <1>3, FactorShape, ChoiceShape
    <2> QED
        BY <1>5, <2>1, <2>2 DEF Configuration, Chosen
<1> SUFFICES ASSUME NEW i \in 0 .. Count(new) - 1, NEW j \in 0 .. Count(new) - 1,
                    NEW k \in 0 .. Count(new) - 1, i <= j, j <= k,
                    Configuration(new, i)[name] = Configuration(new, k)[name]
             PROVE  Configuration(new, j)[name] = Configuration(new, i)[name]
    BY DEF new, found
<1>8. Choice(new, i)[n] = Choice(new, k)[n]
    BY <1>6, <1>7 DEF AllDifferent
<1>9. /\ Choice(new, i)[n] <= Choice(new, j)[n]
      /\ Choice(new, j)[n] <= Choice(new, k)[n]
    BY <1>1, <1>3, LastChoiceMonotonic
<1>10. Choice(new, j)[n] = Choice(new, i)[n]
    BY <1>7, <1>8, <1>9
<1> QED
    BY <1>7, <1>10
=============================================================================
