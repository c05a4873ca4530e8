-------------------------- MODULE ConfigurationSet --------------------------
(***************************************************************************)
(* trrojan::configuration_set: an ordered list of factors with different   *)
(* names, each of which has at least one manifestation, and how it is      *)
(* merged, ordered and enumerated                                          *)
(* (trrojancore/src/configuration_set.cpp).                                *)
(***************************************************************************)
EXTENDS Integers, Sequences

Factor(name, values) == [name |-> name, values |-> values]

\* add_factor accepts no factor without a manifestation and no name twice; a factor
\* has as many "different manifestations" as its size says (factor.h).
IsSequence(s) == s \in Seq({s[i] : i \in DOMAIN s})
AllDifferent(s) == \A i, k \in DOMAIN s : s[i] = s[k] => i = k

IsConfigurationSet(set) ==
    /\ IsSequence(set)
    /\ \A j, k \in DOMAIN set : set[j].name = set[k].name => j = k
    /\ \A j \in DOMAIN set : /\ IsSequence(set[j].values) /\ set[j].values # <<>>
                             /\ AllDifferent(set[j].values)

\* findFactor: the position of a factor that the set contains.
HasFactor(set, name) == \E j \in DOMAIN set : set[j].name = name
Position(set, name) == CHOOSE j \in DOMAIN set : set[j].name = name

\* replace_factor, which adds a factor that there is not.
ReplaceFactor(set, factor) ==
    IF HasFactor(set, factor.name)
    THEN [set EXCEPT ![Position(set, factor.name)] = factor]
    ELSE Append(set, factor)

\* The elements of a sequence that are at the given places, in their order.
Kept(s, places) ==
    LET kept[n \in 0 .. Len(s)] ==
            IF n = 0 THEN <<>>
            ELSE IF n \in places THEN Append(kept[n - 1], s[n]) ELSE kept[n - 1]
    IN  kept[Len(s)]

\* merge(other, false): factors of the set take precedence, others are appended.
Merge(set, other) ==
    set \o Kept(other, {j \in DOMAIN other : ~HasFactor(set, other[j].name)})

\* optimise_order: each factor found is swapped with the one at the end, or next
\* to the one found before.
Found(set, names) == Kept(names, {i \in DOMAIN names : HasFactor(set, names[i])})

Swap(set, s, d) == [set EXCEPT ![s] = set[d], ![d] = set[s]]

OptimiseOrder(set, names) ==
    LET found == Found(set, names)
        order[n \in 0 .. Len(found)] ==
            IF n = 0 THEN set
            ELSE Swap(order[n - 1], Position(order[n - 1], found[n]),
                      Len(set) - (n - 1))
    IN  order[Len(found)]

\* foreach_configuration: the number of configurations of the first n factors.
Products(set) ==
    LET product[n \in 0 .. Len(set)] ==
            IF n = 0 THEN 1 ELSE product[n - 1] * Len(set[n].values)
    IN  product

Count(set) == Products(set)[Len(set)]

\* How many configurations follow each other with the same manifestation of factor
\* j.  Variant: the sizes up to, and including, that of the factor.
FrequencyOfNext(set, j) == Products(set)[j]

Frequency(set, j) == Products(set)[j - 1]

\* Which manifestation of each factor is in configuration i, i < Count(set), and
\* the configuration: a manifestation for each name.
Choice(set, i) ==
    [j \in DOMAIN set |-> ((i \div Frequency(set, j)) % Len(set[j].values)) + 1]

Chosen(set, choice) ==
    [name \in {set[j].name : j \in DOMAIN set} |->
        LET j == Position(set, name) IN set[j].values[choice[j]]]

Configuration(set, i) == Chosen(set, Choice(set, i))

\* What the enumeration is to produce: every choice of one manifestation of each
\* factor.
Choices(set) ==
    {c \in [DOMAIN set -> UNION {DOMAIN set[j].values : j \in DOMAIN set}] :
        \A j \in DOMAIN set : c[j] \in DOMAIN set[j].values}

Combinations(set) == {Chosen(set, c) : c \in Choices(set)}
=============================================================================
