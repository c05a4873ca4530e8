-------------------------- MODULE ExecutiveProofs --------------------------
(***************************************************************************)
(* What holds of Executive for every script, all plugins, benchmarks,      *)
(* environments and devices: which environment is active when, which       *)
(* benchmark runs a section, and how often benchmarks are created.         *)
(***************************************************************************)
EXTENDS Executive, ConfigurationSetProofs

\* No two environments are active, also before and after the loops.  Until the
\* stack is unwound, what is current has been activated with success.
Activation ==
    /\ status \in [Known -> {"initialised", "active", "finalised"}]
    /\ \A e \in Known : status[e] = "active" => e = environment
    /\ main \in Running \cup {"section"} /\ environment \in Known =>
           status[environment] = "active"
    /\ main \in {"device", "configuration"} => environment = env
    /\ main \in {"finalise", "done"} => \A e \in Known : status[e] # "active"

\* If a plugin is selected, the list of benchmarks is its own.
Selection ==
    /\ plugin # NoPlugin => plugin \in Plugins /\ benchmarks = plugin
    /\ main \in Running => plugin # NoPlugin /\ plugin = Current.plugin

\* Enabling an environment deactivates the one before it.
LEMMA EnableActivates ==
    ASSUME NEW e, Activation, main \in Running, Enable(e)
    PROVE  /\ status' \in [Known -> {"initialised", "active", "finalised"}]
           /\ environment' = e
           /\ \A x \in Known : status'[x] = "active" => x = e
           /\ e \in Known => status'[e] = "active"
BY DEF Enable, Activation

\* An environment that fails to be enabled is current, but nothing is active.
LEMMA FailurePreserves ==
    ASSUME NEW e, Activation, EnableFails(e)
    PROVE  Activation'
BY DEF EnableFails, Activation, Running

LEMMA ActivationInit == Init => Activation
BY DEF Init, Activation, Running, Known

LEMMA ActivationStep == Activation /\ [Next]_vars => Activation'
<1> SUFFICES ASSUME Activation, [Next]_vars PROVE Activation'
    OBVIOUS
<1> USE DEF Running
<1>1. ASSUME NextSection PROVE Activation'
    BY <1>1 DEF NextSection, Activation, current
<1>2. ASSUME EndOfScript PROVE Activation'
    BY <1>2 DEF EndOfScript, Activation, current
<1>3. ASSUME PrepareNone PROVE Activation'
    BY <1>3 DEF PrepareNone, Activation, current
<1>4. ASSUME PrepareEnvironment PROVE Activation'
    <2>1. Enable(Head(todo)) /\ main = "prepare" /\ main' = main
        BY <1>4 DEF PrepareEnvironment
    <2> QED
        BY <2>1, EnableActivates DEF Activation
<1>5. ASSUME PrepareFails \/ RunFails PROVE Activation'
    BY <1>5, FailurePreserves DEF PrepareFails, RunFails
<1>6. ASSUME Prepared PROVE Activation'
    BY <1>6 DEF Prepared, Activation, current
<1>7. ASSUME RunEnvironment PROVE Activation'
    <2>1. Enable(env') /\ main = "environment" /\ main' = "device"
        BY <1>7 DEF RunEnvironment
    <2> QED
        BY <2>1, EnableActivates DEF Activation
<1>8. ASSUME EndOfSection PROVE Activation'
    BY <1>8 DEF EndOfSection, Activation, current
<1>9. ASSUME RunDevice PROVE Activation'
    BY <1>9 DEF RunDevice, Activation, current, nest
<1>10. ASSUME EndOfEnvironment PROVE Activation'
    BY <1>10 DEF EndOfEnvironment, Activation, current
<1>11. ASSUME Skip \/ Measure PROVE Activation'
    BY <1>11 DEF Skip, Measure, Activation, current, nest
<1>12. ASSUME MeasureFails \/ EndOfConfigurations PROVE Activation'
    BY <1>12 DEF MeasureFails, EndOfConfigurations, NextDevice, Activation, current
<1>13. ASSUME Deactivate PROVE Activation'
    BY <1>13 DEF Deactivate, Activation
<1>14. ASSUME Finalise PROVE Activation'
    BY <1>14 DEF Finalise, Activation
<1>15. ASSUME UNCHANGED vars PROVE Activation'
    BY <1>15 DEF Activation, vars, current, nest
<1> QED
    BY <1>1, <1>2, <1>3, <1>4, <1>5, <1>6, <1>7, <1>8, <1>9, <1>10, <1>11, <1>12,
       <1>13, <1>14, <1>15 DEF Next

\* At most the current environment is active, and the one in a configuration is
\* (enable_environment and its calls in prepare_env_devs and run).
THEOREM CurrentIsActive == Spec => []OnlyCurrentIsActive
<1>1. Activation => OnlyCurrentIsActive
    BY DEF Activation, OnlyCurrentIsActive, Running
<1> QED
    BY <1>1, ActivationInit, ActivationStep, PTL DEF Spec

\* ~executive finalises no environment that is active, whether or not the
\* program ends because one could not be activated.
THEOREM NoneFinalisedWhileActive == Spec => DeactivatedFirst
<1> DEFINE Step == \A e \in Known : status[e] = "active" => status'[e] # "finalised"
<1>1. ASSUME Activation, [Next]_vars PROVE Step
    <2>1. ASSUME Finalise PROVE Step
        BY <1>1, <2>1 DEF Finalise, Activation
    <2>2. ASSUME UNCHANGED current PROVE Step
        BY <2>2 DEF current
    <2>3. ASSUME NEW e, Enable(e) \/ EnableFails(e) PROVE Step
        BY <1>1, <2>3 DEF Enable, EnableFails, Activation
    <2>4. ASSUME Deactivate PROVE Step
        BY <1>1, <2>4 DEF Deactivate, Activation
    <2> QED
        BY <1>1, <2>1, <2>2, <2>3, <2>4
        DEF Next, NextSection, EndOfScript, PrepareNone, PrepareEnvironment,
            PrepareFails, Prepared, RunEnvironment, RunFails, EndOfSection, RunDevice,
            EndOfEnvironment, Skip, Measure, MeasureFails, EndOfConfigurations,
            NextDevice, vars
<1> QED
    BY <1>1, ActivationInit, ActivationStep, PTL DEF Spec, DeactivatedFirst

-----------------------------------------------------------------------------
LEMMA SelectionInit == Init => Selection
BY DEF Init, Selection, Running

LEMMA SelectionStep == Selection /\ [Next]_vars => Selection'
<1> SUFFICES ASSUME Selection, [Next]_vars PROVE Selection'
    OBVIOUS
<1> USE DEF Running
<1>1. ASSUME NextSection PROVE Selection'
    <2> DEFINE next == Section(section + 1)
    <2>1. NextPlugin(next.plugin) /\ script' = script /\ section' = section + 1
        BY <1>1 DEF NextSection
    <2>2. Current' = next
        BY <2>1 DEF Current, Section, Precedes
    <2>3. /\ plugin' # NoPlugin => plugin' \in Plugins /\ benchmarks' = plugin'
          /\ plugin' # NoPlugin => plugin' = next.plugin
        BY <2>1 DEF NextPlugin, Selection
    <2>4. main = "section" /\ (main' \in Running => plugin' # NoPlugin)
        BY <1>1 DEF NextSection
    <2> QED
        BY <2>2, <2>3, <2>4 DEF Selection
<1>2. ASSUME UNCHANGED job, main' \in Running => main \in Running PROVE Selection'
    BY <1>2 DEF Selection, job, Current, Section, Precedes
<1>3. Next => NextSection \/ (UNCHANGED job /\ (main' \in Running => main \in Running))
    BY DEF Next, EndOfScript, PrepareNone, PrepareEnvironment, PrepareFails, Prepared,
           RunEnvironment, RunFails, EnableFails, EndOfSection, RunDevice,
           EndOfEnvironment, Skip, Measure, MeasureFails, EndOfConfigurations,
           NextDevice, Deactivate, Finalise
<1> QED
    BY <1>1, <1>2, <1>3 DEF vars

\* The benchmark that runs is from the plugin of its section, also after plugins
\* that have not been found (curPlugin and benchmarks in trroll).
THEOREM RunByItsPlugin == Spec => []BenchmarkOfSection
<1>1. Selection => BenchmarkOfSection
    BY DEF Selection, BenchmarkOfSection
<1> QED
    BY <1>1, SelectionInit, SelectionStep, PTL DEF Spec
-----------------------------------------------------------------------------
(* The sections are sorted: Precedes is a strict total order on the jobs, so *)
(* the number of those before a job is its place, and every place is taken.  *)

Places == 1 .. Len(script)
Before(i) == {j \in DOMAIN script : Precedes(j, i)}
Rank(i) == 1 + Cardinality(Before(i))

LEMMA PlacesAreJobs ==
    ASSUME script \in Scripts
    PROVE  /\ Len(script) \in Nat /\ DOMAIN script = Places
           /\ \A i \in Places : script[i].plugin \in Nat /\ script[i].benchmark \in Nat
BY ScriptAssumption DEF Places

LEMMA PrecedesIsTotalOrder ==
    ASSUME script \in Scripts, NEW i \in Places, NEW j \in Places, NEW k \in Places
    PROVE  /\ ~Precedes(i, i)
           /\ Precedes(i, j) /\ Precedes(j, k) => Precedes(i, k)
           /\ i # j => Precedes(i, j) \/ Precedes(j, i)
           /\ Precedes(i, j) => script[i].plugin <= script[j].plugin
<1>1. /\ script[i].plugin \in Nat /\ script[i].benchmark \in Nat /\ i \in Nat
      /\ script[j].plugin \in Nat /\ script[j].benchmark \in Nat /\ j \in Nat
      /\ script[k].plugin \in Nat /\ script[k].benchmark \in Nat /\ k \in Nat
    BY PlacesAreJobs DEF Places
<1> QED
    BY <1>1 DEF Precedes

\* A job that precedes another has a smaller rank, and there are as many ranks as
\* places.
LEMMA RankOrders ==
    ASSUME script \in Scripts, NEW i \in Places
    PROVE  /\ Rank(i) \in Places
           /\ \A k \in Places : Precedes(i, k) => Rank(i) < Rank(k)
<1>1. DOMAIN script = Places /\ Len(script) \in Nat
    BY PlacesAreJobs
<1>2. IsFiniteSet(Places) /\ Cardinality(Places) = Len(script)
    BY <1>1, FS_Interval DEF Places
<1>3. \A k \in Places : IsFiniteSet(Before(k)) /\ Cardinality(Before(k)) \in Nat
    <2> TAKE k \in Places
    <2>1. Before(k) \in SUBSET Places
        BY <1>1 DEF Before
    <2> QED
        BY <1>2, <2>1, FS_Subset, FS_CardinalityType
<1>4. Cardinality(Before(i)) <= Len(script) - 1
    <2>1. Before(i) \in SUBSET (Places \ {i})
        BY <1>1, PrecedesIsTotalOrder DEF Before
    <2>2. IsFiniteSet(Places \ {i}) /\ Cardinality(Places \ {i}) = Len(script) - 1
        BY <1>2, FS_RemoveElement
    <2> QED
        BY <2>1, <2>2, FS_Subset
<1>5. ASSUME NEW k \in Places, Precedes(i, k) PROVE Rank(i) < Rank(k)
    <2>1. Before(i) \in SUBSET Before(k)
        BY <1>1, <1>5, PrecedesIsTotalOrder DEF Before
    <2>2. i \in Before(k) /\ i \notin Before(i)
        BY <1>1, <1>5, PrecedesIsTotalOrder DEF Before
    <2>3. /\ Cardinality(Before(i)) <= Cardinality(Before(k))
          /\ Cardinality(Before(i)) # Cardinality(Before(k))
        BY <1>3, <2>1, <2>2, FS_Subset
    <2> QED
        BY <1>3, <2>3 DEF Rank
<1> QED
    BY <1>1, <1>3, <1>4, <1>5 DEF Rank, Places

\* The CHOOSE of Section finds a job for every place.
LEMMA EveryPlaceIsTaken ==
    ASSUME script \in Scripts, NEW n \in Places
    PROVE  \E i \in Places : n = Rank(i) /\ Section(n) = script[i]
<1> DEFINE rank == [i \in Places |-> Rank(i)]
<1>1. DOMAIN script = Places /\ Len(script) \in Nat
    BY PlacesAreJobs
<1>2. IsFiniteSet(Places)
    BY <1>1, FS_Interval DEF Places
<1>3. rank \in [Places -> Places]
    BY RankOrders
<1>4. \A i, k \in Places : Rank(i) = Rank(k) => i = k
    <2> SUFFICES ASSUME NEW i \in Places, NEW k \in Places, i # k PROVE Rank(i) # Rank(k)
        OBVIOUS
    <2>1. Rank(i) < Rank(k) \/ Rank(k) < Rank(i)
        BY PrecedesIsTotalOrder, RankOrders
    <2>2. Rank(i) \in Nat /\ Rank(k) \in Nat
        BY <1>1, RankOrders DEF Places
    <2> QED
        BY <2>1, <2>2
<1>5. rank \in Injection(Places, Places)
    BY <1>3, <1>4 DEF Injection, IsInjective
<1>6. rank \in Surjection(Places, Places)
    BY <1>2, <1>5, FS_Injection
<1>7. PICK i \in Places : rank[i] = n
    BY <1>6 DEF Surjection
<1>8. \E k \in DOMAIN script : n = 1 + Cardinality({j \in DOMAIN script : Precedes(j, k)})
    BY <1>1, <1>7 DEF Rank, Before
<1> DEFINE At == CHOOSE k \in DOMAIN script :
                    n = 1 + Cardinality({j \in DOMAIN script : Precedes(j, k)})
<1>9. At \in Places /\ n = Rank(At)
    BY <1>1, <1>8 DEF Rank, Before
<1>10. Section(n) = script[At]
    BY DEF Section
<1> QED
    BY <1>9, <1>10

\* The sections of a plugin follow each other (the stable sorts in trroll).
LEMMA SectionsAreGrouped ==
    ASSUME script \in Scripts, NEW m \in Places, NEW n \in Places, m <= n
    PROVE  /\ Section(m).plugin \in Nat /\ Section(n).plugin \in Nat
           /\ Section(m).plugin <= Section(n).plugin
<1>1. PICK i \in Places : m = Rank(i) /\ Section(m) = script[i]
    BY EveryPlaceIsTaken
<1>2. PICK k \in Places : n = Rank(k) /\ Section(n) = script[k]
    BY EveryPlaceIsTaken
<1>3. script[i].plugin \in Nat /\ script[k].plugin \in Nat
    BY PlacesAreJobs
<1>4. m \in Nat /\ n \in Nat
    BY PlacesAreJobs DEF Places
<1>5. i = k \/ Precedes(i, k)
    BY <1>1, <1>2, <1>4, PrecedesIsTotalOrder, RankOrders
<1> QED
    BY <1>1, <1>2, <1>3, <1>5, PrecedesIsTotalOrder

\* The plugin of the last section is selected if there is one.
Selected ==
    /\ script \in Scripts
    /\ section \in 0 .. Len(script)
    /\ plugin # NoPlugin => plugin \in Plugins /\ benchmarks = plugin
    /\ section > 0 /\ Current.plugin \in Plugins => plugin = Current.plugin

LEMMA SelectedInit == Init => Selected
BY ScriptAssumption DEF Init, Selected

LEMMA JobUnlessNextSection == Next => NextSection \/ UNCHANGED job
BY DEF Next, EndOfScript, PrepareNone, PrepareEnvironment, PrepareFails, Prepared,
       RunEnvironment, RunFails, EnableFails, EndOfSection, RunDevice,
       EndOfEnvironment, Skip, Measure, MeasureFails, EndOfConfigurations,
       NextDevice, Deactivate, Finalise

LEMMA SelectedStep == Selected /\ [Next]_vars => Selected'
<1> SUFFICES ASSUME Selected, [Next]_vars PROVE Selected'
    OBVIOUS
<1>1. ASSUME NextSection PROVE Selected'
    <2> DEFINE next == Section(section + 1)
    <2>1. /\ NextPlugin(next.plugin)
          /\ script' = script /\ section' = section + 1 /\ section < Len(script)
        BY <1>1 DEF NextSection
    <2>2. Current' = next
        BY <2>1 DEF Current, Section, Precedes
    <2>3. section' \in 0 .. Len(script)
        BY <2>1, ScriptAssumption DEF Selected
    <2>4. /\ plugin' # NoPlugin => plugin' \in Plugins /\ benchmarks' = plugin'
          /\ next.plugin \in Plugins => plugin' = next.plugin
        BY <2>1 DEF NextPlugin, Selected
    <2> HIDE DEF next
    <2> QED
        BY <2>1, <2>2, <2>3, <2>4 DEF Selected
<1>2. ASSUME UNCHANGED job PROVE Selected'
    BY <1>2 DEF Selected, job, Current, Section, Precedes
<1> QED
    BY <1>1, <1>2, JobUnlessNextSection DEF vars

\* The benchmarks of a plugin are retrieved once, whatever the script: sections
\* of it that are apart in the file are neighbours in the loop, and a plugin that
\* is not found is never between them (curPlugin in trroll).
THEOREM BenchmarksCreatedOnce == Spec => CreatedOnce
<1> DEFINE Step == benchmarks' # benchmarks =>
                       \A n \in 1 .. section : Section(n).plugin # benchmarks'
<1>1. ASSUME Selected, [Next]_vars PROVE Step
    <2>1. CASE UNCHANGED job
        BY <2>1 DEF job
    <2>2. CASE NextSection
        <3> SUFFICES ASSUME benchmarks' # benchmarks,
                            NEW n \in 1 .. section, Section(n).plugin = benchmarks'
                     PROVE  FALSE
            OBVIOUS
        <3> DEFINE p == Section(section + 1).plugin
        <3>1. section < Len(script) /\ NextPlugin(p)
            BY <2>2 DEF NextSection
        <3>2. p \in Plugins /\ benchmarks' = p /\ plugin # p
            BY <1>1, <3>1, ScriptAssumption DEF NextPlugin, Selected
        <3>3. /\ n \in Places /\ section \in Places /\ section + 1 \in Places
              /\ n <= section /\ section <= section + 1 /\ section > 0
            BY <1>1, <3>1, ScriptAssumption DEF Selected, Places
        <3>4. Section(n).plugin <= Section(section).plugin /\ Section(section).plugin <= p
            BY <1>1, <3>3, SectionsAreGrouped DEF Selected
        <3>5. Section(n).plugin \in Nat /\ Section(section).plugin \in Nat /\ p \in Nat
            BY <1>1, <3>3, SectionsAreGrouped DEF Selected
        <3>6. Current.plugin = p
            BY <3>2, <3>4, <3>5 DEF Current
        <3> QED
            BY <1>1, <3>2, <3>3, <3>6 DEF Selected
    <2> QED
        BY <1>1, <2>1, <2>2, JobUnlessNextSection DEF vars
<1> QED
    BY <1>1, SelectedInit, SelectedStep, PTL DEF Spec, CreatedOnce

-----------------------------------------------------------------------------
(* What the variables hold.                                                 *)

Elements(s) == {s[i] : i \in DOMAIN s}
IsList(s) == IsSequence(s) /\ AllDifferent(s)
AnEnvironment == Known \cup {NoEnvironment}

\* What the variables hold, and that there is a benchmark for the section.
Shape ==
    /\ IsConfigurationSet(configs) /\ IsConfigurationSet(set)
    /\ IsList(todo) /\ Elements(todo) \subseteq AnEnvironment
    /\ IsSequence(eds) /\ IsList(devices) /\ IsSequence(output)
    /\ \A i \in DOMAIN eds :
           eds[i].environment \in AnEnvironment /\ IsList(eds[i].devices)
    /\ main \in Running =>
           benchmarks \in Plugins /\ Current.benchmark \in DOMAIN Benchmarks[benchmarks]

Typed == TypeOK /\ Selection /\ Shape

LEMMA EmptyShape == IsConfigurationSet(<<>>) /\ IsList(<<>>) /\ Elements(<<>>) = {}
<1>1. <<>> \in Seq({}) /\ DOMAIN <<>> = {}
    OBVIOUS
<1>2. IsSequence(<<>>)
    BY <1>1, SequenceOf
<1> QED
    BY <1>1, <1>2 DEF IsConfigurationSet, IsList, AllDifferent, Elements

\* The elements of a list but for the first, which is not among them.
LEMMA TailShape ==
    ASSUME NEW s, IsSequence(s), s # <<>>
    PROVE  /\ IsSequence(Tail(s))
           /\ 1 \in DOMAIN s /\ Head(s) = s[1]
           /\ \A i \in DOMAIN Tail(s) : /\ i \in Nat \ {0} /\ i + 1 \in DOMAIN s
                                        /\ Tail(s)[i] = s[i + 1]
           /\ AllDifferent(s) => AllDifferent(Tail(s)) /\ Head(s) \notin Elements(Tail(s))
           /\ Elements(Tail(s)) \subseteq Elements(s) /\ Head(s) \in Elements(s)
<1> DEFINE S == {s[i] : i \in DOMAIN s}
           t == Tail(s)
<1>1. s \in Seq(S) /\ DOMAIN s = 1 .. Len(s) /\ Len(s) \in Nat \ {0}
    BY SequenceShape
<1> HIDE DEF S
<1>2. t \in Seq(S) /\ Len(t) = Len(s) - 1 /\ \A i \in 1 .. Len(t) : t[i] = s[i + 1]
    BY <1>1, HeadTailProperties
<1>3. Head(s) = s[1]
    OBVIOUS
<1> HIDE DEF t
<1>4. IsSequence(t) /\ DOMAIN t = 1 .. Len(t)
    BY <1>2, SequenceOf, LenProperties
<1>5. \A i \in DOMAIN t : i \in Nat \ {0} /\ i + 1 \in DOMAIN s /\ t[i] = s[i + 1]
    BY <1>1, <1>2, <1>4
<1>6. 1 \in DOMAIN s
    BY <1>1
<1>7. ASSUME AllDifferent(s) PROVE AllDifferent(t) /\ Head(s) \notin Elements(t)
    <2>1. ASSUME NEW i \in DOMAIN t, NEW k \in DOMAIN t, t[i] = t[k] PROVE i = k
        <3>1. i + 1 = k + 1
            BY <1>5, <1>7, <2>1 DEF AllDifferent
        <3> QED
            BY <1>5, <3>1
    <2>2. ASSUME NEW i \in DOMAIN t, t[i] = s[1] PROVE FALSE
        <3>1. i + 1 = 1
            BY <1>5, <1>6, <1>7, <2>2 DEF AllDifferent
        <3> QED
            BY <1>5, <3>1
    <2> QED
        BY <1>3, <2>1, <2>2 DEF AllDifferent, Elements
<1>8. Elements(t) \subseteq Elements(s) /\ Head(s) \in Elements(s)
    BY <1>3, <1>5, <1>6 DEF Elements
<1> QED
    BY <1>3, <1>4, <1>5, <1>6, <1>7, <1>8 DEF t

LEMMA AppendShape ==
    ASSUME NEW s, IsSequence(s), NEW x
    PROVE  /\ IsSequence(Append(s, x))
           /\ Len(s) \in Nat /\ DOMAIN s = 1 .. Len(s)
           /\ DOMAIN Append(s, x) = DOMAIN s \cup {Len(s) + 1}
           /\ \A i \in DOMAIN s : Append(s, x)[i] = s[i]
           /\ Append(s, x)[Len(s) + 1] = x
<1> DEFINE S == {s[i] : i \in DOMAIN s} \cup {x}
           t == Append(s, x)
<1>1. s \in Seq(S) /\ DOMAIN s = 1 .. Len(s) /\ Len(s) \in Nat
    <2>1. x \in S /\ \A i \in DOMAIN s : s[i] \in S
        OBVIOUS
    <2> HIDE DEF S
    <2> QED
        BY <2>1, SequenceShape, SequenceOf
<1>2. x \in S
    OBVIOUS
<1> HIDE DEF S
<1>3. /\ t \in Seq(S) /\ Len(t) = Len(s) + 1
      /\ \A i \in 1 .. Len(s) : t[i] = s[i]
      /\ t[Len(s) + 1] = x
    BY <1>1, <1>2, AppendProperties
<1> HIDE DEF t
<1>4. IsSequence(t) /\ DOMAIN t = 1 .. Len(s) + 1
    BY <1>3, SequenceOf, LenProperties
<1>5. DOMAIN t = DOMAIN s \cup {Len(s) + 1}
    BY <1>1, <1>4
<1> QED
    BY <1>1, <1>3, <1>4, <1>5 DEF t

\* The factors of a section (trroll).
LEMMA FactorsAreSet ==
    ASSUME NEW entry, IsConfigurationSet(entry.configs),
           NEW benchmark, IsList(benchmark.expensive)
    PROVE  IsConfigurationSet(Factors(entry, benchmark))
<1> DEFINE added == ReplaceFactor(entry.configs,
                                  Factor("power_collector", <<"collector">>))
<1>1. IsConfigurationSet(added)
    BY ReplaceFactorIsSet
<1> HIDE DEF added
<1>2. IsReordering(OptimiseOrder(added, benchmark.expensive), added)
    BY <1>1, OptimiseOrderPermutes DEF IsList
<1> QED
    BY <1>2 DEF IsReordering, Factors, added

\* A factor that the set has.
LEMMA ValuesAreList ==
    ASSUME NEW factors, IsConfigurationSet(factors), NEW name, HasFactor(factors, name)
    PROVE  IsList(factors[Position(factors, name)].values)
<1>1. Position(factors, name) \in DOMAIN factors
    BY DEF HasFactor, Position
<1> QED
    BY <1>1 DEF IsConfigurationSet, IsList

\* The environments of a section are known, and each is there once.
LEMMA RequestedEnvironmentsAreList ==
    ASSUME NEW factors, IsConfigurationSet(factors)
    PROVE  /\ IsList(RequestedEnvironments(factors))
           /\ Elements(RequestedEnvironments(factors)) \subseteq AnEnvironment
<1>1. CASE HasFactor(factors, "environment")
    <2> DEFINE names == factors[Position(factors, "environment")].values
               places == {i \in DOMAIN names : names[i] \in Known}
    <2>1. IsList(names)
        BY <1>1, ValuesAreList
    <2>2. RequestedEnvironments(factors) = Kept(names, places)
        BY <1>1 DEF RequestedEnvironments
    <2>3. \A i \in places : names[i] \in Known
        OBVIOUS
    <2> HIDE DEF names, places
    <2>4. /\ IsSequence(Kept(names, places)) /\ AllDifferent(Kept(names, places))
          /\ \A i \in DOMAIN Kept(names, places) :
                 \E m \in DOMAIN names : m \in places /\ Kept(names, places)[i] = names[m]
        BY <2>1, KeptShape DEF IsList
    <2> QED
        BY <2>2, <2>3, <2>4 DEF IsList, Elements, AnEnvironment
<1>2. CASE ~HasFactor(factors, "environment")
    BY <1>2, EnvironmentAssumption
    DEF RequestedEnvironments, IsList, Elements, AnEnvironment, Known
<1> QED
    BY <1>1, <1>2

\* The same for the devices of an environment.
LEMMA RequestedDevicesAreList ==
    ASSUME IsConfigurationSet(configs), NEW e \in Known
    PROVE  IsList(RequestedDevices(e))
<1>1. IsList(Devices[e])
    BY EnvironmentAssumption DEF Known, IsList
<1>2. CASE HasFactor(configs, "device")
    <2> DEFINE named == configs[Position(configs, "device")].values
               has == {Devices[e][i] : i \in DOMAIN Devices[e]}
               places == {i \in DOMAIN named : named[i] \in has}
    <2>1. IsList(named)
        BY <1>2, ValuesAreList
    <2>2. RequestedDevices(e) = Kept(named, places)
        BY <1>2 DEF RequestedDevices
    <2> HIDE DEF named, places
    <2> QED
        BY <2>1, <2>2, KeptShape DEF IsList
<1>3. CASE ~HasFactor(configs, "device")
    BY <1>1, <1>3, SingletonShape DEF RequestedDevices, IsList
<1> QED
    BY <1>2, <1>3

LEMMA TypedInit == Init => Typed
<1> SUFFICES ASSUME Init PROVE Typed
    OBVIOUS
<1>1. TypeOK
    BY ScriptAssumption DEF Init, TypeOK
<1>2. Shape
    BY EmptyShape DEF Init, Shape, IsList, Running
<1> QED
    BY <1>1, <1>2, SelectionInit DEF Typed

\* The jobs of the script.
LEMMA SectionIsJob ==
    ASSUME script \in Scripts, NEW n \in 1 .. Len(script)
    PROVE  IsConfigurationSet(Section(n).configs)
<1>1. PICK i \in Places : Section(n) = script[i]
    BY EveryPlaceIsTaken DEF Places
<1> QED
    BY <1>1, ScriptAssumption, PlacesAreJobs

\* What does not change with the section.
LEMMA JobUnchanged ==
    ASSUME UNCHANGED job
    PROVE  Current' = Current /\ Benchmark' = Benchmark
<1>1. Current' = Current
    BY DEF job, Current, Section, Precedes
<1> QED
    BY <1>1 DEF Benchmark, job

LEMMA BenchmarkShape ==
    ASSUME Typed, main \in Running
    PROVE  IsConfigurationSet(Benchmark.defaults)
BY BenchmarkAssumption DEF Typed, Shape, Benchmark

LEMMA TypedStep == Typed /\ [Next]_vars => Typed'
<1> SUFFICES ASSUME Typed, [Next]_vars PROVE Typed'
    OBVIOUS
<1> USE DEF Running
<1>1. TypeOK /\ Selection /\ Shape /\ Selection'
    BY SelectionStep DEF Typed
<1> SUFFICES TypeOK' /\ Shape'
    BY <1>1 DEF Typed
<1>2. ASSUME UNCHANGED <<main, job, configs, todo, nest, loop, current, output>>
      PROVE  TypeOK' /\ Shape'
    <2>1. TypeOK'
        BY <1>1, <1>2 DEF TypeOK, job, loop, current, nest
    <2> QED
        BY <1>1, <1>2, <2>1, JobUnchanged DEF Shape, job, loop, nest
<1>3. ASSUME NextSection PROVE TypeOK' /\ Shape'
    <2> DEFINE next == Section(section + 1)
    <2>1. /\ main = "section" /\ section < Len(script) /\ section' = section + 1
          /\ NextPlugin(next.plugin)
          /\ UNCHANGED <<script, nest, loop, current, output>>
        BY <1>3 DEF NextSection
    <2>2. script \in Scripts /\ Len(script) \in Nat /\ section \in 0 .. Len(script)
        BY <1>1, ScriptAssumption DEF TypeOK
    <2>3. Current' = next
        BY <2>1 DEF Current, Section, Precedes
    <2>4. IsConfigurationSet(next.configs)
        BY <2>1, <2>2, SectionIsJob
    <2> HIDE DEF next
    <2>5. plugin' \in Plugins \cup {NoPlugin} /\ benchmarks' \in Plugins \cup {NoPlugin}
        BY <1>1, <2>1 DEF NextPlugin, TypeOK
    <2>6. /\ section' \in 0 .. Len(script')
          /\ main' \in {"section", "prepare"}
        BY <1>3, <2>1, <2>2 DEF NextSection
    <2>7. TypeOK'
        BY <1>1, <2>1, <2>5, <2>6 DEF TypeOK, nest, loop, current
    <2>8. CASE plugin' # NoPlugin /\ next.benchmark \in DOMAIN Benchmarks[benchmarks']
        <3> DEFINE benchmark == Benchmarks[benchmarks'][next.benchmark]
        <3>1. configs' = Factors(next, benchmark) /\ todo' = RequestedEnvironments(configs')
            BY <1>3, <2>8 DEF NextSection, next
        <3>2. plugin' = benchmarks' /\ benchmarks' \in Plugins
            BY <1>1, <2>8 DEF Selection
        <3>3. IsList(benchmark.expensive)
            BY <2>8, <3>2, BenchmarkAssumption DEF IsList
        <3> HIDE DEF benchmark
        <3>4. IsConfigurationSet(configs')
            BY <2>4, <3>1, <3>3, FactorsAreSet
        <3>5. IsList(todo') /\ Elements(todo') \subseteq AnEnvironment
            BY <3>1, <3>4, RequestedEnvironmentsAreList
        <3> QED
            BY <1>1, <2>1, <2>3, <2>7, <2>8, <3>2, <3>4, <3>5 DEF Shape, nest, loop
    <2>9. CASE ~(plugin' # NoPlugin /\ next.benchmark \in DOMAIN Benchmarks[benchmarks'])
        <3>1. UNCHANGED <<main, configs, todo>>
            BY <1>3, <2>9 DEF NextSection, next
        <3> QED
            BY <1>1, <2>1, <2>7, <3>1 DEF Shape, nest, loop
    <2> QED
        BY <2>8, <2>9
<1>4. ASSUME EndOfScript \/ Prepared \/ EndOfSection \/ EndOfEnvironment
      PROVE  TypeOK' /\ Shape'
    <2>1. /\ UNCHANGED <<job, configs, todo, nest, loop, current, output>>
          /\ main' \in {"unwind", "environment", "section"}
          /\ main' \in Running => main \in Running
        BY <1>4 DEF EndOfScript, Prepared, EndOfSection, EndOfEnvironment
    <2>2. TypeOK'
        BY <1>1, <2>1 DEF TypeOK, job, loop, current, nest
    <2> QED
        BY <1>1, <2>1, <2>2, JobUnchanged DEF Shape, job, loop, nest
<1>5. ASSUME PrepareNone PROVE TypeOK' /\ Shape'
    <2>1. /\ main = "prepare" /\ todo # <<>> /\ todo' = Tail(todo)
          /\ eds' = Append(eds, [environment |-> NoEnvironment, devices |-> <<NoDevice>>])
          /\ UNCHANGED <<main, job, configs, env, devices, loop, current, output>>
        BY <1>5 DEF PrepareNone
    <2>2. TypeOK'
        BY <1>1, <2>1 DEF TypeOK, job, loop, current
    <2>3. IsList(todo') /\ Elements(todo') \subseteq AnEnvironment
        BY <1>1, <2>1, TailShape DEF Shape, IsList
    <2>4. IsSequence(eds') /\ \A i \in DOMAIN eds' :
              eds'[i].environment \in AnEnvironment /\ IsList(eds'[i].devices)
        <3>1. IsList(<<NoDevice>>) /\ NoEnvironment \in AnEnvironment
            BY SingletonShape DEF IsList, AnEnvironment
        <3> QED
            BY <1>1, <2>1, <3>1, AppendShape DEF Shape
    <2> QED
        BY <1>1, <2>1, <2>2, <2>3, <2>4, JobUnchanged DEF Shape, job, loop
<1>6. ASSUME PrepareEnvironment PROVE TypeOK' /\ Shape'
    <2> DEFINE e == Head(todo)
               entry == [environment |-> e, devices |-> RequestedDevices(e)]
    <2>1. /\ main = "prepare" /\ todo # <<>> /\ todo' = Tail(todo) /\ e # NoEnvironment
          /\ Enable(e) /\ eds' = Append(eds, entry)
          /\ UNCHANGED <<main, job, configs, env, devices, loop, output>>
        BY <1>6 DEF PrepareEnvironment
    <2>2. e \in Known /\ IsList(todo') /\ Elements(todo') \subseteq AnEnvironment
        BY <1>1, <2>1, TailShape DEF Shape, IsList, AnEnvironment
    <2>3. entry.environment \in AnEnvironment /\ IsList(entry.devices)
        BY <1>1, <2>2, RequestedDevicesAreList DEF Shape, AnEnvironment
    <2> HIDE DEF e, entry
    <2>4. TypeOK'
        BY <1>1, <2>1, <2>2 DEF TypeOK, job, loop, Enable
    <2>5. IsSequence(eds') /\ \A i \in DOMAIN eds' :
              eds'[i].environment \in AnEnvironment /\ IsList(eds'[i].devices)
        BY <1>1, <2>1, <2>3, AppendShape DEF Shape
    <2> QED
        BY <1>1, <2>1, <2>2, <2>4, <2>5, JobUnchanged DEF Shape, job, loop
<1>7. ASSUME NEW e \in AnEnvironment, EnableFails(e) PROVE TypeOK' /\ Shape'
    <2>1. TypeOK'
        BY <1>1, <1>7 DEF TypeOK, EnableFails, AnEnvironment, job, loop, nest
    <2> QED
        BY <1>1, <1>7, <2>1, JobUnchanged DEF Shape, EnableFails, job, loop, nest
<1>8. ASSUME PrepareFails PROVE TypeOK' /\ Shape'
    <2>1. EnableFails(Head(todo)) /\ todo # <<>>
        BY <1>8 DEF PrepareFails
    <2>2. Head(todo) \in AnEnvironment
        BY <1>1, <2>1, TailShape DEF Shape, IsList
    <2> QED
        BY <1>7, <2>1, <2>2
<1>9. ASSUME eds # <<>>
      PROVE  /\ IsSequence(Tail(eds))
             /\ \A i \in DOMAIN Tail(eds) :
                    Tail(eds)[i].environment \in AnEnvironment /\ IsList(Tail(eds)[i].devices)
             /\ Head(eds).environment \in AnEnvironment /\ IsList(Head(eds).devices)
    BY <1>1, <1>9, TailShape DEF Shape
<1>10. ASSUME RunEnvironment PROVE TypeOK' /\ Shape'
    <2>1. /\ main = "environment" /\ main' = "device" /\ eds # <<>> /\ eds' = Tail(eds)
          /\ env' = Head(eds).environment /\ devices' = Head(eds).devices
          /\ Enable(env')
          /\ configs' = ReplaceFactor(configs, Factor("environment", <<env'>>))
          /\ UNCHANGED <<job, todo, loop, output>>
        BY <1>10 DEF RunEnvironment
    <2>2. TypeOK'
        BY <1>1, <1>9, <2>1 DEF TypeOK, job, loop, Enable, AnEnvironment
    <2>3. IsConfigurationSet(configs')
        BY <1>1, <2>1, ReplaceFactorIsSet DEF Shape
    <2> QED
        BY <1>1, <1>9, <2>1, <2>2, <2>3, JobUnchanged DEF Shape, job, loop
<1>11. ASSUME RunFails PROVE TypeOK' /\ Shape'
    BY <1>7, <1>9, <1>11 DEF RunFails
<1>12. ASSUME RunDevice PROVE TypeOK' /\ Shape'
    <2>1. /\ main = "device" /\ main' = "configuration" /\ devices # <<>>
          /\ configs' = ReplaceFactor(configs, Factor("device", <<Device>>))
          /\ set' = Merge(configs', Benchmark.defaults)
          /\ index' = 0 /\ completed' = 0
          /\ UNCHANGED <<job, todo, nest, current, output>>
        BY <1>12 DEF RunDevice
    <2>2. TypeOK'
        BY <1>1, <2>1 DEF TypeOK, job, nest, current
    <2>3. IsConfigurationSet(configs')
        BY <1>1, <2>1, ReplaceFactorIsSet DEF Shape
    <2>4. IsConfigurationSet(set')
        <3>1. IsConfigurationSet(Benchmark.defaults)
            BY <2>1, BenchmarkShape
        <3> QED
            BY <2>1, <2>3, <3>1, MergeIsSet
    <2> QED
        BY <1>1, <2>1, <2>2, <2>3, <2>4, JobUnchanged DEF Shape, job, nest
<1>13. ASSUME Skip PROVE TypeOK' /\ Shape'
    <2>1. /\ index' = index + 1 /\ completed' \in {completed, completed + 1}
          /\ UNCHANGED <<main, job, configs, todo, nest, set, current, output>>
        BY <1>13 DEF Skip
    <2>2. TypeOK'
        BY <1>1, <2>1 DEF TypeOK, job, nest, current
    <2> QED
        BY <1>1, <2>1, <2>2, JobUnchanged DEF Shape, job, nest
<1>14. ASSUME Measure PROVE TypeOK' /\ Shape'
    <2> DEFINE result == [section |-> section, environment |-> env,
                          device |-> Device, index |-> index]
    <2>1. /\ index' = index + 1 /\ completed' = completed + 1
          /\ output' = Append(output, result)
          /\ UNCHANGED <<main, job, configs, todo, nest, set, current>>
        BY <1>14 DEF Measure
    <2> HIDE DEF result
    <2>2. TypeOK'
        BY <1>1, <2>1 DEF TypeOK, job, nest, current
    <2>3. IsSequence(output')
        BY <1>1, <2>1, AppendShape DEF Shape
    <2> QED
        BY <1>1, <2>1, <2>2, <2>3, JobUnchanged DEF Shape, job, nest
<1>15. ASSUME MeasureFails \/ EndOfConfigurations PROVE TypeOK' /\ Shape'
    <2>1. /\ main = "configuration" /\ main' = "device" /\ devices' = Tail(devices)
          /\ UNCHANGED <<job, configs, todo, eds, env, loop, current, output>>
        BY <1>15 DEF MeasureFails, EndOfConfigurations, NextDevice
    <2>2. TypeOK'
        BY <1>1, <2>1 DEF TypeOK, job, loop, current
    <2>3. IsList(devices')
        BY <1>1, <2>1, TailShape DEF Shape, TypeOK, IsList
    <2> QED
        BY <1>1, <2>1, <2>2, <2>3, JobUnchanged DEF Shape, job, loop
<1>16. ASSUME Deactivate \/ Finalise PROVE TypeOK' /\ Shape'
    <2>1. /\ main' \in {"finalise", "done"}
          /\ UNCHANGED <<job, configs, todo, nest, loop, output>>
          /\ environment' \in {NoEnvironment, environment}
        BY <1>16 DEF Deactivate, Finalise
    <2>2. status' \in [Known -> {"initialised", "active", "finalised"}]
        BY <1>1, <1>16 DEF Deactivate, Finalise, TypeOK
    <2>3. TypeOK'
        BY <1>1, <2>1, <2>2 DEF TypeOK, job, loop, nest
    <2> QED
        BY <1>1, <2>1, <2>3, JobUnchanged DEF Shape, job, loop, nest
<1> QED
    BY <1>2, <1>3, <1>4, <1>5, <1>6, <1>8, <1>10, <1>11, <1>12, <1>13, <1>14, <1>15, <1>16
    DEF Next, vars

\* All variables keep their types: in particular an environment is never enabled that
\* does not exist, and the benchmark never counts more configurations as completed
\* than it was called with (retval in benchmark_base::run).
THEOREM TypesAreKept == Spec => []TypeOK
<1>1. Typed => TypeOK
    BY DEF Typed
<1> QED
    BY <1>1, TypedInit, TypedStep, PTL DEF Spec

-----------------------------------------------------------------------------
(* Nothing is visited twice, so nothing is measured twice.                  *)

\* No environment is visited twice in a section.
VisitedOnce ==
    /\ \A i, k \in DOMAIN eds : eds[i].environment = eds[k].environment => i = k
    /\ main = "section" => eds = <<>>
    /\ main = "prepare" => \A i \in DOMAIN eds : eds[i].environment \notin Elements(todo)
    /\ main \in {"device", "configuration"} => \A i \in DOMAIN eds : eds[i].environment # env

\* There are no results for what is still to be visited: sections, environments of
\* this one, and devices of this environment.
Visited ==
    /\ \A i \in DOMAIN output : output[i].section \in Nat /\ output[i].section <= section
    /\ main = "prepare" => \A i \in DOMAIN output : output[i].section # section
    /\ main \in {"environment", "device", "configuration"} =>
           \A i \in DOMAIN output, k \in DOMAIN eds :
               output[i].section = section => output[i].environment # eds[k].environment
    /\ main \in {"device", "configuration"} =>
           \A i \in DOMAIN output, k \in DOMAIN devices :
               /\ output[i].section = section /\ output[i].environment = env
               /\ main = "device" \/ k > 1
               => output[i].device # devices[k]

\* The results of a device are those of the configurations enumerated so far.
Measured ==
    main = "configuration" =>
        LET results == Results(env, Device)
        IN  /\ devices # <<>>
            /\ CanRun =>
                /\ completed = index
                /\ \A i, k \in results : output[i].index = output[k].index => i = k
                /\ {output[i].index : i \in results} = {k \in 0 .. index - 1 : k >= ContinueAt}
            /\ ~CanRun => results = {}

Counted == VisitedOnce /\ Visited /\ Measured

\* The first environment to be visited, and those after it.
LEMMA NextToVisit ==
    ASSUME Shape, VisitedOnce, eds # <<>>
    PROVE  /\ 1 \in DOMAIN eds /\ Head(eds) = eds[1]
           /\ \A i \in DOMAIN Tail(eds) : /\ i \in Nat \ {0} /\ i + 1 \in DOMAIN eds
                                          /\ Tail(eds)[i] = eds[i + 1]
           /\ \A i, k \in DOMAIN Tail(eds) :
                  Tail(eds)[i].environment = Tail(eds)[k].environment => i = k
           /\ \A i \in DOMAIN Tail(eds) : Tail(eds)[i].environment # Head(eds).environment
<1>1. /\ 1 \in DOMAIN eds /\ Head(eds) = eds[1]
      /\ \A i \in DOMAIN Tail(eds) : /\ i \in Nat \ {0} /\ i + 1 \in DOMAIN eds
                                     /\ Tail(eds)[i] = eds[i + 1]
    BY TailShape DEF Shape
<1>2. ASSUME NEW i \in DOMAIN Tail(eds), NEW k \in DOMAIN Tail(eds),
             Tail(eds)[i].environment = Tail(eds)[k].environment
      PROVE  i = k
    <2>1. i + 1 = k + 1
        BY <1>1, <1>2 DEF VisitedOnce
    <2> QED
        BY <1>1, <2>1
<1>3. ASSUME NEW i \in DOMAIN Tail(eds), Tail(eds)[i].environment = Head(eds).environment
      PROVE  FALSE
    <2>1. i + 1 = 1
        BY <1>1, <1>3 DEF VisitedOnce
    <2> QED
        BY <1>1, <2>1
<1> QED
    BY <1>1, <1>2, <1>3

\* The lists of environments.
LEMMA VisitedOnceStep == Typed /\ VisitedOnce /\ [Next]_vars => VisitedOnce'
<1> SUFFICES ASSUME Typed, VisitedOnce, [Next]_vars PROVE VisitedOnce'
    OBVIOUS
<1>1. Shape
    BY DEF Typed
<1>2. ASSUME NEW e, IsSequence(eds), main = "prepare", main' = main,
             todo # <<>>, e.environment = Head(todo),
             eds' = Append(eds, e), todo' = Tail(todo)
      PROVE  VisitedOnce'
    <2>1. e.environment \in Elements(todo) /\ e.environment \notin Elements(todo')
          /\ Elements(todo') \subseteq Elements(todo)
        BY <1>1, <1>2, TailShape DEF Shape, IsList
    <2>2. /\ Len(eds) \in Nat /\ DOMAIN eds = 1 .. Len(eds)
          /\ DOMAIN eds' = DOMAIN eds \cup {Len(eds) + 1}
          /\ \A i \in DOMAIN eds : eds'[i] = eds[i]
          /\ eds'[Len(eds) + 1] = e
        BY <1>2, AppendShape
    <2>3. \A i \in DOMAIN eds : eds[i].environment # e.environment
        BY <1>2, <2>1 DEF VisitedOnce
    <2>4. \A i, k \in DOMAIN eds' : eds'[i].environment = eds'[k].environment => i = k
        BY <2>2, <2>3 DEF VisitedOnce
    <2>5. \A i \in DOMAIN eds' : eds'[i].environment \notin Elements(todo')
        BY <1>2, <2>1, <2>2 DEF VisitedOnce
    <2> QED
        BY <1>2, <2>4, <2>5 DEF VisitedOnce
<1>3. CASE PrepareNone
    <2> DEFINE e == [environment |-> NoEnvironment, devices |-> <<NoDevice>>]
    <2>1. e.environment = Head(todo) /\ eds' = Append(eds, e)
        BY <1>3 DEF PrepareNone
    <2> HIDE DEF e
    <2> QED
        BY <1>1, <1>2, <1>3, <2>1 DEF PrepareNone, Shape
<1>4. CASE PrepareEnvironment
    <2> DEFINE e == [environment |-> Head(todo), devices |-> RequestedDevices(Head(todo))]
    <2>1. e.environment = Head(todo) /\ eds' = Append(eds, e)
        BY <1>4 DEF PrepareEnvironment
    <2> HIDE DEF e
    <2> QED
        BY <1>1, <1>2, <1>4, <2>1 DEF PrepareEnvironment, Shape
<1>5. CASE RunEnvironment
    BY <1>1, <1>5, NextToVisit DEF RunEnvironment, VisitedOnce
<1>6. CASE NextSection
    BY <1>6 DEF NextSection, VisitedOnce, nest
<1>7. CASE EndOfSection
    BY <1>7 DEF EndOfSection, VisitedOnce, nest
<1>8. CASE UNCHANGED <<eds, env, todo>> /\ (main' = "section" => main = "section")
              /\ (main' = "prepare" => main = "prepare")
              /\ (main' \in {"device", "configuration"} => main \in {"device", "configuration"})
    BY <1>8 DEF VisitedOnce
<1> QED
    BY <1>3, <1>4, <1>5, <1>6, <1>7, <1>8
    DEF Next, EndOfScript, PrepareFails, Prepared, RunFails, EnableFails, RunDevice,
        EndOfEnvironment, Skip, Measure, MeasureFails, EndOfConfigurations, NextDevice,
        Deactivate, Finalise, vars, nest

\* The results.
LEMMA VisitedStep == Typed /\ VisitedOnce /\ Visited /\ [Next]_vars => Visited'
<1> SUFFICES ASSUME Typed, VisitedOnce, Visited, [Next]_vars PROVE Visited'
    OBVIOUS
<1>1. Shape /\ section \in Nat
    BY ScriptAssumption DEF Typed, TypeOK
<1>2. CASE NextSection
    <2>1. /\ main = "section" /\ main' \in {"section", "prepare"}
          /\ section' = section + 1 /\ output' = output
        BY <1>2 DEF NextSection
    <2> QED
        BY <1>1, <2>1 DEF Visited
<1>3. CASE PrepareNone \/ PrepareEnvironment
    BY <1>3 DEF PrepareNone, PrepareEnvironment, Visited, job
<1>4. CASE Prepared
    BY <1>4 DEF Prepared, Visited, job, nest
<1>5. CASE RunEnvironment
    <2>1. /\ main = "environment" /\ main' = "device" /\ eds # <<>> /\ eds' = Tail(eds)
          /\ env' = Head(eds).environment /\ section' = section /\ output' = output
        BY <1>5 DEF RunEnvironment, job
    <2>2. \A i \in DOMAIN output, k \in DOMAIN eds' :
              output[i].section = section =>
                  output[i].environment # eds'[k].environment /\ output[i].environment # env'
        BY <1>1, <2>1, NextToVisit DEF Visited
    <2>3. \A i \in DOMAIN output : output[i].section = section => output[i].environment # env'
        BY <1>1, <2>1, NextToVisit DEF Visited
    <2> QED
        BY <2>1, <2>2, <2>3 DEF Visited
<1>6. CASE RunDevice
    BY <1>6 DEF RunDevice, Visited, job, nest
<1>7. CASE Measure
    <2> DEFINE result == [section |-> section, environment |-> env,
                          device |-> Device, index |-> index]
    <2>1. /\ main = "configuration" /\ main' = main /\ output' = Append(output, result)
          /\ UNCHANGED <<section, eds, env, devices>>
        BY <1>7 DEF Measure, job, nest
    <2>2. result.section = section /\ result.environment = env /\ result.device = Device
        OBVIOUS
    <2> HIDE DEF result
    <2>3. /\ DOMAIN output' = DOMAIN output \cup {Len(output) + 1}
          /\ \A i \in DOMAIN output : output'[i] = output[i]
          /\ output'[Len(output) + 1] = result
        BY <1>1, <2>1, AppendShape DEF Shape
    <2>4. \A k \in DOMAIN eds : eds[k].environment # env
        BY <2>1 DEF VisitedOnce
    <2>5. \A k \in DOMAIN devices : k > 1 => devices[k] # Device
        <3>1. devices # <<>> /\ AllDifferent(devices) /\ 1 \in DOMAIN devices
              /\ Device = devices[1]
            BY <1>1, <2>1, TailShape DEF Typed, TypeOK, Shape, IsList, Device
        <3> QED
            BY <3>1 DEF AllDifferent
    <2> QED
        BY <1>1, <2>1, <2>2, <2>3, <2>4, <2>5 DEF Visited
<1>8. CASE MeasureFails \/ EndOfConfigurations
    <2>1. /\ main = "configuration" /\ main' = "device" /\ devices' = Tail(devices)
          /\ UNCHANGED <<section, eds, env, output>>
        BY <1>8 DEF MeasureFails, EndOfConfigurations, NextDevice, job
    <2>2. \A k \in DOMAIN devices' :
              k \in Nat \ {0} /\ k + 1 \in DOMAIN devices /\ devices'[k] = devices[k + 1]
        BY <1>1, <2>1, TailShape DEF Typed, TypeOK, Shape, IsList
    <2>3. \A i \in DOMAIN output, k \in DOMAIN devices' :
              output[i].section = section /\ output[i].environment = env =>
                  output[i].device # devices'[k]
        BY <2>1, <2>2 DEF Visited
    <2> QED
        BY <2>1, <2>3 DEF Visited
<1>9. CASE /\ UNCHANGED <<section, eds, env, devices, output>>
           /\ main' \notin {"prepare", "environment", "device", "configuration"} \/ main' = main
              \/ (main' = "environment" /\ main = "device")
    BY <1>9 DEF Visited
<1> QED
    BY <1>2, <1>3, <1>4, <1>5, <1>6, <1>7, <1>8, <1>9
    DEF Next, EndOfScript, PrepareFails, RunFails, EnableFails, EndOfSection,
        EndOfEnvironment, Skip, Deactivate, Finalise, vars, job, nest

\* The loop over the configurations.
LEMMA MeasuredStep ==
    Typed /\ VisitedOnce /\ Visited /\ Measured /\ [Next]_vars => Measured'
<1> SUFFICES ASSUME Typed, Visited, Measured, [Next]_vars PROVE Measured'
    OBVIOUS
<1>1. Shape /\ section \in Nat /\ index \in Nat /\ completed \in Nat /\ ContinueAt \in Nat
    BY ScriptAssumption DEF Typed, TypeOK
<1>2. CASE main' # "configuration"
    BY <1>2 DEF Measured
<1>3. CASE RunDevice
    <2>1. /\ main = "device" /\ main' = "configuration" /\ devices # <<>>
          /\ index' = 0 /\ completed' = 0
          /\ UNCHANGED <<section, env, devices, output>>
        BY <1>3 DEF RunDevice, job, nest
    <2>2. 1 \in DOMAIN devices /\ Device = devices[1]
        BY <1>1, <2>1, TailShape DEF Shape, IsList, Device
    <2>3. Results(env, Device)' = {}
        BY <2>1, <2>2 DEF Visited, Results, Device
    <2>4. {k \in 0 .. index' - 1 : k >= ContinueAt} = {}
        BY <2>1
    <2> QED
        BY <2>1, <2>3, <2>4 DEF Measured
<1>4. ASSUME UNCHANGED <<job, nest>>
      PROVE  Device' = Device /\ CanRun' = CanRun
    BY <1>4, JobUnchanged DEF Device, CanRun, nest
<1>5. CASE Skip
    <2>1. /\ main = "configuration" /\ index' = index + 1
          /\ ~CanRun \/ completed < ContinueAt
          /\ completed' = IF CanRun THEN completed + 1 ELSE completed
          /\ UNCHANGED <<section, env, devices, output>> /\ UNCHANGED <<job, nest>>
        BY <1>5 DEF Skip, job, nest
    <2>2. Results(env, Device)' = Results(env, Device)
        BY <1>4, <2>1 DEF Results
    <2>3. CASE ~CanRun
        BY <1>4, <2>1, <2>2, <2>3 DEF Measured
    <2>4. CASE CanRun
        <3>1. completed = index /\ index < ContinueAt
            BY <2>1, <2>4 DEF Measured
        <3>2. {k \in 0 .. index' - 1 : k >= ContinueAt} = {k \in 0 .. index - 1 : k >= ContinueAt}
            BY <1>1, <2>1, <3>1
        <3> QED
            BY <1>4, <2>1, <2>2, <2>4, <3>1, <3>2 DEF Measured
    <2> QED
        BY <2>3, <2>4
<1>6. CASE Measure
    <2> DEFINE result == [section |-> section, environment |-> env,
                          device |-> Device, index |-> index]
               results == Results(env, Device)
               last == Len(output) + 1
    <2>1. /\ main = "configuration" /\ index' = index + 1 /\ completed' = completed + 1
          /\ CanRun /\ completed >= ContinueAt
          /\ output' = Append(output, result)
          /\ UNCHANGED <<section, env, devices>> /\ UNCHANGED <<job, nest>>
        BY <1>6 DEF Measure, job, nest
    <2>2. /\ result.section = section /\ result.environment = env
          /\ result.device = Device /\ result.index = index
        OBVIOUS
    <2> HIDE DEF result
    <2>3. /\ DOMAIN output' = DOMAIN output \cup {last} /\ last \notin DOMAIN output
          /\ \A i \in DOMAIN output : output'[i] = output[i]
          /\ output'[last] = result
        BY <1>1, <2>1, AppendShape DEF Shape
    <2>4. /\ Results(env, Device)' = results \cup {last}
          /\ \A i \in results : output'[i] = output[i]
        <3>1. Device' = Device
            BY <1>4, <2>1
        <3>2. \A i : i \in Results(env, Device)' <=> i \in results \cup {last}
            BY <2>1, <2>2, <2>3, <3>1 DEF Results
        <3> QED
            BY <2>3, <3>2 DEF Results
    <2>5. /\ devices # <<>> /\ completed = index
          /\ \A i, k \in results : output[i].index = output[k].index => i = k
          /\ {output[i].index : i \in results} = {k \in 0 .. index - 1 : k >= ContinueAt}
        BY <2>1 DEF Measured
    <2> HIDE DEF results, last
    <2>6. \A i \in results : output[i].index # index
        <3>1. \A i \in results : output[i].index \in 0 .. index - 1
            BY <2>5
        <3> QED
            BY <1>1, <3>1
    <2>7. \A i, k \in results \cup {last} : output'[i].index = output'[k].index => i = k
        BY <2>2, <2>3, <2>4, <2>5, <2>6
    <2>8. {output'[i].index : i \in results \cup {last}}
              = {k \in 0 .. index' - 1 : k >= ContinueAt}
        <3>1. {output'[i].index : i \in results \cup {last}}
                  = {output[i].index : i \in results} \cup {index}
            BY <2>2, <2>3, <2>4
        <3>2. {k \in 0 .. index' - 1 : k >= ContinueAt}
                  = {k \in 0 .. index - 1 : k >= ContinueAt} \cup {index}
            BY <1>1, <2>1, <2>5
        <3> QED
            BY <2>5, <3>1, <3>2
    <2> QED
        BY <1>4, <2>1, <2>4, <2>5, <2>7, <2>8 DEF Measured
<1>7. CASE UNCHANGED <<main, job, nest, loop, output>>
    <2>1. Results(env, Device)' = Results(env, Device)
        BY <1>4, <1>7 DEF Results, job, nest
    <2> QED
        BY <1>4, <1>7, <2>1 DEF Measured, loop, nest
<1> QED
    BY <1>2, <1>3, <1>5, <1>6, <1>7
    DEF Next, NextSection, EndOfScript, PrepareNone, PrepareEnvironment, PrepareFails,
        Prepared, RunEnvironment, RunFails, EnableFails, EndOfSection, EndOfEnvironment,
        MeasureFails, EndOfConfigurations, NextDevice, Deactivate, Finalise, vars

LEMMA CountedInit == Init => Counted
<1> SUFFICES ASSUME Init PROVE Counted
    OBVIOUS
<1> QED
    BY DEF Init, Counted, VisitedOnce, Visited, Measured

LEMMA CountedStep == Typed /\ Counted /\ [Next]_vars => Counted'
BY VisitedOnceStep, VisitedStep, MeasuredStep DEF Counted

\* Of a device on which the benchmark can run, what the loop has been through is what
\* has been skipped and what has been measured.
LEMMA MeasuredIsComplete ==
    ASSUME Typed, Measured PROVE EveryCombinationMeasured
<1> SUFFICES ASSUME main = "configuration", index = Count(set)
             PROVE  EveryCombinationMeasured
    BY DEF EveryCombinationMeasured
<1> DEFINE results == Results(env, Device)
           skipped == IF CanRun THEN 0 .. ContinueAt - 1 ELSE 0 .. index - 1
           at == {i \in skipped : i < index} \cup {output[i].index : i \in results}
           rest == (0 .. index - 1) \ skipped
<1>1. index \in Nat /\ ContinueAt \in Nat /\ IsConfigurationSet(set)
    BY ScriptAssumption DEF Typed, TypeOK, Shape
<1>2. /\ {output[i].index : i \in results} = rest
      /\ \A i, k \in results : output[i].index = output[k].index => i = k
    <2>1. CASE CanRun
        <3>1. rest = {k \in 0 .. index - 1 : k >= ContinueAt}
            BY <1>1, <2>1
        <3> QED
            BY <2>1, <3>1 DEF Measured
    <2>2. CASE ~CanRun
        <3>1. results = {} /\ rest = {}
            BY <2>2 DEF Measured
        <3> QED
            BY <3>1
    <2> QED
        BY <2>1, <2>2
<1>3. at = 0 .. index - 1
    <2>1. {i \in skipped : i < index} \cup rest = 0 .. index - 1
        BY <1>1
    <2> QED
        BY <1>2, <2>1
<1>4. Cardinality(results) = Cardinality(rest)
    <2> DEFINE f == [i \in results |-> output[i].index]
    <2>1. IsFiniteSet(rest)
        <3>1. IsFiniteSet(0 .. index - 1)
            <4>1. 0 \in Int /\ index - 1 \in Int
                BY <1>1
            <4> QED
                BY <4>1, FS_Interval
        <3> QED
            BY <3>1, FS_Difference
    <2> HIDE DEF results, rest
    <2>2. f \in [results -> rest]
        BY <1>2
    <2>3. f \in Injection(results, rest)
        BY <1>2, <2>2 DEF Injection, IsInjective
    <2>4. f \in Surjection(results, rest)
        BY <1>2, <2>2 DEF Surjection
    <2> HIDE DEF f
    <2> QED
        BY <2>1, <2>3, <2>4, FS_Injection
<1>5. /\ {Configuration(set, i) : i \in at} = Combinations(set)
      /\ Cardinality(Combinations(set)) = index
    BY <1>1, <1>3, EnumerationIsComplete
<1> QED
    BY <1>4, <1>5 DEF EveryCombinationMeasured

\* When benchmark_base::run comes to the end of foreach_configuration on any device of
\* any section of any script, there is one result for every combination but for those
\* before --continue-at, and none if the benchmark cannot run on the device: neither the
\* order of the factors, nor the merged defaults, nor what has been measured in other
\* sections, environments, or on other devices makes a difference.
THEOREM AllCombinationsMeasured == Spec => []EveryCombinationMeasured
<1>1. Typed /\ Counted => EveryCombinationMeasured
    BY MeasuredIsComplete DEF Counted
<1> QED
    BY <1>1, TypedInit, TypedStep, CountedInit, CountedStep, PTL DEF Spec
=============================================================================
