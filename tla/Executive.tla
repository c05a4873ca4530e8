----------------------------- MODULE Executive -----------------------------
(***************************************************************************)
(* trrojan::executive and benchmark_base::run: how a TRROLL script becomes *)
(* a sequence of results.  The sections of the script are grouped by their *)
(* plugin; for each of them, the environments and devices are determined,  *)
(* the environments are activated in turn, and the benchmark is run with   *)
(* every configuration of the factors.                                     *)
(*                                                                         *)
(* There is one thread.  What it cannot know is which calls throw: the     *)
(* activation of an environment, or the benchmark with a configuration.    *)
(***************************************************************************)
EXTENDS FiniteSets, ConfigurationSet

CONSTANTS
    Scripts,        \* scripts: sequences of [plugin, benchmark, configs]
    Plugins,        \* the plugins that have been loaded
    Benchmarks,     \* Benchmarks[p]: benchmark of plugin p |-> [defaults,
                    \* expensive, devices], see below
    Environments,   \* the names in executive::environments, in their order
    Devices,        \* Devices[e]: what get_devices of environment e returns
    NoEnvironment,  \* the environment "none": a null pointer
    NoDevice,       \* the null device
    NoPlugin,       \* the null plugin
    ContinueAt      \* --continue-at

\* Of a benchmark there is its default configuration set, the factors which its
\* optimise_order names, and the devices on which can_run allows it.
ASSUME ScriptAssumption ==
    /\ \A jobs \in Scripts : Len(jobs) \in Nat /\ DOMAIN jobs = 1 .. Len(jobs)
    /\ \A jobs \in Scripts : \A n \in DOMAIN jobs :
        /\ jobs[n].plugin \in Nat /\ jobs[n].benchmark \in Nat
        /\ IsConfigurationSet(jobs[n].configs)
    /\ NoPlugin \notin Plugins
    /\ ContinueAt \in Nat

\* The names in optimise_order are constants; the names of the environments are the
\* keys of a map, and an environment lists each of its devices once.
ASSUME BenchmarkAssumption ==
    \A p \in Plugins : \A b \in DOMAIN Benchmarks[p] :
        LET benchmark == Benchmarks[p][b]
        IN  /\ IsConfigurationSet(benchmark.defaults)
            /\ IsSequence(benchmark.expensive) /\ AllDifferent(benchmark.expensive)

ASSUME EnvironmentAssumption ==
    /\ IsSequence(Environments) /\ AllDifferent(Environments)
    /\ \A i \in DOMAIN Environments : Environments[i] # NoEnvironment =>
           /\ IsSequence(Devices[Environments[i]])
           /\ AllDifferent(Devices[Environments[i]])

VARIABLES
    script,         \* the script being run
    main,           \* which loop the program is in
    section,        \* the section of the loop in trroll
    plugin,         \* curPlugin
    benchmarks,     \* the plugin whose benchmarks are in the list of trroll
    configs,        \* the factors of the section
    todo,           \* the environments for which there are no devices yet
    eds,            \* run: the environments, with their devices, that are not done
    env,            \* the environment of the loop in run
    devices,        \* its devices that are not done
    set,            \* benchmark_base::run: the factors merged with the defaults
    index,          \* foreach_configuration: the next configuration
    completed,      \* benchmark_base::run: retval
    environment,    \* cur_environment
    status,         \* status[e]: which callbacks environment e has had
    output          \* the results

job == <<script, section, plugin, benchmarks>>      \* locals of trroll
loop == <<set, index, completed>>                   \* of benchmark_base::run
current == <<environment, status>>
nest == <<eds, env, devices>>                       \* of run
vars == <<main, job, configs, todo, nest, loop, current, output>>

Known == {Environments[i] : i \in DOMAIN Environments} \ {NoEnvironment}

\* The sections in the order of trroll, which sorts them by the names of their
\* benchmarks and then by the names of their plugins, both times stably.  Names
\* are numbers here: only their order matters.
Precedes(i, j) ==
    \/ script[i].plugin < script[j].plugin
    \/ /\ script[i].plugin = script[j].plugin
       /\ \/ script[i].benchmark < script[j].benchmark
          \/ script[i].benchmark = script[j].benchmark /\ i < j

\* Variant: the sections are not grouped.
SectionUngrouped(n) == script[n]

Section(n) ==
    script[CHOOSE i \in DOMAIN script :
              n = 1 + Cardinality({j \in DOMAIN script : Precedes(j, i)})]

Current == Section(section)
Benchmark == Benchmarks[benchmarks][Current.benchmark]

\* The factors of the section: trroll adds the power collector and lets the
\* benchmark move the factors that are expensive to change.
Factors(entry, benchmark) ==
    OptimiseOrder(ReplaceFactor(entry.configs,
                                Factor("power_collector", <<"collector">>)),
                  benchmark.expensive)

Init ==
    /\ script \in Scripts
    /\ main = "section"
    /\ section = 0
    /\ plugin = NoPlugin
    /\ benchmarks = NoPlugin
    /\ configs = <<>>
    /\ todo = <<>>
    /\ eds = <<>>
    /\ env = NoEnvironment
    /\ devices = <<>>
    /\ set = <<>>
    /\ index = 0
    /\ completed = 0
    /\ environment = NoEnvironment
    /\ status = [e \in Known |-> "initialised"]
    /\ output = <<>>

-----------------------------------------------------------------------------
(* trroll: the loop over the sections.                                      *)

\* Variant: the plugin is kept if another one cannot be found.
NextPluginOrThis(p) ==
    IF p \in Plugins
    THEN plugin' = p /\ benchmarks' = p
    ELSE UNCHANGED <<plugin, benchmarks>>

\* The plugin is looked up if it is not the one of the section before; its
\* benchmarks replace the others, unless there is no such plugin.
NextPlugin(p) ==
    IF plugin # NoPlugin /\ plugin = p
    THEN UNCHANGED <<plugin, benchmarks>>
    ELSE IF p \in Plugins
         THEN plugin' = p /\ benchmarks' = p
         ELSE plugin' = NoPlugin /\ UNCHANGED benchmarks

\* The environments which the section asks for, or all of them.
RequestedEnvironments(factors) ==
    IF HasFactor(factors, "environment")
    THEN LET names == factors[Position(factors, "environment")].values
         IN  Kept(names, {i \in DOMAIN names : names[i] \in Known})
    ELSE Environments

NextSection ==
    LET next == Section(section + 1)
    IN  /\ main = "section"
        /\ section < Len(script)
        /\ section' = section + 1
        /\ NextPlugin(next.plugin)
        /\ IF plugin' # NoPlugin /\ next.benchmark \in DOMAIN Benchmarks[benchmarks']
           THEN /\ main' = "prepare"
                /\ configs' = Factors(next, Benchmarks[benchmarks'][next.benchmark])
                /\ todo' = RequestedEnvironments(configs')
           ELSE UNCHANGED <<main, configs, todo>>
        /\ UNCHANGED <<script, nest, loop, current, output>>

EndOfScript ==
    /\ main = "section"
    /\ section = Len(script)
    /\ main' = "unwind"
    /\ UNCHANGED <<job, configs, todo, nest, loop, current, output>>

-----------------------------------------------------------------------------
(* enable_environment.                                                      *)

\* Variant: the environment before is not deactivated.
EnableAlso(e) ==
    /\ environment' = e
    /\ status' = IF environment = e THEN status
                 ELSE [x \in Known |-> IF x = e THEN "active" ELSE status[x]]

Enable(e) ==
    /\ environment' = e
    /\ status' = IF environment = e THEN status
                 ELSE [x \in Known |-> IF x = e THEN "active"
                                       ELSE IF x = environment THEN "initialised"
                                       ELSE status[x]]

\* on_activate throws, and nobody catches it before main.
EnableFails(e) ==
    /\ e \notin {environment, NoEnvironment}
    /\ environment' = e
    /\ status' = [x \in Known |-> IF x = environment THEN "initialised"
                                  ELSE status[x]]
    /\ main' = "unwind"
    /\ UNCHANGED <<job, configs, todo, nest, loop, output>>

-----------------------------------------------------------------------------
(* prepare_env_devs: the devices of each environment.                       *)

RequestedDevices(e) ==
    LET has == {Devices[e][i] : i \in DOMAIN Devices[e]}
    IN  IF HasFactor(configs, "device")
        THEN LET named == configs[Position(configs, "device")].values
             IN  Kept(named, {i \in DOMAIN named : named[i] \in has})
        ELSE IF Devices[e] = <<>> THEN <<NoDevice>> ELSE Devices[e]

PrepareNone ==
    /\ main = "prepare"
    /\ todo # <<>>
    /\ Head(todo) = NoEnvironment
    /\ eds' = Append(eds, [environment |-> NoEnvironment, devices |-> <<NoDevice>>])
    /\ todo' = Tail(todo)
    /\ UNCHANGED <<main, job, configs, env, devices, loop, current, output>>

PrepareEnvironment ==
    /\ main = "prepare"
    /\ todo # <<>>
    /\ Head(todo) # NoEnvironment
    /\ Enable(Head(todo))
    /\ eds' = Append(eds, [environment |-> Head(todo),
                           devices |-> RequestedDevices(Head(todo))])
    /\ todo' = Tail(todo)
    /\ UNCHANGED <<main, job, configs, env, devices, loop, output>>

PrepareFails == main = "prepare" /\ todo # <<>> /\ EnableFails(Head(todo))

Prepared ==
    /\ main = "prepare"
    /\ todo = <<>>
    /\ main' = "environment"
    /\ UNCHANGED <<job, configs, todo, nest, loop, current, output>>

-----------------------------------------------------------------------------
(* run: the loops over the environments and over their devices.             *)

RunEnvironment ==
    /\ main = "environment"
    /\ eds # <<>>
    /\ env' = Head(eds).environment
    /\ devices' = Head(eds).devices
    /\ eds' = Tail(eds)
    /\ Enable(env')
    /\ configs' = ReplaceFactor(configs, Factor("environment", <<env'>>))
    /\ main' = "device"
    /\ UNCHANGED <<job, todo, loop, output>>

RunFails == main = "environment" /\ eds # <<>> /\ EnableFails(Head(eds).environment)

EndOfSection ==
    /\ main = "environment"
    /\ eds = <<>>
    /\ main' = "section"
    /\ UNCHANGED <<job, configs, todo, nest, loop, current, output>>

Device == Head(devices)
CanRun == Device \in Benchmark.devices

\* Variant: what has been completed is counted for all devices.
RunDeviceOn ==
    /\ main = "device"
    /\ devices # <<>>
    /\ configs' = ReplaceFactor(configs, Factor("device", <<Device>>))
    /\ set' = Merge(configs', Benchmark.defaults)
    /\ index' = 0
    /\ main' = "configuration"
    /\ UNCHANGED <<job, todo, nest, completed, current, output>>

\* The configurations that benchmark_base::run enumerates are those of the
\* section and of the loops, merged with the defaults of the benchmark.
RunDevice ==
    /\ main = "device"
    /\ devices # <<>>
    /\ configs' = ReplaceFactor(configs, Factor("device", <<Device>>))
    /\ set' = Merge(configs', Benchmark.defaults)
    /\ index' = 0
    /\ completed' = 0
    /\ main' = "configuration"
    /\ UNCHANGED <<job, todo, nest, current, output>>

EndOfEnvironment ==
    /\ main = "device"
    /\ devices = <<>>
    /\ main' = "environment"
    /\ UNCHANGED <<job, configs, todo, nest, loop, current, output>>

-----------------------------------------------------------------------------
(* benchmark_base::run: the loop over the configurations.                   *)

Skip ==
    /\ main = "configuration"
    /\ index < Count(set)
    /\ ~CanRun \/ completed < ContinueAt
    /\ index' = index + 1
    /\ completed' = IF CanRun THEN completed + 1 ELSE completed
    /\ UNCHANGED <<main, job, configs, todo, nest, set, current, output>>

Measure ==
    /\ main = "configuration"
    /\ index < Count(set)
    /\ CanRun /\ completed >= ContinueAt
    /\ index' = index + 1
    /\ completed' = completed + 1
    /\ output' = Append(output, [section |-> section, environment |-> env,
                                 device |-> Device, index |-> index])
    /\ UNCHANGED <<main, job, configs, todo, nest, set, current>>

\* Variant: the device stays the first one.
DeviceAgain ==
    /\ main' = "device"
    /\ UNCHANGED <<job, configs, todo, nest, loop, current, output>>

NextDevice ==
    /\ devices' = Tail(devices)
    /\ main' = "device"
    /\ UNCHANGED <<job, configs, todo, eds, env, loop, current, output>>

\* The benchmark or the output throws: it is logged, and what is left of the
\* configurations is dropped.
MeasureFails ==
    /\ main = "configuration"
    /\ index < Count(set)
    /\ CanRun /\ completed >= ContinueAt
    /\ NextDevice

EndOfConfigurations ==
    /\ main = "configuration"
    /\ index >= Count(set)
    /\ NextDevice

-----------------------------------------------------------------------------
(* The end: ~executive.                                                     *)

Deactivate ==
    /\ main = "unwind"
    /\ environment' = NoEnvironment
    /\ status' = [e \in Known |-> IF e = environment THEN "initialised" ELSE status[e]]
    /\ main' = "finalise"
    /\ UNCHANGED <<job, configs, todo, nest, loop, output>>

Finalise ==
    /\ main = "finalise"
    /\ status' = [e \in Known |-> "finalised"]
    /\ main' = "done"
    /\ UNCHANGED <<job, configs, todo, nest, loop, environment, output>>

Next ==
    \/ NextSection \/ EndOfScript
    \/ PrepareNone \/ PrepareEnvironment \/ PrepareFails \/ Prepared
    \/ RunEnvironment \/ RunFails \/ EndOfSection \/ RunDevice \/ EndOfEnvironment
    \/ Skip \/ Measure \/ MeasureFails \/ EndOfConfigurations
    \/ Deactivate \/ Finalise

\* The only thread goes on, and every call returns or throws.
Spec == Init /\ [][Next]_vars /\ WF_vars(Next)
-----------------------------------------------------------------------------
(* Properties.                                                              *)

Running == {"prepare", "environment", "device", "configuration"}

\* The types of all variables.
TypeOK ==
    /\ script \in Scripts
    /\ main \in Running \cup {"section", "unwind", "finalise", "done"}
    /\ section \in 0 .. Len(script)
    /\ plugin \in Plugins \cup {NoPlugin}
    /\ benchmarks \in Plugins \cup {NoPlugin}
    /\ index \in Nat /\ completed \in 0 .. index
    /\ environment \in Known \cup {NoEnvironment}
    /\ status \in [Known -> {"initialised", "active", "finalised"}]
    /\ main = "configuration" => devices # <<>>

\* Environments share the hardware: at most the current one is active at any
\* time, and when a benchmark runs, the environment in its configuration is the
\* current one and active, although preparing the section has gone through all
\* environments before ("This method should be used to allocate (graphics)
\* resources", environment.h, on_activate).
OnlyCurrentIsActive ==
    /\ \A e \in Known : status[e] = "active" => e = environment
    /\ main \in {"device", "configuration"} =>
           /\ environment = env
           /\ env \in Known => status[env] = "active"

\* No environment is finalised while it is active.
DeactivatedFirst ==
    [][\A e \in Known : status[e] = "active" => status'[e] # "finalised"]_vars

\* A section is run by a benchmark of its own plugin, also if plugins between
\* have not been found and the list of benchmarks is that of another plugin.
BenchmarkOfSection ==
    main \in Running =>
        plugin = Current.plugin /\ benchmarks = plugin /\ plugin \in Plugins

\* "This will ensure that we are not repeatedly retrieving benchmarks from the
\* plugins when switching them" (trroll): benchmark objects, and what they have
\* set up, are not replaced by others of the same plugin.
CreatedOnce ==
    [][benchmarks' # benchmarks =>
           \A n \in 1 .. section : Section(n).plugin # benchmarks']_vars

\* When the enumeration ends and nothing has been thrown, there is exactly one
\* result for each combination of the manifestations of all factors, given by
\* the script, by default, or by the executive, but for the first ContinueAt.
Results(e, d) ==
    {i \in DOMAIN output : output[i].section = section /\
                           output[i].environment = e /\ output[i].device = d}

EveryCombinationMeasured ==
    main = "configuration" /\ index = Count(set) =>
        LET results == Results(env, Device)
            skipped == IF CanRun THEN 0 .. ContinueAt - 1 ELSE 0 .. index - 1
            at == {i \in skipped : i < index} \cup {output[i].index : i \in results}
        IN  /\ {Configuration(set, i) : i \in at} = Combinations(set)
            /\ Cardinality(Combinations(set)) = index
            /\ Cardinality(results) = Cardinality((0 .. index - 1) \ skipped)

\* The program comes to its end and leaves nothing activated behind.
SessionEnds == <>[](main = "done" /\ \A e \in Known : status[e] = "finalised")

\* "Optimises the order of configuration factors such that the overhead of
\* switching them is minimal for the benchmark" (benchmark.h, optimise_order):
\* the factor that is most expensive to change takes each of its manifestations
\* only once while the configurations are enumerated.
SwitchingIsMinimal ==
    main = "configuration" /\ Benchmark.expensive # <<>> =>
        LET name == Benchmark.expensive[1]
            at(i) == Configuration(set, i)[name]
        IN  HasFactor(set, name) =>
                \A i, k \in 0 .. index - 1 :
                    i < k /\ at(i) = at(k) => \A j \in i .. k : at(j) = at(i)
=============================================================================
