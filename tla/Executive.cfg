SPECIFICATION Spec
CONSTANTS
    d1 = d1
    d2 = d2
    Scripts <- MCScripts
    Plugins = {1, 3}
    Benchmarks <- MCBenchmarks
    Environments <- MCEnvironments
    Devices <- MCDevices
    NoEnvironment = NoEnvironment
    NoDevice = NoDevice
    NoPlugin = NoPlugin
    ContinueAt = 1
INVARIANTS TypeOK OnlyCurrentIsActive BenchmarkOfSection EveryCombinationMeasured
PROPERTIES DeactivatedFirst CreatedOnce SessionEnds
CHECK_DEADLOCK FALSE
