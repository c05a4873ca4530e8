SPECIFICATION Spec
CONSTANTS
    d1 = d1
    d2 = d2
    Scripts <- MCScripts
    Plugins = {1, 3}
    Benchmarks <- MCBenchmarks
    Environments <- MCEnvironments
    Devices <- MCDevices
    NoEnvironment = NoEnvironment
    NoDevice = NoDevice
    NoPlugin = NoPlugin
    ContinueAt = 1
INVARIANT SwitchingIsMinimal
CHECK_DEADLOCK FALSE
