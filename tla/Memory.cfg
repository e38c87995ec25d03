CONSTANTS
    COLOR_NUM = 2
    COLOR_SIZE = 1
    SizeMod = 256
    Cores = {0, 1}
    Lvls = 3
    F = 2
    RootN = 4
    PoolSize = 48
    HypPages = 3
    Configs <- MCConfigs
SPECIFICATION Spec
CHECK_DEADLOCK FALSE
INVARIANTS VmIsolation MemoryAsConfigured GlobalGivenBack
PROPERTIES EveryVmIsBuilt
