SPECIFICATION FairSpec
CONSTANTS
    VMs = {"v1", "v2"}
    Devices = {{0}, {1}}
    CQ_NUM = 2
    None = None
    Configs <- MCConfigs
    Bits = {0, 1, 2, 3}
    Reserved = {1}
    Private = {1}
INVARIANTS DmaConfined DevicesServed
PROPERTY EveryVmGetsItsDevices
CHECK_DEADLOCK FALSE
