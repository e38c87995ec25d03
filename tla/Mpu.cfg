CONSTANTS
    a = a
    b = b
    MPU_ENTRIES = 12
    VMPU_NUM_ENTRIES = 10
    SHARED_REGION_POOL_SIZE = 24
    NoVm = NoVm
    Configs <- MCConfigs
SPECIFICATION Spec
CHECK_DEADLOCK FALSE
INVARIANTS EntriesDisjoint ViewsAgree GuestReach
PROPERTIES BroadcastsEnd
