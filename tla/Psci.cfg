SPECIFICATION FairSpec
CONSTANTS
    VCpus = {v0, v1, v2}
    Boot = v0
    Firmwares = {"powers_down", "not_supported", "denied", "armv8_r"}
    MaxCalls = 4
INVARIANT StartsAsAsked
PROPERTY PendingIsStarted
CHECK_DEADLOCK FALSE
