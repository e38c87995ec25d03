\* Both builds; one list register, where interrupts are spilled, and six, where
\* none is.
SPECIFICATION Spec
CONSTANTS
    Cpus = {0, 1}
    SGIs = {1}
    PPIs = {}
    SPIs = {32, 33}
    Hw = {32}
    LrCounts = {1, 6}
    Prios = {0, 255}
    Versions = {"GICV2", "GICV3"}
    Writes <- MCWrites
    SgiWrites <- MCSgiWrites
    MaxInputs <- MCMaxInputs
INVARIANTS ActiveKeepsOwner DevicePresentedOnce PendingIsOnItsWay
\* Idle when the inputs are used up.
CHECK_DEADLOCK FALSE
