\* Two harts run and may both start a recovery; vCPU 0 is on the master or on the
\* other core.  A stranded VM_RESET may hang
\* the VM (RecoveryCompletes says so), so a deadlock is no error here.
SPECIFICATION FairSpec
CONSTANTS
    Cpus = {c1, c2}
    Master = c1
    Running = {c1, c2}
    max_missed = 2
    max_recoveries = 2
    MaxMissedCount = 2
    MaxHartStarts = 1
INVARIANTS RestartIsClean RecoveryLimit
PROPERTIES RecoveryCompletes
CHECK_DEADLOCK FALSE
