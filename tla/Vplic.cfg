\* A device interrupt and one without a device, two harts, two deferrals, one
\* change of the configuration, one recovery.
SPECIFICATION Spec
CONSTANTS
    Cpus = {c1, c2}
    Irqs = {1, 2}
    Hw = {1}
    MaxPrio = 1
    max_tokens = 1
    max_deferred = 2
    MaxResets = 1
    MaxWrites = 1
INVARIANTS ServiceIsExclusive PhysicalIrqIsHeld PendingIsSignalled
SYMMETRY Symmetry
