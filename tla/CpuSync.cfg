\* Bounded number of calls per core: the run ends when all have made them.
SPECIFICATION FairSpec
CONSTANTS
    Cpus = {c1, c2, c3}
    Master = c1
    MaxCalls = 3
INVARIANTS BarrierSafety IInv
PROPERTIES ImplementsBarrier EveryCallReturns
CHECK_DEADLOCK FALSE
