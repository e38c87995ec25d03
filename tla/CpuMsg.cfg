\* The guests make MaxCalls calls at most, and a core may end up in ERROR().
SPECIFICATION FairSpec
CONSTANTS
    Cpus = {c1, c2, c3}
    Booted = {c1, c2}
    Nodes = {d1, d2}
    NULL = NULL
    Masks = {{c2, c3}}
    MaxCalls = 1
INVARIANTS NodeOwnership OneStartPerHart
PROPERTIES ImplementsChannel AcceptedStartCompletes
CHECK_DEADLOCK FALSE
