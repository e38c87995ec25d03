\* Three cores, two VMs of one or two cores, every affinity.  Boot ends,
\* and a VM without all its cores waits for ever, so the system may stop.
SPECIFICATION FairSpec
CONSTANTS
    NumCpus = 3
    vmlist_size = 2
    MaxVmCpus = 2
    None = None
INVARIANTS AssignmentInv PlacesGivenRight GuestStartsPrepared
PROPERTIES CompleteVmStarts
CHECK_DEADLOCK FALSE
