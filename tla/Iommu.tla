------------------------------- MODULE Iommu -------------------------------
(***************************************************************************)
(* The RISC-V IOMMU and its driver, src/arch/riscv/iommu.c.                *)
(*                                                                         *)
(* The directory (ddt) says for a device whose page table its DMA goes     *)
(* through.  The IOMMU keeps a copy of what it has read until a command    *)
(* invalidates it.  Commands go through a ring in memory that the driver   *)
(* fills at cqt and the IOMMU empties at cqh.  Nothing locks the ring, so  *)
(* every access of a register or of the ring is a step of its own.         *)
(***************************************************************************)
EXTENDS Integers, FiniteSets

CONSTANTS
    VMs,        \* VMs; the core of a VM's master has its name
    Devices,    \* ids of devices
    CQ_NUM,     \* size of the ring
    None        \* no value

ASSUME IommuAssumption == CQ_NUM \in Nat \ {0, 1} /\ None \notin VMs

VARIABLES
    present,    \* what iommu_arch_init left: "none", "ready" or "half"
    ddt,        \* device -> its context: [v, root]
    cache,      \* device -> the context the IOMMU has a copy of, or None
    cq,         \* the ring: 0..CQ_NUM-1 -> command or None
    cqh, cqt,   \* its head and its tail
    cqon        \* the IOMMU takes commands

iommuVars == <<present, ddt, cache, cq, cqh, cqt, cqon>>

Invalid == [v |-> FALSE, root |-> None]
INVAL_DDT(d) == [op |-> "inval", dev |-> d]
IOFENCE      == [op |-> "fence", dev |-> None]

\* iommu_arch_init.  There is no IOMMU, or it is set up and translates, or something it needs
\* is missing: iommu_base is set then and the rest is not.
iommu_arch_init(outcome) ==
    /\ present = outcome
    /\ ddt = [d \in Devices |-> Invalid]
    /\ cache = [d \in Devices |-> None]
    /\ cq = [i \in 0..(CQ_NUM - 1) |-> None]
    /\ cqh = 0 /\ cqt = 0
    /\ cqon = (outcome = "ready")

iommu_active == present # "none"

\* Mutant: the valid bit is written before the page table.
WriteTcFirst(d, vm) ==
    /\ ddt' = [ddt EXCEPT ![d].v = TRUE]
    /\ UNCHANGED <<present, cache, cq, cqh, cqt, cqon>>

\* iommu_arch_vm_add_device: the context of device d is written, the valid bit last.
WriteIohgatp(d, vm) ==
    /\ ddt' = [ddt EXCEPT ![d].root = vm]
    /\ UNCHANGED <<present, cache, cq, cqh, cqt, cqon>>

WriteTc(d) ==
    /\ ddt' = [ddt EXCEPT ![d].v = TRUE]
    /\ UNCHANGED <<present, cache, cq, cqh, cqt, cqon>>

\* iommu_submit_cmd after it has read tail: it waits while the ring is full, writes the
\* command, and then moves the tail.
NextOf(tail) == (tail + 1) % CQ_NUM

WriteCmd(tail, cmd) ==
    /\ NextOf(tail) # cqh
    /\ cq' = [cq EXCEPT ![tail] = cmd]
    /\ UNCHANGED <<present, ddt, cache, cqh, cqt, cqon>>

WriteCqt(tail) ==
    /\ cqt' = NextOf(tail)
    /\ UNCHANGED <<present, ddt, cache, cq, cqh, cqon>>

-----------------------------------------------------------------------------
(* The hardware. *)

\* A device does DMA: the IOMMU reads its context unless it has a copy of it.
Fetch(d) ==
    /\ iommu_active /\ cache[d] = None
    /\ cache' = [cache EXCEPT ![d] = ddt[d]]
    /\ UNCHANGED <<present, ddt, cq, cqh, cqt, cqon>>

\* The next command is carried out; one that makes no sense stops the ring.
Consume ==
    /\ cqon /\ cqh # cqt
    /\ IF cq[cqh] = None
       THEN cqon' = FALSE /\ UNCHANGED <<cache, cqh>>
       ELSE /\ cache' = [d \in Devices |-> IF cq[cqh] = INVAL_DDT(d) THEN None ELSE cache[d]]
            /\ cqh' = NextOf(cqh)
            /\ UNCHANGED cqon
    /\ UNCHANGED <<present, ddt, cq, cqt>>
=============================================================================
