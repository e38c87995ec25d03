------------------------------- MODULE VmmInit -------------------------------
(***************************************************************************)
(* How the cores are shared out among the VMs of the configuration and how *)
(* the cores of a VM bring it up: vmm_init, vmm_assign_vcpu and            *)
(* vmm_alloc_install_vm of src/core/vmm.c, vm_init of src/core/vm.c and    *)
(* what they call, from the first barrier of vmm_init to vcpu_run.         *)
(*                                                                         *)
(* A critical section is one step.  A barrier is an atomic increment of    *)
(* the token's count and a wait, which is what CpuSync.tla shows           *)
(* cpu_sync_barrier to be; the messages handled in cpu_sync_and_clear_msgs *)
(* are left to CpuMsg.tla.  The allocation of a VM's structures succeeds   *)
(* (a failure stops the core for ever in ERROR).                           *)
(***************************************************************************)
EXTENDS Integers, FiniteSets

CONSTANTS
    NumCpus,        \* platform.cpu_num; the cores are 0 .. NumCpus - 1
    vmlist_size,    \* config.vmlist_size; the VMs are 0 .. vmlist_size - 1
    MaxVmCpus,      \* bound: cores a VM asks for
    None            \* no VM; also names the token cpu_glb_sync

Cpus == 0 .. NumCpus - 1
Vms  == 0 .. vmlist_size - 1

ASSUME VmmAssumption ==
    /\ NumCpus \in Nat \ {0}
    /\ vmlist_size \in Nat
    /\ MaxVmCpus \in Nat \ {0}
    /\ None \notin Nat

VARIABLES
    cpu_affinity,   \* config.vmlist[].cpu_affinity
    cpu_num,        \* config.vmlist[].platform.cpu_num
    hasMaster,      \* vm_assign[].master
    ncpus,          \* vm_assign[].ncpus
    assigned,       \* vm_assign[].cpus
    infoReady,      \* vm_assign[].install_info_ready
    cpus,           \* vm->cpus
    mapped,         \* the address space of the VM is there
    ready,          \* the token's ready flag
    count,          \* the token's count
    pc,             \* where each core is
    idx,            \* the loop variable i of vmm_assign_vcpu
    vm_id, master,  \* what vmm_assign_vcpu found for the core
    next_count,     \* of the barrier call the core is in
    vcpu            \* vcpu->id of cpu()->vcpu, None before vm_vcpu_init

config  == <<cpu_affinity, cpu_num>>
assign  == <<hasMaster, ncpus, assigned>>
tokens  == <<ready, count>>
local   == <<idx, vm_id, master>>
vars    == <<cpu_affinity, cpu_num, hasMaster, ncpus, assigned, infoReady, cpus,
             mapped, ready, count, pc, idx, vm_id, master, next_count, vcpu>>

-----------------------------------------------------------------------------
Goto(c, label) == pc' = [pc EXCEPT ![c] = label]

\* Mutant of RoundUp: no core waits for another.
NoWait(val, to) == val

\* ALIGN, as cpu_sync_barrier uses it.
RoundUp(val, to) == ((val + to - 1) \div to) * to

\* The first half of cpu_sync_barrier on token t, which serves n cores: core c
\* goes on at label when it has waited.
Arrive(c, t, n, label) ==
    /\ ready[t]
    /\ count' = [count EXCEPT ![t] = @ + 1]
    /\ next_count' = [next_count EXCEPT ![c] = RoundUp(count[t] + 1, n)]
    /\ Goto(c, label)
    /\ UNCHANGED <<config, assign, infoReady, cpus, mapped, ready, local, vcpu>>

\* The second half: the wait is over.
Waited(c, t) == count[t] >= next_count[c]

-----------------------------------------------------------------------------
\* Any configuration with at least one core per VM; the master core has been
\* through cpu_init, which set up cpu_glb_sync.
Init ==
    /\ cpu_affinity \in [Vms -> SUBSET Cpus]
    /\ cpu_num \in [Vms -> 1 .. MaxVmCpus]
    /\ hasMaster = [v \in Vms |-> FALSE]
    /\ ncpus = [v \in Vms |-> 0]
    /\ assigned = [v \in Vms |-> {}]
    /\ infoReady = [v \in Vms |-> FALSE]
    /\ cpus = [v \in Vms |-> {}]
    /\ mapped = [v \in Vms |-> FALSE]
    /\ ready = [t \in Vms \cup {None} |-> t = None]
    /\ count = [t \in Vms \cup {None} |-> 0]
    /\ pc = [c \in Cpus |-> "vmm_init"]
    /\ idx = [c \in Cpus |-> 0]
    /\ vm_id = [c \in Cpus |-> None]
    /\ master = [c \in Cpus |-> FALSE]
    /\ next_count = [c \in Cpus |-> 0]
    /\ vcpu = [c \in Cpus |-> None]

\* vmm_init: the barrier after the architecture, the IOMMU and the IPC objects
\* have been set up.
vmm_init(c) ==
    /\ pc[c] = "vmm_init"
    /\ Arrive(c, None, NumCpus, "affinity")

\* The first loop of vmm_assign_vcpu is over for c.
AffinityDone(c) == vm_id[c] # None \/ idx[c] = vmlist_size

\* What both loops do to a VM they give the core to.
GiveCore(c, v) ==
    /\ hasMaster' = [hasMaster EXCEPT ![v] = TRUE]
    /\ ncpus' = [ncpus EXCEPT ![v] = @ + 1]
    /\ assigned' = [assigned EXCEPT ![v] = @ \cup {c}]
    /\ master' = [master EXCEPT ![c] = ~ hasMaster[v]]
    /\ vm_id' = [vm_id EXCEPT ![c] = v]
    /\ idx' = idx

SkipVm(c) ==
    /\ idx' = [idx EXCEPT ![c] = @ + 1]
    /\ UNCHANGED <<assign, vm_id, master>>

\* Mutant of TakesByAffinity: the number of cores is not looked at.
TakesTooMany(c, v) == c \in cpu_affinity[v]

TakesByAffinity(c, v) ==
    /\ c \in cpu_affinity[v]
    /\ ~ hasMaster[v] \/ ncpus[v] < cpu_num[v]

\* One round of the first loop of vmm_assign_vcpu.
AssignByAffinity(c) ==
    /\ pc[c] = "affinity"
    /\ Waited(c, None)
    /\ ~ AffinityDone(c)
    /\ IF TakesByAffinity(c, idx[c]) THEN GiveCore(c, idx[c]) ELSE SkipVm(c)
    /\ UNCHANGED <<config, infoReady, cpus, mapped, tokens, pc, next_count, vcpu>>

\* The barrier between the loops.
AffinityBarrier(c) ==
    /\ pc[c] = "affinity"
    /\ Waited(c, None)
    /\ AffinityDone(c)
    /\ Arrive(c, None, NumCpus, "assigned")

\* The second loop starts again at the first VM.
StartLeftover(c) ==
    /\ pc[c] = "assigned"
    /\ Waited(c, None)
    /\ Goto(c, IF vm_id[c] = None THEN "leftover" ELSE "alloc")
    /\ idx' = [idx EXCEPT ![c] = 0]
    /\ UNCHANGED <<config, assign, infoReady, cpus, mapped, tokens, vm_id, master,
                   next_count, vcpu>>

LeftoverEnds(c) == vm_id[c] # None \/ idx[c] = vmlist_size

\* One round of the second loop, for the cores without a VM.
AssignLeftover(c) ==
    /\ pc[c] = "leftover"
    /\ ~ LeftoverEnds(c)
    /\ IF ncpus[idx[c]] < cpu_num[idx[c]] THEN GiveCore(c, idx[c]) ELSE SkipVm(c)
    /\ UNCHANGED <<config, infoReady, cpus, mapped, tokens, pc, next_count, vcpu>>

\* A core without a VM idles.
AssignReturns(c) ==
    /\ pc[c] = "leftover"
    /\ LeftoverEnds(c)
    /\ Goto(c, IF vm_id[c] = None THEN "idle" ELSE "alloc")
    /\ UNCHANGED <<config, assign, infoReady, cpus, mapped, tokens, local, next_count,
                   vcpu>>

-----------------------------------------------------------------------------
\* Mutant of vmm_alloc_install_vm: the master does not set install_info_ready.
NotPublished(c) ==
    /\ pc[c] = "alloc"
    /\ master[c] \/ infoReady[vm_id[c]]
    /\ Goto(c, IF master[c] THEN "master_init" ELSE "cpu_init")
    /\ UNCHANGED <<config, assign, infoReady, cpus, mapped, tokens, local, next_count,
                   vcpu>>

\* vmm_alloc_install_vm: the master publishes where the structures of the VM are,
\* the others wait for it and map them.
vmm_alloc_install_vm(c) ==
    /\ pc[c] = "alloc"
    /\ \/ master[c] /\ infoReady' = [infoReady EXCEPT ![vm_id[c]] = TRUE]
       \/ ~ master[c] /\ infoReady[vm_id[c]] /\ UNCHANGED infoReady
    /\ Goto(c, IF master[c] THEN "master_init" ELSE "cpu_init")
    /\ UNCHANGED <<config, assign, cpus, mapped, tokens, local, next_count, vcpu>>

\* vm_master_init: among others, the VM's token.
vm_master_init(c) ==
    /\ pc[c] = "master_init"
    /\ ready' = [ready EXCEPT ![vm_id[c]] = TRUE]
    /\ Goto(c, "cpu_init")
    /\ UNCHANGED <<config, assign, infoReady, cpus, mapped, count, local, next_count,
                   vcpu>>

vm_cpu_init(c) ==
    /\ pc[c] = "cpu_init"
    /\ cpus' = [cpus EXCEPT ![vm_id[c]] = @ \cup {c}]
    /\ Goto(c, "cpus_barrier")
    /\ UNCHANGED <<config, assign, infoReady, mapped, tokens, local, next_count, vcpu>>

\* A barrier call on vm->sync between two parts of vm_init.
VmBarrier(c, from, to) ==
    /\ pc[c] = from
    /\ Arrive(c, vm_id[c], cpu_num[vm_id[c]], to)

\* A barrier call that follows another one at once: the second half of
\* cpu_sync_and_clear_msgs, with which vm_init ends, and the barrier of vmm_init
\* after it.
NextBarrier(c, from, to) ==
    /\ Waited(c, vm_id[c])
    /\ VmBarrier(c, from, to)

\* Mutant of vm_calc_vcpu_id: the cores from 1 on are counted.
CalcFromOne(c) == Cardinality({d \in cpus[vm_id[c]] : 0 < d /\ d < c})

vm_calc_vcpu_id(c) == Cardinality({d \in cpus[vm_id[c]] : d < c})

vm_vcpu_init(c) ==
    /\ pc[c] = "vcpu_init"
    /\ Waited(c, vm_id[c])
    /\ vcpu' = [vcpu EXCEPT ![c] = vm_calc_vcpu_id(c)]
    /\ Goto(c, "vcpus_barrier")
    /\ UNCHANGED <<config, assign, infoReady, cpus, mapped, tokens, local, next_count>>

\* The rest of vm_init: vm_arch_init on every core, then the master builds the
\* address space (memory, devices, IPC).
VmInitMemory(c) ==
    /\ pc[c] = "arch_init"
    /\ Waited(c, vm_id[c])
    /\ mapped' = IF master[c] THEN [mapped EXCEPT ![vm_id[c]] = TRUE] ELSE mapped
    /\ Goto(c, "init_barrier")
    /\ UNCHANGED <<config, assign, infoReady, cpus, tokens, local, next_count, vcpu>>

\* vcpu_run and vcpu_arch_run: the first vCPU is STARTED, the others are STOPPED
\* and their cores idle until the guest starts them.
vcpu_run(c) ==
    /\ pc[c] = "run"
    /\ Waited(c, vm_id[c])
    /\ Goto(c, IF vcpu[c] = 0 THEN "guest" ELSE "stopped")
    /\ UNCHANGED <<config, assign, infoReady, cpus, mapped, tokens, local, next_count,
                   vcpu>>

-----------------------------------------------------------------------------
Step(c) ==
    \/ vmm_init(c) \/ AssignByAffinity(c) \/ AffinityBarrier(c)
    \/ StartLeftover(c) \/ AssignLeftover(c) \/ AssignReturns(c)
    \/ vmm_alloc_install_vm(c) \/ vm_master_init(c) \/ vm_cpu_init(c)
    \/ VmBarrier(c, "cpus_barrier", "vcpu_init")
    \/ vm_vcpu_init(c)
    \/ VmBarrier(c, "vcpus_barrier", "arch_init")
    \/ VmInitMemory(c)
    \/ VmBarrier(c, "init_barrier", "clear_msgs")
    \/ NextBarrier(c, "clear_msgs", "init_done")
    \/ NextBarrier(c, "init_done", "run")
    \/ vcpu_run(c)

Next == \E c \in Cpus : Step(c)

Spec == Init /\ [][Next]_vars

\* A core keeps executing.
FairSpec == Spec /\ \A c \in Cpus : WF_vars(Step(c))

-----------------------------------------------------------------------------
Labels == {"vmm_init", "affinity", "assigned", "leftover", "alloc", "master_init",
           "cpu_init", "cpus_barrier", "vcpu_init", "vcpus_barrier", "arch_init",
           "init_barrier", "clear_msgs", "init_done", "run", "guest", "stopped", "idle"}

\* Types; the vCPU id of a core indexes vm->vcpus, which has cpu_num entries.
TypeOK ==
    /\ cpu_affinity \in [Vms -> SUBSET Cpus]
    /\ cpu_num \in [Vms -> 1 .. MaxVmCpus]
    /\ hasMaster \in [Vms -> BOOLEAN]
    /\ ncpus \in [Vms -> Nat]
    /\ assigned \in [Vms -> SUBSET Cpus]
    /\ infoReady \in [Vms -> BOOLEAN] /\ mapped \in [Vms -> BOOLEAN]
    /\ cpus \in [Vms -> SUBSET Cpus]
    /\ ready \in [Vms \cup {None} -> BOOLEAN]
    /\ count \in [Vms \cup {None} -> Nat]
    /\ pc \in [Cpus -> Labels]
    /\ idx \in [Cpus -> 0 .. vmlist_size]
    /\ vm_id \in [Cpus -> Vms \cup {None}]
    /\ master \in [Cpus -> BOOLEAN]
    /\ next_count \in [Cpus -> Nat]
    /\ \A c \in Cpus : vcpu[c] # None => vcpu[c] \in 0 .. cpu_num[vm_id[c]] - 1

\* A core belongs to the VM that lists it and to no other, the count of a VM is
\* right and never above what its configuration asks for, and exactly one of its
\* cores is the master, whatever cores race through vmm_assign_vcpu.
AssignmentInv ==
    \A v \in Vms :
        /\ assigned[v] = {c \in Cpus : vm_id[c] = v}
        /\ ncpus[v] = Cardinality(assigned[v])
        /\ ncpus[v] <= cpu_num[v]
        /\ hasMaster[v] <=> ncpus[v] > 0
        /\ hasMaster[v] => \E c \in assigned[v] : \A d \in assigned[v] :
                               master[d] <=> d = c

\* The affinities are mutually exclusive.
Exclusive == \A v, w \in Vms : v # w => cpu_affinity[v] \cap cpu_affinity[w] = {}

\* With mutually exclusive affinities a VM whose affinity has as many cores as it
\* asks for gets exactly cores of its affinity, as the configuration promises.
AffinityIsExact ==
    Exclusive => \A v \in Vms :
        Cardinality(cpu_affinity[v]) >= cpu_num[v] => assigned[v] \subseteq cpu_affinity[v]

\* The remaining cores come last: if a VM gets a core it does not prefer, every
\* core it prefers is in a VM that prefers it, however the cores are scheduled.
AffinityFirst ==
    \A v \in Vms : \/ assigned[v] \subseteq cpu_affinity[v]
                   \/ \A c \in cpu_affinity[v] :
                          vm_id[c] # None /\ c \in cpu_affinity[vm_id[c]]

\* No core idles while a VM lacks one.
NoCoreWasted ==
    (\E c \in Cpus : pc[c] = "idle") => \A v \in Vms : ncpus[v] = cpu_num[v]

\* The places in the VMs go to the cores the configuration names, and only then to
\* the cores that are left, and none stays empty while a core is free.
PlacesGivenRight == AffinityIsExact /\ AffinityFirst /\ NoCoreWasted

\* The cores of a VM get the vCPUs 0, 1, ... in the order of their ids: every
\* core counts over a vm->cpus that is complete.
VcpusInOrder ==
    \A c, d \in Cpus :
        /\ vcpu[c] # None /\ vcpu[d] # None
        /\ vm_id[c] = vm_id[d] /\ c < d
        => vcpu[c] < vcpu[d]

\* A guest starts on memory that is there, when every core of the VM has its
\* vCPU, with ids in order, and on one core only.
GuestStartsPrepared ==
    /\ TypeOK
    /\ VcpusInOrder
    /\ \A c \in Cpus : pc[c] = "guest" =>
          /\ mapped[vm_id[c]]
          /\ ncpus[vm_id[c]] = cpu_num[vm_id[c]]
          /\ \A d \in assigned[vm_id[c]] : vcpu[d] # None /\ (d # c => pc[d] # "guest")

\* A VM that has got all its cores starts on all of them.  (One that lacks a core
\* never does: its cores wait for ever at the first barrier on vm->sync.)
CompleteVmStarts ==
    \A v \in Vms :
        ncpus[v] = cpu_num[v] ~> \A c \in assigned[v] : pc[c] \in {"guest", "stopped"}
=============================================================================
