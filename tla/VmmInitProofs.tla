---------------------------- MODULE VmmInitProofs ----------------------------
(***************************************************************************)
(* The start of the VMs, for every number of cores, every list of VMs and  *)
(* every affinity: AssignmentInv, PlacesGivenRight and GuestStartsPrepared *)
(* of VmmInit.tla.                                                         *)
(*                                                                         *)
(* AssignmentInv is inductive together with the types of what              *)
(* vmm_assign_vcpu reads and writes, AssignTypes.  Only the two loops of   *)
(* vmm_assign_vcpu change the assignment, and both do it with GiveCore: a  *)
(* core without a VM joins a VM that has room.                             *)
(*                                                                         *)
(* The other two rest on the barriers.  BarrierInv says of every token, of *)
(* cpu_glb_sync as well as of the vm->sync of each VM, what its count is   *)
(* in terms of where the cores are; that a core has waited then means that *)
(* all cores of the token have arrived (HasWaited).  PlaceInv adds what    *)
(* the cores have seen in the loops, BringUp what the cores of a VM have   *)
(* done for it between the barriers.                                       *)
(***************************************************************************)
EXTENDS VmmInit, FiniteSetTheorems, TLAPS

\* Types of the state of vmm_assign_vcpu.
AssignTypes ==
    /\ cpu_num \in [Vms -> Nat \ {0}]
    /\ hasMaster \in [Vms -> BOOLEAN]
    /\ ncpus \in [Vms -> Nat]
    /\ assigned \in [Vms -> SUBSET Cpus]
    /\ idx \in [Cpus -> 0 .. vmlist_size]
    /\ vm_id \in [Cpus -> Vms \cup {None}]
    /\ master \in [Cpus -> BOOLEAN]

AssignIInv == AssignTypes /\ AssignmentInv

\* What the assignment depends on.
assignState == <<cpu_num, hasMaster, ncpus, assigned, vm_id, master>>

\* The cores of a VM are finitely many.
LEMMA CpusFinite == \A S \in SUBSET Cpus : IsFiniteSet(S)
<1>1. IsFiniteSet(Cpus)
  BY FS_Interval, VmmAssumption DEF Cpus
<1> QED
  BY <1>1, FS_Subset

\* The initial state: no VM has a core.
LEMMA AssignInit == Init => AssignIInv
<1> SUFFICES ASSUME Init PROVE AssignIInv
  OBVIOUS
<1>1. AssignTypes
  BY VmmAssumption DEF Init, AssignTypes, Vms
<1>2. AssignmentInv
  <2> SUFFICES ASSUME NEW v \in Vms
               PROVE  /\ assigned[v] = {c \in Cpus : vm_id[c] = v}
                      /\ ncpus[v] = Cardinality(assigned[v])
                      /\ ncpus[v] <= cpu_num[v]
                      /\ hasMaster[v] <=> ncpus[v] > 0
                      /\ hasMaster[v] => \E c \in assigned[v] : \A d \in assigned[v] :
                                             master[d] <=> d = c
    BY DEF AssignmentInv
  <2>1. v # None
    BY VmmAssumption DEF Vms
  <2>2. assigned[v] = {} /\ ncpus[v] = 0 /\ ~ hasMaster[v] /\ cpu_num[v] \in Nat
    BY <1>1 DEF Init, AssignTypes
  <2>3. assigned[v] = {c \in Cpus : vm_id[c] = v}
    BY <2>1, <2>2 DEF Init
  <2> QED
    BY <2>2, <2>3, FS_EmptySet
<1> QED
  BY <1>1, <1>2 DEF AssignIInv

\* A core without a VM joins one that has room: its count stays right, and it is
\* the master exactly if it is the first.
LEMMA GiveCoreKeeps ==
    ASSUME AssignIInv, NEW c \in Cpus, NEW v \in Vms,
           vm_id[c] = None, ncpus[v] < cpu_num[v],
           GiveCore(c, v), cpu_num' = cpu_num
    PROVE  AssignIInv'
<1> USE DEF AssignIInv
<1>0. v # None
  BY VmmAssumption DEF Vms
<1>1. AssignTypes'
  BY DEF AssignTypes, GiveCore
<1>2. c \notin assigned[v]
  BY <1>0 DEF AssignmentInv
<1>3. /\ assigned' = [assigned EXCEPT ![v] = @ \cup {c}]
      /\ ncpus' = [ncpus EXCEPT ![v] = @ + 1]
      /\ hasMaster' = [hasMaster EXCEPT ![v] = TRUE]
      /\ vm_id' = [vm_id EXCEPT ![c] = v]
      /\ master' = [master EXCEPT ![c] = ~ hasMaster[v]]
  BY DEF GiveCore
<1>4. ASSUME NEW w \in Vms
      PROVE  /\ assigned'[w] = {d \in Cpus : vm_id'[d] = w}
             /\ ncpus'[w] = Cardinality(assigned'[w])
             /\ ncpus'[w] <= cpu_num[w]
             /\ hasMaster'[w] <=> ncpus'[w] > 0
             /\ hasMaster'[w] => \E e \in assigned'[w] : \A d \in assigned'[w] :
                                     master'[d] <=> d = e
  <2>1. /\ assigned[w] = {d \in Cpus : vm_id[d] = w}
        /\ ncpus[w] = Cardinality(assigned[w])
        /\ ncpus[w] <= cpu_num[w]
        /\ hasMaster[w] <=> ncpus[w] > 0
        /\ hasMaster[w] => \E e \in assigned[w] : \A d \in assigned[w] :
                               master[d] <=> d = e
    BY DEF AssignmentInv
  <2>2. w # None
    BY VmmAssumption DEF Vms
  <2>3. assigned'[w] = {d \in Cpus : vm_id'[d] = w}
    BY <1>3, <2>1, <2>2 DEF AssignTypes
  <2>4. CASE w # v
    <3>1. /\ assigned'[w] = assigned[w] /\ ncpus'[w] = ncpus[w]
          /\ hasMaster'[w] = hasMaster[w]
      BY <1>3, <2>4 DEF AssignTypes
    <3>2. c \notin assigned[w]
      BY <2>1, <2>2
    <3>3. \A d \in assigned[w] : master'[d] = master[d]
      BY <1>3, <3>2 DEF AssignTypes
    <3>4. /\ ncpus'[w] = Cardinality(assigned'[w]) /\ ncpus'[w] <= cpu_num[w]
          /\ hasMaster'[w] <=> ncpus'[w] > 0
      BY <2>1, <3>1
    <3>5. ASSUME hasMaster'[w]
          PROVE  \E e \in assigned'[w] : \A d \in assigned'[w] : master'[d] <=> d = e
      BY <2>1, <3>1, <3>3, <3>5, Zenon
    <3> QED
      BY <2>3, <3>4, <3>5
  <2>5. CASE w = v
    <3>1. assigned'[w] = assigned[w] \cup {c} /\ ncpus'[w] = ncpus[w] + 1
      BY <1>3, <2>5 DEF AssignTypes
    <3>2. IsFiniteSet(assigned[w])
      BY CpusFinite DEF AssignTypes
    <3>3. Cardinality(assigned'[w]) = Cardinality(assigned[w]) + 1
      BY <1>2, <2>5, <3>1, <3>2, FS_AddElement
    <3>4. ncpus'[w] = Cardinality(assigned'[w]) /\ ncpus'[w] <= cpu_num[w]
      BY <2>1, <2>5, <3>1, <3>3 DEF AssignTypes
    <3>5. hasMaster'[w] /\ ncpus'[w] > 0
      BY <1>3, <2>5, <3>1 DEF AssignTypes
    <3>6. master'[c] = ~ hasMaster[w] /\ \A d \in assigned[w] : master'[d] = master[d]
      BY <1>2, <1>3, <2>5 DEF AssignTypes
    <3>7. CASE hasMaster[w]
      <4>1. PICK e \in assigned[w] : \A d \in assigned[w] : master[d] <=> d = e
        BY <2>1, <3>7
      <4>2. \A d \in assigned'[w] : master'[d] <=> d = e
        BY <1>2, <2>5, <3>1, <3>6, <3>7, <4>1
      <4> QED
        BY <2>3, <3>1, <3>4, <3>5, <4>2
    <3>8. CASE ~ hasMaster[w]
      <4>1. assigned[w] = {}
        <5>1. ncpus[w] \in Nat /\ ~ (ncpus[w] > 0)
          BY <2>1, <3>8 DEF AssignTypes
        <5>2. Cardinality(assigned[w]) = 0
          BY <2>1, <5>1
        <5> QED
          BY <3>2, <5>2, FS_EmptySet
      <4>2. \A d \in assigned'[w] : master'[d] <=> d = c
        BY <3>1, <3>6, <3>8, <4>1
      <4> QED
        BY <2>3, <3>1, <3>4, <3>5, <4>2
    <3> QED
      BY <3>7, <3>8
  <2> QED
    BY <2>4, <2>5
<1>5. AssignmentInv'
  BY <1>4 DEF AssignmentInv
<1> QED
  BY <1>1, <1>5

\* A step that leaves the assignment alone and moves idx within its range.
LEMMA OthersKeep ==
    ASSUME AssignIInv, UNCHANGED assignState, idx' \in [Cpus -> 0 .. vmlist_size]
    PROVE  AssignIInv'
  BY DEF AssignIInv, AssignTypes, AssignmentInv, assignState

\* One round of a loop that does not take the VM.
LEMMA SkipVmKeeps ==
    ASSUME AssignIInv, NEW c \in Cpus, idx[c] # vmlist_size, SkipVm(c),
           cpu_num' = cpu_num
    PROVE  AssignIInv'
<1>1. idx[c] + 1 \in 0 .. vmlist_size
  BY VmmAssumption DEF AssignIInv, AssignTypes
<1>2. idx' \in [Cpus -> 0 .. vmlist_size]
  BY <1>1 DEF AssignIInv, AssignTypes, SkipVm
<1> QED
  BY <1>2, OthersKeep DEF SkipVm, assignState, assign

\* Every step keeps the assignment right.
LEMMA AssignNext == AssignIInv /\ [Next]_vars => AssignIInv'
<1> SUFFICES ASSUME AssignIInv, [Next]_vars PROVE AssignIInv'
  OBVIOUS
<1>0. idx \in [Cpus -> 0 .. vmlist_size]
  BY DEF AssignIInv, AssignTypes
<1>1. CASE UNCHANGED vars
  BY <1>0, <1>1, OthersKeep DEF vars, assignState
<1>2. ASSUME NEW c \in Cpus, Step(c) PROVE AssignIInv'
  <2>0. ASSUME UNCHANGED <<cpu_num, assign, local>> PROVE AssignIInv'
    BY <1>0, <2>0, OthersKeep DEF assignState, assign, local
  <2>00. ASSUME NEW t, NEW n, NEW l, Arrive(c, t, n, l) PROVE AssignIInv'
    BY <2>00, <2>0 DEF Arrive, config
  <2>1. CASE vmm_init(c)
    BY <2>1, <2>00 DEF vmm_init
  <2>2. CASE AssignByAffinity(c)
    <3>1. vm_id[c] = None /\ idx[c] # vmlist_size /\ cpu_num' = cpu_num
      BY <2>2 DEF AssignByAffinity, AffinityDone, config
    <3>2. idx[c] \in Vms
      BY <1>0, <3>1, VmmAssumption DEF Vms
    <3>3. CASE TakesByAffinity(c, idx[c])
      <4>1. GiveCore(c, idx[c])
        BY <2>2, <3>3 DEF AssignByAffinity
      <4>2. ncpus[idx[c]] < cpu_num[idx[c]]
        BY <3>2, <3>3 DEF TakesByAffinity, AssignIInv, AssignTypes, AssignmentInv
      <4> QED
        BY <3>1, <3>2, <4>1, <4>2, GiveCoreKeeps
    <3>4. CASE ~ TakesByAffinity(c, idx[c])
      <4>1. SkipVm(c)
        BY <2>2, <3>4 DEF AssignByAffinity
      <4> QED
        BY <3>1, <4>1, SkipVmKeeps
    <3> QED
      BY <3>3, <3>4
  <2>3. CASE AffinityBarrier(c)
    BY <2>3, <2>00 DEF AffinityBarrier
  <2>4. CASE StartLeftover(c)
    <3>1. idx' \in [Cpus -> 0 .. vmlist_size]
      BY <1>0, <2>4, VmmAssumption DEF StartLeftover
    <3> QED
      BY <2>4, <3>1, OthersKeep DEF StartLeftover, assignState, assign, config
  <2>5. CASE AssignLeftover(c)
    <3>1. vm_id[c] = None /\ idx[c] # vmlist_size /\ cpu_num' = cpu_num
      BY <2>5 DEF AssignLeftover, LeftoverEnds, config
    <3>2. idx[c] \in Vms
      BY <1>0, <3>1, VmmAssumption DEF Vms
    <3>3. CASE ncpus[idx[c]] < cpu_num[idx[c]]
      <4>1. GiveCore(c, idx[c])
        BY <2>5, <3>3 DEF AssignLeftover
      <4> QED
        BY <3>1, <3>2, <3>3, <4>1, GiveCoreKeeps
    <3>4. CASE ~ (ncpus[idx[c]] < cpu_num[idx[c]])
      <4>1. SkipVm(c)
        BY <2>5, <3>4 DEF AssignLeftover
      <4> QED
        BY <3>1, <4>1, SkipVmKeeps
    <3> QED
      BY <3>3, <3>4
  <2>6. CASE AssignReturns(c)
    BY <2>6, <2>0 DEF AssignReturns, config
  <2>7. CASE vmm_alloc_install_vm(c)
    BY <2>7, <2>0 DEF vmm_alloc_install_vm, config
  <2>8. CASE vm_master_init(c)
    BY <2>8, <2>0 DEF vm_master_init, config
  <2>9. CASE vm_cpu_init(c)
    BY <2>9, <2>0 DEF vm_cpu_init, config
  <2>10. ASSUME NEW from, NEW to, VmBarrier(c, from, to) PROVE AssignIInv'
    BY <2>10, <2>00 DEF VmBarrier
  <2>11. ASSUME NEW from, NEW to, NextBarrier(c, from, to) PROVE AssignIInv'
    BY <2>11, <2>10 DEF NextBarrier
  <2>12. CASE vm_vcpu_init(c)
    BY <2>12, <2>0 DEF vm_vcpu_init, config
  <2>13. CASE VmInitMemory(c)
    BY <2>13, <2>0 DEF VmInitMemory, config
  <2>14. CASE vcpu_run(c)
    BY <2>14, <2>0 DEF vcpu_run, config
  <2> QED
    BY <1>2, <2>1, <2>2, <2>3, <2>4, <2>5, <2>6, <2>7, <2>8, <2>9, <2>10, <2>11,
       <2>12, <2>13, <2>14 DEF Step
<1> QED
  BY <1>1, <1>2 DEF Next

\* vmm_assign_vcpu gives every VM at most the cores it asks for, every core to at
\* most one VM and every VM with a core exactly one master.
THEOREM AssignmentIsRight == Spec => []AssignmentInv
<1>1. AssignIInv => AssignmentInv
  BY DEF AssignIInv
<1> QED
  BY <1>1, AssignInit, AssignNext, PTL DEF Spec

-----------------------------------------------------------------------------
(* The barriers.  The arrivals of a core at a token are a function of where *)
(* the core is.                                                             *)

\* The barriers on cpu_glb_sync a core at label l has arrived at.
GlobalStage(l) == CASE l = "vmm_init" -> 0
                    [] l = "affinity" -> 1
                    [] OTHER          -> 2

\* The barriers on vm->sync a core at label l has arrived at.
VmStage(l) == CASE l \in {"vcpu_init", "vcpus_barrier"} -> 1
                [] l \in {"arch_init", "init_barrier"}  -> 2
                [] l = "clear_msgs"                     -> 3
                [] l = "init_done"                      -> 4
                [] l \in {"run", "guest", "stopped"}    -> 5
                [] OTHER                                -> 0

\* The arrivals at token t of a core at label l with VM v, and of each core.
StageAt(t, l, v) == IF t = None THEN GlobalStage(l)
                    ELSE IF v = t THEN VmStage(l) ELSE 0
Stages(t) == [c \in Cpus |-> StageAt(t, pc[c], vm_id[c])]

\* The cores token t serves.
Size(t) == IF t = None THEN NumCpus ELSE cpu_num[t]

\* A count of m, for a token that serves n cores, after the arrivals f: r rounds
\* are complete, with n cores each, and the others have arrived at the next one.
Rounds(f, m, n) ==
    \E r \in Nat :
        /\ \A c \in Cpus : f[c] <= r + 1
        /\ m = n * r + Cardinality({c \in Cpus : f[c] = r + 1})
        /\ r > 0 => Cardinality({c \in Cpus : f[c] >= r}) = n

Counted == \A t \in Vms \cup {None} : Rounds(Stages(t), count[t], Size(t))

\* The labels at which a core waits, or has waited, for a barrier.
GlobalWaits == {"affinity", "assigned"}
VmWaits     == {"vcpu_init", "vcpus_barrier", "arch_init", "init_barrier",
                "clear_msgs", "init_done", "run"}

\* What a core waits for is the end of the round it has arrived at; it does not
\* arrive at the next one before that.
Awaited ==
    \A c \in Cpus :
        /\ pc[c] \in GlobalWaits => next_count[c] = NumCpus * GlobalStage(pc[c])
        /\ pc[c] \in VmWaits =>
              next_count[c] = cpu_num[vm_id[c]] * VmStage(pc[c])
        /\ pc[c] \in {"vcpus_barrier", "init_barrier"} => Waited(c, vm_id[c])

\* The labels of a core that has looked at all VMs it prefers, and of one that has
\* passed the second global barrier.
Looked   == Labels \ {"vmm_init", "affinity"}
Released == Looked \ {"assigned"}

\* The labels of a core that brings up its VM.
InVm == Released \ {"leftover", "idle"}

\* The labels from which on a core has entered itself in vm->cpus, has its vCPU,
\* and has, if it is the master, built the address space.
Entered == InVm \ {"alloc", "master_init", "cpu_init"}
Counts  == Entered \ {"cpus_barrier", "vcpu_init"}
Built   == Counts \ {"vcpus_barrier", "arch_init"}

\* Types, and that a core that brings up a VM has one.
BootTypes ==
    /\ cpu_affinity \in [Vms -> SUBSET Cpus]
    /\ cpu_num \in [Vms -> 1 .. MaxVmCpus]
    /\ infoReady \in [Vms -> BOOLEAN] /\ mapped \in [Vms -> BOOLEAN]
    /\ cpus \in [Vms -> SUBSET Cpus]
    /\ ready \in [Vms \cup {None} -> BOOLEAN]
    /\ count \in [Vms \cup {None} -> Nat]
    /\ pc \in [Cpus -> Labels]
    /\ next_count \in [Cpus -> Nat]
    /\ \A c \in Cpus : pc[c] \in InVm => vm_id[c] # None

BarrierInv == AssignIInv /\ BootTypes /\ Counted /\ Awaited

\* VM v has all its cores.
Full(v) == ncpus[v] = cpu_num[v]

\* A core that has been through the first loop is in a VM that prefers it, or the
\* VMs that prefer it are full; a core still in a loop has passed by full VMs only.
Preferred ==
    \A c \in Cpus :
        /\ pc[c] \notin Released /\ vm_id[c] # None => c \in cpu_affinity[vm_id[c]]
        /\ pc[c] \notin Released =>
              \A v \in Vms : v < idx[c] /\ c \in cpu_affinity[v] => Full(v)
        /\ pc[c] = "assigned" => AffinityDone(c)
        /\ pc[c] \in Released =>
              \/ vm_id[c] # None /\ c \in cpu_affinity[vm_id[c]]
              \/ \A v \in Vms : c \in cpu_affinity[v] => Full(v)

\* The second loop starts when the first one is over on all cores.
LoopsApart ==
    \A c, d \in Cpus : pc[c] \in Released => pc[d] \in Looked

\* A core in the second loop has passed by full VMs only.
LeftoverInv ==
    \A c \in Cpus :
        /\ pc[c] = "leftover" => \A v \in Vms : v < idx[c] => Full(v)
        /\ pc[c] = "idle" => \A v \in Vms : Full(v)

PlaceInv == BarrierInv /\ Preferred /\ LoopsApart /\ LeftoverInv
            /\ AffinityIsExact /\ AffinityFirst

\* VM v has all its cores and each has arrived at k barriers on vm->sync.
Together(v, k) == Full(v) /\ \A d \in assigned[v] : VmStage(pc[d]) >= k

\* vm->cpus and the vCPUs.
BringUp ==
    \A c \in Cpus :
        /\ \A v \in Vms : c \in cpus[v] => vm_id[c] = v
        /\ pc[c] \in Entered => c \in cpus[vm_id[c]]
        /\ pc[c] \notin Counts => vcpu[c] = None
        /\ pc[c] \in Counts =>
              /\ Together(vm_id[c], 1)
              /\ vcpu[c] = Cardinality({d \in assigned[vm_id[c]] : d < c})
        /\ pc[c] \in Built /\ master[c] => mapped[vm_id[c]]
        /\ pc[c] \in {"guest", "stopped"} => Together(vm_id[c], 5)
        /\ pc[c] = "guest" => vcpu[c] = 0

BootInv == BarrierInv /\ vcpu \in [Cpus -> Nat \cup {None}] /\ BringUp

\* Rounding up a count of round r + 1 gives the end of that round.
LEMMA RoundUpEnds ==
  ASSUME NEW n \in Nat, n > 0, NEW r \in Nat, NEW k \in 1 .. n
  PROVE  RoundUp(n * r + k, n) = n * (r + 1)
<1> DEFINE a == n * r + k + n - 1
           d == r + 1
<1>1. n * r \in Nat /\ n * d = n * r + n /\ n * (d + 1) = n * d + n
  OBVIOUS
<1>2. n * d <= a /\ a < n * (d + 1)
  BY <1>1
<1>3. a \in Nat /\ d \in Nat
  BY <1>1
<1>4. ASSUME NEW x \in Nat, NEW q \in Nat, n * q <= x, x < n * (q + 1)
      PROVE  x \div n = q
  BY <1>4, Z3
<1>5. a \div n = d
  BY <1>2, <1>3, <1>4
<1>6. RoundUp(n * r + k, n) = (a \div n) * n
  BY DEF RoundUp
<1> QED
  BY <1>5, <1>6

\* Sets of cores are counted by natural numbers, and a part that has as many
\* elements as the whole is the whole.
LEMMA CountCpus ==
  ASSUME NEW S \in SUBSET Cpus
  PROVE  /\ IsFiniteSet(S) /\ Cardinality(S) \in Nat
         /\ \A T \in SUBSET S : /\ Cardinality(T) <= Cardinality(S)
                                /\ Cardinality(T) = Cardinality(S) => T = S
<1>1. IsFiniteSet(S)
  BY CpusFinite
<1>2. Cardinality(S) \in Nat
  BY <1>1, FS_CardinalityType
<1>3. ASSUME NEW T \in SUBSET S
      PROVE  /\ Cardinality(T) <= Cardinality(S)
             /\ Cardinality(T) = Cardinality(S) => T = S
  BY <1>1, FS_Subset
<1> QED
  BY <1>1, <1>2, <1>3

\* The cores the platform has.
LEMMA AllCpus == Cardinality(Cpus) = NumCpus
BY FS_Interval, VmmAssumption DEF Cpus

\* Of the n cores M that a token serves, one has waited for the end of a round
\* it has arrived at: all of them have arrived at that round.
LEMMA RoundIsOver ==
  ASSUME NEW f \in [Cpus -> Nat], NEW m \in Nat, NEW n \in Nat, n > 0,
         Rounds(f, m, n), NEW M \in SUBSET Cpus, Cardinality(M) <= n,
         \A d \in Cpus : f[d] > 0 => d \in M,
         NEW c \in Cpus, f[c] > 0, m >= n * f[c]
  PROVE  /\ Cardinality(M) = n /\ \A d \in M : f[d] >= f[c]
         /\ \A d \in Cpus : f[d] <= f[c] + 1
<1>1. PICK r \in Nat :
        /\ \A d \in Cpus : f[d] <= r + 1
        /\ m = n * r + Cardinality({d \in Cpus : f[d] = r + 1})
        /\ r > 0 => Cardinality({d \in Cpus : f[d] >= r}) = n
  BY DEF Rounds
<1> DEFINE A == {d \in Cpus : f[d] = r + 1}
           B == {d \in Cpus : f[d] >= r}
<1>2. A \subseteq M /\ (r > 0 => B \subseteq M)
  OBVIOUS
<1>3. /\ Cardinality(M) \in Nat /\ Cardinality(A) \in Nat
      /\ Cardinality(A) <= Cardinality(M)
      /\ Cardinality(A) = Cardinality(M) => A = M
      /\ r > 0 => /\ Cardinality(B) <= Cardinality(M)
                  /\ Cardinality(B) = Cardinality(M) => B = M
  BY <1>2, CountCpus
<1>4. f[c] \in Nat /\ f[c] <= r + 1
  BY <1>1
<1>5. CASE f[c] = r + 1
  <2>1. n * (r + 1) = n * r + n /\ n * r \in Nat
    OBVIOUS
  <2>2. Cardinality(A) >= n
    <3> HIDE DEF A
    <3> QED BY <1>1, <1>3, <1>5, <2>1 DEF A
  <2>3. A = M /\ Cardinality(M) = n
    <3> HIDE DEF A
    <3> QED BY <1>3, <2>2
  <2> QED
    BY <1>1, <1>5, <2>3
<1>6. CASE f[c] # r + 1
  <2>1. f[c] <= r /\ r > 0
    BY <1>4, <1>6
  <2>2. Cardinality(B) = n
    BY <1>1, <2>1
  <2>3. B = M /\ Cardinality(M) = n
    <3> HIDE DEF B
    <3> QED BY <1>3, <2>1, <2>2
  <2>4. c \in M
    OBVIOUS
  <2>5. f[c] = r
    BY <2>1, <2>3, <2>4, <1>4
  <2> QED
    BY <1>1, <2>3, <2>5
<1> QED
  BY <1>5, <1>6

\* A core that has waited for the rounds it has arrived at arrives at the next
\* one: the count stays right, and the core waits for the end of that round.
LEMMA RoundArrival ==
  ASSUME NEW f \in [Cpus -> Nat], NEW m \in Nat, NEW n \in Nat, n > 0,
         Rounds(f, m, n), NEW M \in SUBSET Cpus, Cardinality(M) <= n,
         \A d \in Cpus : f[d] > 0 => d \in M,
         NEW c \in M, m >= n * f[c]
  PROVE  /\ Rounds([f EXCEPT ![c] = f[c] + 1], m + 1, n)
         /\ RoundUp(m + 1, n) = n * (f[c] + 1)
<1>1. PICK r \in Nat :
        /\ \A d \in Cpus : f[d] <= r + 1
        /\ m = n * r + Cardinality({d \in Cpus : f[d] = r + 1})
        /\ r > 0 => Cardinality({d \in Cpus : f[d] >= r}) = n
  BY DEF Rounds
<1> DEFINE A == {d \in Cpus : f[d] = r + 1}
           B == {d \in Cpus : f[d] >= r}
           g == [f EXCEPT ![c] = f[c] + 1]
<1>2. A \subseteq M /\ (r > 0 => B \subseteq M)
  OBVIOUS
<1>3. /\ Cardinality(M) \in Nat /\ Cardinality(A) \in Nat /\ IsFiniteSet(A)
      /\ Cardinality(A) <= Cardinality(M)
      /\ Cardinality(A) = Cardinality(M) => A = M
      /\ r > 0 => /\ Cardinality(B) <= Cardinality(M)
                  /\ Cardinality(B) = Cardinality(M) => B = M
  BY <1>2, CountCpus
<1>4. f[c] \in Nat /\ f[c] <= r + 1 /\ n * r \in Nat /\ n * (r + 1) = n * r + n
  BY <1>1
<1>5. CASE f[c] = r + 1
  <2>1. Cardinality(A) >= n
    <3> HIDE DEF A
    <3> QED BY <1>1, <1>3, <1>4, <1>5 DEF A
  <2>2. A = M /\ Cardinality(A) = n
    <3> HIDE DEF A
    <3> QED BY <1>3, <2>1
  <2>3. m = n * (r + 1)
    <3> HIDE DEF A
    <3> QED BY <1>1, <1>4, <2>2 DEF A
  <2>4. {d \in Cpus : g[d] = r + 2} = {c}
    BY <1>1, <1>5
  <2>5. Cardinality({d \in Cpus : g[d] = r + 2}) = 1
    BY <2>4, FS_Singleton
  <2>6. {d \in Cpus : g[d] >= r + 1} = A
    BY <1>1, <1>5
  <2>7. \A d \in Cpus : g[d] <= (r + 1) + 1
    BY <1>1, <1>5
  <2>8. m + 1 = n * (r + 1) + Cardinality({d \in Cpus : g[d] = (r + 1) + 1})
    <3>1. (r + 1) + 1 = r + 2
      OBVIOUS
    <3> QED BY <2>3, <2>5, <3>1
  <2>9. Rounds(g, m + 1, n)
    <3>1. r + 1 \in Nat /\ Cardinality({d \in Cpus : g[d] >= r + 1}) = n
      BY <2>2, <2>6
    <3> HIDE DEF g
    <3> QED BY <2>7, <2>8, <3>1 DEF Rounds
  <2>10. RoundUp(m + 1, n) = n * (f[c] + 1)
    <3>1. 1 \in 1 .. n
      OBVIOUS
    <3> QED BY <1>5, <2>3, <3>1, RoundUpEnds
  <2> QED
    BY <2>9, <2>10
<1>6. CASE f[c] # r + 1
  <2>1. f[c] = r
    <3>1. CASE r = 0
      BY <1>4, <1>6, <3>1
    <3>2. CASE r > 0
      <4>1. B = M
        <5> HIDE DEF B
        <5> QED BY <1>1, <1>3, <3>2 DEF B
      <4> QED
        BY <1>4, <1>6, <4>1
    <3> QED
      BY <3>1, <3>2
  <2>2. c \notin A /\ {d \in Cpus : g[d] = r + 1} = A \cup {c}
    BY <2>1
  <2>3. Cardinality(A \cup {c}) = Cardinality(A) + 1
    BY <1>3, <2>2, FS_AddElement
  <2>4. {d \in Cpus : g[d] >= r} = B
    BY <2>1
  <2>5. \A d \in Cpus : g[d] <= r + 1
    BY <1>1, <2>1
  <2>6. m + 1 = n * r + Cardinality({d \in Cpus : g[d] = r + 1})
    <3> HIDE DEF g
    <3>1. m = n * r + Cardinality(A)
      BY <1>1
    <3>2. Cardinality({d \in Cpus : g[d] = r + 1}) = Cardinality(A) + 1
      BY <2>2, <2>3
    <3> HIDE DEF A
    <3> QED BY <1>3, <1>4, <3>1, <3>2
  <2>7. r > 0 => Cardinality({d \in Cpus : g[d] >= r}) = n
    BY <1>1, <2>4
  <2>8. Rounds(g, m + 1, n)
    <3> HIDE DEF g
    <3> QED BY <2>5, <2>6, <2>7 DEF Rounds
  <2>9. Cardinality(A) < n
    <3>1. A # M
      BY <2>2
    <3> HIDE DEF A
    <3> QED BY <1>3, <3>1
  <2>10. RoundUp(m + 1, n) = n * (f[c] + 1)
    <3> DEFINE k == Cardinality(A) + 1
    <3>1. k \in 1 .. n
      BY <1>3, <2>9
    <3>2. m + 1 = n * r + k
      BY <1>1, <1>3, <1>4
    <3> HIDE DEF k
    <3> QED BY <2>1, <3>1, <3>2, RoundUpEnds
  <2> QED
    BY <2>8, <2>10
<1> QED
  BY <1>5, <1>6

-----------------------------------------------------------------------------
\* The cores token t serves, and what is known of its state.
Members(t) == IF t = None THEN Cpus ELSE assigned[t]

\* A token serves at most Size(t) cores, and only they arrive at it.
LEMMA TokenFacts ==
  ASSUME AssignIInv, BootTypes, NEW t \in Vms \cup {None}
  PROVE  /\ Stages(t) \in [Cpus -> Nat] /\ count[t] \in Nat
         /\ Size(t) \in Nat /\ Size(t) > 0
         /\ Members(t) \in SUBSET Cpus
         /\ Cardinality(Members(t)) <= Size(t)
         /\ \A d \in Cpus : Stages(t)[d] > 0 => d \in Members(t)
<1>1. count[t] \in Nat
  BY DEF BootTypes
<1>2. Stages(t) \in [Cpus -> Nat]
  BY DEF Stages, StageAt, GlobalStage, VmStage
<1>3. CASE t = None
  <2>1. Members(t) = Cpus /\ Size(t) = NumCpus
    BY <1>3 DEF Members, Size
  <2>2. Cardinality(Members(t)) <= Size(t)
    BY <2>1, AllCpus, VmmAssumption
  <2> QED
    BY <1>1, <1>2, <2>1, <2>2, VmmAssumption
<1>4. CASE t # None
  <2>1. t \in Vms /\ Members(t) = assigned[t] /\ Size(t) = cpu_num[t]
    BY <1>4 DEF Members, Size
  <2>2. /\ assigned[t] = {d \in Cpus : vm_id[d] = t}
        /\ Cardinality(assigned[t]) <= cpu_num[t]
    BY <2>1 DEF AssignIInv, AssignmentInv
  <2>3. cpu_num[t] \in Nat /\ cpu_num[t] > 0
    BY <2>1 DEF AssignIInv, AssignTypes
  <2>4. \A d \in Cpus : Stages(t)[d] > 0 => d \in assigned[t]
    BY <1>4, <2>2 DEF Stages, StageAt
  <2> QED
    BY <1>1, <1>2, <2>1, <2>2, <2>3, <2>4
<1> QED
  BY <1>3, <1>4

\* A core at one of the labels after a wait knows that the wait is over.
LEMMA HasWaited ==
  ASSUME BarrierInv, NEW c \in Cpus, NEW t \in Vms \cup {None},
         \/ t = None /\ pc[c] \in GlobalWaits
         \/ t = vm_id[c] /\ pc[c] \in VmWaits,
         Waited(c, t)
  PROVE  /\ count[t] >= Size(t) * Stages(t)[c]
         /\ Cardinality(Members(t)) = Size(t)
         /\ \A d \in Members(t) : Stages(t)[d] >= Stages(t)[c]
<1>1. AssignIInv /\ BootTypes /\ Counted /\ Awaited
  BY DEF BarrierInv
<1>2. pc[c] \in VmWaits => vm_id[c] # None
  BY <1>1 DEF BootTypes, VmWaits, InVm, Released, Looked, Labels
<1>3. count[t] >= Size(t) * Stages(t)[c] /\ Stages(t)[c] > 0
  <2>1. CASE t = None /\ pc[c] \in GlobalWaits
    <3>1. next_count[c] = NumCpus * GlobalStage(pc[c])
      BY <1>1, <2>1 DEF Awaited
    <3>2. Stages(t)[c] = GlobalStage(pc[c]) /\ Size(t) = NumCpus
      BY <2>1 DEF Stages, StageAt, Size
    <3>3. GlobalStage(pc[c]) > 0
      BY <2>1 DEF GlobalStage, GlobalWaits
    <3> QED
      BY <3>1, <3>2, <3>3 DEF Waited
  <2>2. CASE t = vm_id[c] /\ pc[c] \in VmWaits
    <3>1. next_count[c] = cpu_num[t] * VmStage(pc[c])
      BY <1>1, <2>2 DEF Awaited
    <3>2. Stages(t)[c] = VmStage(pc[c]) /\ Size(t) = cpu_num[t]
      BY <1>2, <2>2 DEF Stages, StageAt, Size
    <3>3. VmStage(pc[c]) > 0
      BY <2>2 DEF VmStage, VmWaits
    <3> QED
      BY <3>1, <3>2, <3>3 DEF Waited
  <2> QED
    BY <2>1, <2>2
<1> DEFINE f == Stages(t)
           m == count[t]
           n == Size(t)
           M == Members(t)
<1>4. Rounds(f, m, n)
  BY <1>1 DEF Counted
<1>5. /\ f \in [Cpus -> Nat] /\ m \in Nat /\ n \in Nat /\ n > 0
      /\ M \in SUBSET Cpus /\ Cardinality(M) <= n
      /\ \A d \in Cpus : f[d] > 0 => d \in M
  BY <1>1, TokenFacts
<1>6. f[c] > 0 /\ m >= n * f[c]
  BY <1>3
<1> HIDE DEF f, m, n, M
<1>7. Cardinality(M) = n /\ \A d \in M : f[d] >= f[c]
  BY <1>4, <1>5, <1>6, RoundIsOver
<1> QED
  BY <1>3, <1>7 DEF f, m, n, M

\* A step of core c that is not an arrival.
LEMMA QuietStep ==
  ASSUME BarrierInv, BootTypes', NEW c \in Cpus, NEW l \in Labels,
         pc' = [pc EXCEPT ![c] = l], UNCHANGED <<count, next_count, cpu_num>>,
         \A d \in Cpus : d # c => vm_id'[d] = vm_id[d],
         GlobalStage(l) = GlobalStage(pc[c]), VmStage(l) = VmStage(pc[c]),
         vm_id'[c] = vm_id[c] \/ VmStage(l) = 0,
         l \in GlobalWaits => pc[c] = l,
         l \in VmWaits => pc[c] \in VmWaits,
         l \in {"vcpus_barrier", "init_barrier"} => Waited(c, vm_id[c])
  PROVE  Counted' /\ Awaited'
<1>1. AssignIInv /\ BootTypes /\ Counted /\ Awaited
  BY DEF BarrierInv
<1>2. pc \in [Cpus -> Labels] /\ pc'[c] = l /\ \A d \in Cpus : d # c => pc'[d] = pc[d]
  BY <1>1 DEF BootTypes
<1>3. ASSUME NEW t \in Vms \cup {None}
      PROVE  Stages(t)' = Stages(t)
  <2>1. ASSUME NEW d \in Cpus
        PROVE  StageAt(t, pc'[d], vm_id'[d]) = StageAt(t, pc[d], vm_id[d])
    <3>1. CASE d # c
      BY <1>2, <3>1
    <3>2. CASE d = c /\ vm_id'[c] = vm_id[c]
      BY <1>2, <3>2 DEF StageAt
    <3>3. CASE d = c /\ VmStage(l) = 0
      BY <1>2, <3>3 DEF StageAt
    <3> QED
      BY <3>1, <3>2, <3>3
  <2> QED
    BY <2>1 DEF Stages
<1>4. Counted'
  BY <1>1, <1>3 DEF Counted, Size
<1>5. ASSUME NEW d \in Cpus
      PROVE  /\ pc'[d] \in GlobalWaits =>
                  next_count'[d] = NumCpus * GlobalStage(pc'[d])
             /\ pc'[d] \in VmWaits =>
                  next_count'[d] = cpu_num'[vm_id'[d]] * VmStage(pc'[d])
             /\ pc'[d] \in {"vcpus_barrier", "init_barrier"} => Waited(d, vm_id[d])'
  <2>1. CASE d # c
    BY <1>1, <1>2, <2>1 DEF Awaited, Waited
  <2>2. CASE d = c
    <3>1. l \in VmWaits => VmStage(l) # 0
      BY DEF VmWaits, VmStage
    <3>2. l \in {"vcpus_barrier", "init_barrier"} => l \in VmWaits
      BY DEF VmWaits
    <3> QED
      BY <1>1, <1>2, <2>2, <3>1, <3>2 DEF Awaited, Waited
  <2> QED
    BY <2>1, <2>2
<1>6. Awaited'
  BY <1>5 DEF Awaited
<1> QED
  BY <1>4, <1>6

\* An arrival of core c at token t, with which it goes on to label l.
LEMMA ArrivalStep ==
  ASSUME BarrierInv, NEW c \in Cpus, NEW t \in Vms \cup {None}, NEW l \in Labels,
         Arrive(c, t, Size(t), l),
         \/ t = None /\ l \in GlobalWaits
         \/ t = vm_id[c] /\ t # None /\ l \in VmWaits
                         /\ l \notin {"vcpus_barrier", "init_barrier"},
         StageAt(t, l, vm_id[c]) = Stages(t)[c] + 1,
         \A u \in Vms \cup {None} :
             u # t => StageAt(u, l, vm_id[c]) = StageAt(u, pc[c], vm_id[c]),
         count[t] >= Size(t) * Stages(t)[c]
  PROVE  BootTypes' /\ Counted' /\ Awaited'
<1>1. AssignIInv /\ BootTypes /\ Counted /\ Awaited
  BY DEF BarrierInv
<1>2. /\ count' = [count EXCEPT ![t] = @ + 1]
      /\ next_count' = [next_count EXCEPT ![c] = RoundUp(count[t] + 1, Size(t))]
      /\ pc' = [pc EXCEPT ![c] = l]
      /\ UNCHANGED <<cpu_affinity, cpu_num, infoReady, cpus, mapped, ready, vm_id>>
  BY DEF Arrive, Goto, config, local
<1>3. c \in Members(t)
  <2>1. CASE t = None
    BY <2>1 DEF Members
  <2>2. CASE t # None
    BY <1>1, <2>2 DEF Members, AssignIInv, AssignmentInv
  <2> QED
    BY <2>1, <2>2
<1> DEFINE f == Stages(t)
           m == count[t]
           n == Size(t)
           M == Members(t)
<1>4. Rounds(f, m, n)
  BY <1>1 DEF Counted
<1>5. /\ f \in [Cpus -> Nat] /\ m \in Nat /\ n \in Nat /\ n > 0
      /\ M \in SUBSET Cpus /\ Cardinality(M) <= n
      /\ \A d \in Cpus : f[d] > 0 => d \in M
  BY <1>1, TokenFacts
<1>6. Rounds([f EXCEPT ![c] = f[c] + 1], m + 1, n) /\ RoundUp(m + 1, n) = n * (f[c] + 1)
  <2>1. c \in M /\ m >= n * f[c]
    BY <1>3
  <2> HIDE DEF f, m, n, M
  <2> QED
    BY <1>4, <1>5, <2>1, RoundArrival
<1>7. pc'[c] = l /\ \A d \in Cpus : d # c => pc'[d] = pc[d]
  BY <1>1, <1>2 DEF BootTypes
<1>8. Stages(t)' = [f EXCEPT ![c] = f[c] + 1]
  <2>1. ASSUME NEW d \in Cpus
        PROVE  StageAt(t, pc'[d], vm_id'[d]) = [f EXCEPT ![c] = f[c] + 1][d]
    <3>1. CASE d = c
      BY <1>2, <1>5, <1>7, <3>1
    <3>2. CASE d # c
      BY <1>2, <1>5, <1>7, <3>2 DEF Stages
    <3> QED
      BY <3>1, <3>2
  <2>2. Stages(t)' = [d \in Cpus |-> StageAt(t, pc'[d], vm_id'[d])]
    BY DEF Stages
  <2>3. [f EXCEPT ![c] = f[c] + 1] = [d \in Cpus |-> [f EXCEPT ![c] = f[c] + 1][d]]
    BY <1>5
  <2> HIDE DEF f
  <2> QED
    BY <2>1, <2>2, <2>3
<1>9. Counted'
  <2> SUFFICES ASSUME NEW u \in Vms \cup {None}
               PROVE  Rounds(Stages(u)', count'[u], Size(u))
    BY <1>2 DEF Counted, Size
  <2>1. CASE u = t
    <3>1. count'[u] = m + 1
      BY <1>1, <1>2, <2>1 DEF BootTypes
    <3> QED
      BY <1>6, <1>8, <2>1, <3>1
  <2>2. CASE u # t
    <3>1. count'[u] = count[u]
      BY <1>1, <1>2, <2>2 DEF BootTypes
    <3>2. Stages(u)' = Stages(u)
      <4>1. ASSUME NEW d \in Cpus
            PROVE  StageAt(u, pc'[d], vm_id'[d]) = StageAt(u, pc[d], vm_id[d])
        BY <1>2, <1>7, <2>2
      <4> QED
        BY <4>1 DEF Stages
    <3> QED
      BY <1>1, <3>1, <3>2 DEF Counted
  <2> QED
    BY <2>1, <2>2
<1>10. n * (f[c] + 1) \in Nat
  <2>1. f[c] \in Nat
    BY <1>5
  <2> HIDE DEF f, n
  <2> QED
    BY <1>5, <2>1
<1>11. BootTypes'
  <2>1. l \in InVm => vm_id[c] # None
    BY DEF InVm, Released, Looked, GlobalWaits
  <2>2. next_count' \in [Cpus -> Nat]
    BY <1>1, <1>2, <1>6, <1>10 DEF BootTypes
  <2>3. count' \in [Vms \cup {None} -> Nat]
    BY <1>1, <1>2 DEF BootTypes
  <2>4. pc' \in [Cpus -> Labels]
    BY <1>1, <1>2 DEF BootTypes
  <2>5. \A d \in Cpus : pc'[d] \in InVm => vm_id'[d] # None
    BY <1>1, <1>2, <1>7, <2>1 DEF BootTypes
  <2> QED
    BY <1>1, <1>2, <2>2, <2>3, <2>4, <2>5 DEF BootTypes
<1>12. ASSUME NEW d \in Cpus
       PROVE  /\ pc'[d] \in GlobalWaits =>
                   next_count'[d] = NumCpus * GlobalStage(pc'[d])
              /\ pc'[d] \in VmWaits =>
                   next_count'[d] = cpu_num'[vm_id'[d]] * VmStage(pc'[d])
              /\ pc'[d] \in {"vcpus_barrier", "init_barrier"} => Waited(d, vm_id[d])'
  <2>1. CASE d # c
    <3>1. next_count'[d] = next_count[d] /\ pc'[d] = pc[d] /\ vm_id'[d] = vm_id[d]
      BY <1>1, <1>2, <1>7, <2>1 DEF BootTypes
    <3>2. ASSUME NEW u \in Vms \cup {None}, count[u] >= next_count[d]
          PROVE  count'[u] >= next_count[d]
      BY <1>1, <1>2, <3>2 DEF BootTypes
    <3>3. vm_id[d] \in Vms \cup {None}
      BY <1>1 DEF AssignIInv, AssignTypes
    <3> QED
      BY <1>1, <1>2, <3>1, <3>2, <3>3 DEF Awaited, Waited
  <2>2. CASE d = c
    <3>1. next_count'[c] = n * (f[c] + 1)
      BY <1>1, <1>2, <1>6 DEF BootTypes
    <3>2. f[c] + 1 = StageAt(t, l, vm_id[c])
      OBVIOUS
    <3>3. CASE t = None /\ l \in GlobalWaits
      <4>1. l \notin VmWaits /\ l \notin {"vcpus_barrier", "init_barrier"}
        BY <3>3 DEF GlobalWaits, VmWaits
      <4>2. n = NumCpus /\ StageAt(t, l, vm_id[c]) = GlobalStage(l)
        BY <3>3 DEF Size, StageAt
      <4> QED
        BY <1>7, <2>2, <3>1, <3>2, <4>1, <4>2
    <3>4. CASE t = vm_id[c] /\ t # None /\ l \in VmWaits
                            /\ l \notin {"vcpus_barrier", "init_barrier"}
      <4>1. l \notin GlobalWaits
        BY <3>4 DEF GlobalWaits, VmWaits
      <4>2. n = cpu_num[vm_id[c]] /\ StageAt(t, l, vm_id[c]) = VmStage(l)
        BY <3>4 DEF Size, StageAt
      <4> QED
        BY <1>2, <1>7, <2>2, <3>1, <3>2, <3>4, <4>1, <4>2
    <3> QED
      BY <3>3, <3>4
  <2> QED
    BY <2>1, <2>2
<1>13. Awaited'
  BY <1>12 DEF Awaited
<1> QED
  BY <1>9, <1>11, <1>13

\* In the initial state no core has arrived anywhere.
LEMMA BarrierInit == Init => BarrierInv
<1> SUFFICES ASSUME Init PROVE BarrierInv
  OBVIOUS
<1>1. AssignIInv
  BY AssignInit
<1>2. BootTypes
  <2>1. pc \in [Cpus -> Labels] /\ \A c \in Cpus : pc[c] \notin InVm
    BY DEF Init, Labels, InVm, Released, Looked
  <2>2. ready \in [Vms \cup {None} -> BOOLEAN]
    BY DEF Init
  <2> QED
    BY <2>1, <2>2 DEF Init, BootTypes
<1>3. ASSUME NEW t \in Vms \cup {None}
      PROVE  Rounds(Stages(t), count[t], Size(t))
  <2> DEFINE f == Stages(t)
  <2>1. f \in [Cpus -> Nat] /\ \A c \in Cpus : f[c] = 0
    BY DEF Init, Stages, StageAt, GlobalStage, VmStage
  <2>2. count[t] = 0 /\ Size(t) \in Nat
    BY <1>1, <1>2, TokenFacts DEF Init
  <2> HIDE DEF f
  <2>3. {c \in Cpus : f[c] = 0 + 1} = {}
    BY <2>1
  <2>4. count[t] = Size(t) * 0 + Cardinality({c \in Cpus : f[c] = 0 + 1})
    BY <2>2, <2>3, FS_EmptySet
  <2>5. \A c \in Cpus : f[c] <= 0 + 1
    BY <2>1
  <2>6. \E r \in Nat :
           /\ \A c \in Cpus : f[c] <= r + 1
           /\ count[t] = Size(t) * r + Cardinality({c \in Cpus : f[c] = r + 1})
           /\ r > 0 => Cardinality({c \in Cpus : f[c] >= r}) = Size(t)
    <3> WITNESS 0 \in Nat
    <3> QED BY <2>4, <2>5
  <2> QED
    BY <2>6 DEF f, Rounds
<1>4. Counted
  BY <1>3 DEF Counted
<1>5. Awaited
  BY DEF Init, Awaited, GlobalWaits, VmWaits
<1> QED
  BY <1>1, <1>2, <1>4, <1>5 DEF BarrierInv

\* Every step keeps the counts of the barriers right.
LEMMA BarrierNext == BarrierInv /\ [Next]_vars => BarrierInv'
<1> SUFFICES ASSUME BarrierInv, [Next]_vars PROVE BarrierInv'
  OBVIOUS
<1>1. AssignIInv /\ BootTypes /\ Counted /\ Awaited
  BY DEF BarrierInv
<1>2. AssignIInv'
  BY <1>1, AssignNext
<1>3. CASE UNCHANGED vars
  <2>1. BootTypes'
    BY <1>1, <1>3 DEF vars, BootTypes
  <2>2. Counted' /\ Awaited'
    BY <1>1, <1>3 DEF vars, Counted, Stages, Size, Awaited, Waited
  <2> QED
    BY <1>2, <2>1, <2>2 DEF BarrierInv
<1>4. ASSUME NEW c \in Cpus, Step(c) PROVE BootTypes' /\ Counted' /\ Awaited'
  <2> USE DEF BarrierInv
  <2>0. pc[c] \in Labels /\ vm_id[c] \in Vms \cup {None} /\ pc \in [Cpus -> Labels]
    BY <1>1 DEF BootTypes, AssignIInv, AssignTypes
  <2>v. /\ vm_id \in [Cpus -> Vms \cup {None}] /\ vm_id' \in [Cpus -> Vms \cup {None}]
        /\ vm_id[c] # None => vm_id[c] \in Vms
    BY <1>1, <1>2 DEF AssignIInv, AssignTypes
  \* A step that is not an arrival, with which c goes on to label l.
  <2>q. ASSUME NEW l \in Labels, pc' = [pc EXCEPT ![c] = l],
               UNCHANGED <<cpu_affinity, cpu_num, count, next_count>>,
               \A d \in Cpus : d # c => vm_id'[d] = vm_id[d],
               infoReady' \in [Vms -> BOOLEAN], mapped' \in [Vms -> BOOLEAN],
               cpus' \in [Vms -> SUBSET Cpus], ready' \in [Vms \cup {None} -> BOOLEAN],
               GlobalStage(l) = GlobalStage(pc[c]), VmStage(l) = VmStage(pc[c]),
               vm_id'[c] = vm_id[c] \/ VmStage(l) = 0,
               l \in InVm => vm_id'[c] # None,
               l \in GlobalWaits => pc[c] = l,
               l \in VmWaits => pc[c] \in VmWaits,
               l \in {"vcpus_barrier", "init_barrier"} => Waited(c, vm_id[c])
        PROVE  BootTypes' /\ Counted' /\ Awaited'
    <3>1. \A d \in Cpus : pc'[d] \in InVm => vm_id'[d] # None
      BY <1>1, <2>0, <2>q DEF BootTypes
    <3>2. BootTypes'
      BY <1>1, <2>0, <2>q, <3>1 DEF BootTypes
    <3> QED
      BY <1>1, <2>q, <3>2, QuietStep
  <2>t. /\ infoReady \in [Vms -> BOOLEAN] /\ mapped \in [Vms -> BOOLEAN]
        /\ cpus \in [Vms -> SUBSET Cpus] /\ ready \in [Vms \cup {None} -> BOOLEAN]
    BY <1>1 DEF BootTypes
  <2> DEFINE Sets == /\ infoReady' \in [Vms -> BOOLEAN] /\ mapped' \in [Vms -> BOOLEAN]
                     /\ cpus' \in [Vms -> SUBSET Cpus]
                     /\ ready' \in [Vms \cup {None} -> BOOLEAN]
             Steady == UNCHANGED <<cpu_affinity, cpu_num, count, next_count>>
  <2>l. ASSUME NEW l \in Labels \ (GlobalWaits \cup VmWaits), Goto(c, l), Steady, Sets,
               vm_id' = vm_id, GlobalStage(l) = GlobalStage(pc[c]),
               VmStage(l) = VmStage(pc[c]), l \in InVm => vm_id[c] # None
        PROVE  BootTypes' /\ Counted' /\ Awaited'
    <3>1. l \notin {"vcpus_barrier", "init_barrier"}
      BY DEF VmWaits
    <3> QED
      BY <2>l, <2>q, <3>1 DEF Goto
  \* One of the arrivals at vm->sync.
  <2>b. ASSUME NEW from, NEW to \in Labels, VmBarrier(c, from, to),
               from \in InVm, to \in VmWaits,
               to \notin {"vcpus_barrier", "init_barrier"},
               GlobalStage(from) = 2, GlobalStage(to) = 2,
               VmStage(to) = VmStage(from) + 1,
               VmStage(from) = 0 \/ (from \in VmWaits /\ Waited(c, vm_id[c]))
        PROVE  BootTypes' /\ Counted' /\ Awaited'
    <3>1. pc[c] = from /\ Arrive(c, vm_id[c], cpu_num[vm_id[c]], to)
      BY <2>b DEF VmBarrier
    <3>2. vm_id[c] \in Vms /\ vm_id[c] # None
      BY <1>1, <2>b, <2>v, <3>1 DEF BootTypes
    <3>3. PICK v \in Vms : v = vm_id[c] /\ v # None
      BY <3>2
    <3>4. Size(v) = cpu_num[v]
      BY <3>3 DEF Size
    <3>5. Stages(v)[c] = VmStage(from) /\ StageAt(v, to, vm_id[c]) = VmStage(from) + 1
      BY <2>b, <3>1, <3>3 DEF Stages, StageAt
    <3>6. ASSUME NEW u \in Vms \cup {None}, u # v
          PROVE  StageAt(u, to, vm_id[c]) = StageAt(u, pc[c], vm_id[c])
      BY <2>b, <3>1, <3>3, <3>6 DEF StageAt
    <3>7. count[v] >= Size(v) * Stages(v)[c]
      <4>1. CASE VmStage(from) = 0
        <5>1. count[v] \in Nat /\ Size(v) \in Nat
          BY <1>1, TokenFacts
        <5> QED
          BY <3>5, <4>1, <5>1
      <4>2. CASE from \in VmWaits /\ Waited(c, vm_id[c])
        BY <3>1, <3>3, <4>2, HasWaited
      <4> QED
        BY <2>b, <4>1, <4>2
    <3>8. Arrive(c, v, Size(v), to)
      BY <3>1, <3>3, <3>4
    <3> QED
      BY <2>b, <3>3, <3>5, <3>6, <3>7, <3>8, ArrivalStep
  <2>1. CASE vmm_init(c)
    <3>1. pc[c] = "vmm_init" /\ Arrive(c, None, Size(None), "affinity")
      BY <2>1 DEF vmm_init, Size
    <3>2. Stages(None)[c] = 0 /\ StageAt(None, "affinity", vm_id[c]) = 1
      BY <3>1 DEF Stages, StageAt, GlobalStage
    <3>3. count[None] >= Size(None) * Stages(None)[c]
      <4>1. count[None] \in Nat /\ Size(None) \in Nat
        BY <1>1, TokenFacts
      <4> QED
        BY <3>2, <4>1
    <3>4. ASSUME NEW u \in Vms \cup {None}, u # None
          PROVE  StageAt(u, "affinity", vm_id[c]) = StageAt(u, pc[c], vm_id[c])
      BY <3>1, <3>4 DEF StageAt, VmStage
    <3>5. "affinity" \in Labels /\ "affinity" \in GlobalWaits
      BY DEF Labels, GlobalWaits
    <3>6. StageAt(None, "affinity", vm_id[c]) = Stages(None)[c] + 1
      BY <3>2
    <3> QED
      BY <3>1, <3>3, <3>4, <3>5, <3>6, ArrivalStep
  <2>2. CASE AssignByAffinity(c) \/ AssignLeftover(c)
    <3>1. /\ pc[c] \in {"affinity", "leftover"} /\ pc' = pc /\ Steady
          /\ UNCHANGED <<infoReady, mapped, cpus, ready>>
      BY <2>2 DEF AssignByAffinity, AssignLeftover, config, tokens
    <3>2. \A d \in Cpus : d # c => vm_id'[d] = vm_id[d]
      BY <2>2, <2>v DEF AssignByAffinity, AssignLeftover, GiveCore, SkipVm
    <3>3. pc' = [pc EXCEPT ![c] = pc[c]]
      BY <2>0, <3>1
    <3>4. /\ VmStage(pc[c]) = 0 /\ pc[c] \notin InVm /\ pc[c] \notin VmWaits
          /\ pc[c] \notin {"vcpus_barrier", "init_barrier"}
      BY <3>1 DEF VmStage, InVm, Released, Looked, VmWaits
    <3> QED
      BY <2>0, <2>q, <2>t, <3>1, <3>2, <3>3, <3>4
  <2>3. CASE AffinityBarrier(c)
    <3>1. /\ pc[c] = "affinity" /\ Waited(c, None)
          /\ Arrive(c, None, Size(None), "assigned")
      BY <2>3 DEF AffinityBarrier, Size
    <3>2. Stages(None)[c] = 1 /\ StageAt(None, "assigned", vm_id[c]) = 2
      BY <3>1 DEF Stages, StageAt, GlobalStage
    <3>3. count[None] >= Size(None) * Stages(None)[c]
      BY <3>1, HasWaited DEF GlobalWaits
    <3>4. ASSUME NEW u \in Vms \cup {None}, u # None
          PROVE  StageAt(u, "assigned", vm_id[c]) = StageAt(u, pc[c], vm_id[c])
      BY <3>1, <3>4 DEF StageAt, VmStage
    <3>5. "assigned" \in Labels /\ "assigned" \in GlobalWaits
      BY DEF Labels, GlobalWaits
    <3>6. StageAt(None, "assigned", vm_id[c]) = Stages(None)[c] + 1
      BY <3>2
    <3> QED
      BY <3>1, <3>3, <3>4, <3>5, <3>6, ArrivalStep
  <2>4. CASE StartLeftover(c) \/ AssignReturns(c)
    <3>1. /\ pc[c] \in {"assigned", "leftover"} /\ Steady /\ vm_id' = vm_id
          /\ UNCHANGED <<infoReady, mapped, cpus, ready>>
      BY <2>4 DEF StartLeftover, AssignReturns, config, tokens, local
    <3>2. PICK l \in {"leftover", "idle", "alloc"} :
             Goto(c, l) /\ (l = "alloc" => vm_id[c] # None)
      BY <2>4 DEF StartLeftover, AssignReturns
    <3>3. /\ l \in Labels \ (GlobalWaits \cup VmWaits)
          /\ l \in InVm => l = "alloc"
          /\ GlobalStage(l) = GlobalStage(pc[c]) /\ VmStage(l) = VmStage(pc[c])
      BY <3>1 DEF Labels, GlobalWaits, VmWaits, InVm, Released, Looked, GlobalStage,
                  VmStage
    <3> QED
      BY <2>l, <2>t, <3>1, <3>2, <3>3
  <2>5. CASE vmm_alloc_install_vm(c) \/ vm_master_init(c) \/ vm_cpu_init(c)
    <3>1. /\ pc[c] \in {"alloc", "master_init", "cpu_init"} /\ Steady /\ vm_id' = vm_id
      BY <2>5 DEF vmm_alloc_install_vm, vm_master_init, vm_cpu_init, config, tokens, local
    <3>2. PICK l \in {"master_init", "cpu_init", "cpus_barrier"} : Goto(c, l)
      BY <2>5 DEF vmm_alloc_install_vm, vm_master_init, vm_cpu_init
    <3>3. /\ l \in Labels \ (GlobalWaits \cup VmWaits) /\ pc[c] \in InVm
          /\ GlobalStage(l) = GlobalStage(pc[c]) /\ VmStage(l) = VmStage(pc[c])
      BY <3>1 DEF Labels, GlobalWaits, VmWaits, InVm, Released, Looked, GlobalStage,
                  VmStage
    <3>4. vm_id[c] # None
      BY <1>1, <3>3 DEF BootTypes
    <3>5. vm_id[c] \in Vms
      BY <2>v, <3>4
    <3>6. Sets
      <4>1. CASE vmm_alloc_install_vm(c)
        BY <2>t, <3>5, <4>1 DEF vmm_alloc_install_vm, tokens
      <4>2. CASE vm_master_init(c)
        BY <2>t, <3>5, <4>2 DEF vm_master_init
      <4>3. CASE vm_cpu_init(c)
        BY <2>t, <3>5, <4>3 DEF vm_cpu_init, tokens
      <4> QED
        BY <2>5, <4>1, <4>2, <4>3
    <3> QED
      BY <2>l, <3>1, <3>2, <3>3, <3>4, <3>6
  <2>6. CASE vm_vcpu_init(c) \/ VmInitMemory(c)
    <3>1. /\ pc[c] \in {"vcpu_init", "arch_init"} /\ Steady /\ vm_id' = vm_id
          /\ Waited(c, vm_id[c])
      BY <2>6 DEF vm_vcpu_init, VmInitMemory, config, tokens, local
    <3>2. PICK l \in {"vcpus_barrier", "init_barrier"} :
             /\ pc' = [pc EXCEPT ![c] = l]
             /\ l = "vcpus_barrier" <=> pc[c] = "vcpu_init"
      BY <2>6 DEF vm_vcpu_init, VmInitMemory, Goto
    <3>3. /\ l \in Labels \ GlobalWaits /\ pc[c] \in InVm /\ pc[c] \in VmWaits
          /\ GlobalStage(l) = GlobalStage(pc[c]) /\ VmStage(l) = VmStage(pc[c])
      BY <3>1, <3>2 DEF Labels, GlobalWaits, VmWaits, InVm, Released, Looked, GlobalStage,
                  VmStage
    <3>4. vm_id[c] # None
      BY <1>1, <3>3 DEF BootTypes
    <3>6. Sets
      BY <2>6, <2>t, <2>v, <3>4 DEF vm_vcpu_init, VmInitMemory, tokens
    <3> QED
      BY <2>q, <3>1, <3>2, <3>3, <3>4, <3>6
  <2>7. CASE vcpu_run(c)
    <3>1. /\ pc[c] = "run" /\ Steady /\ vm_id' = vm_id
          /\ UNCHANGED <<infoReady, mapped, cpus, ready>>
      BY <2>7 DEF vcpu_run, config, tokens, local
    <3>2. PICK l \in {"guest", "stopped"} : Goto(c, l)
      BY <2>7 DEF vcpu_run
    <3>3. /\ l \in Labels \ (GlobalWaits \cup VmWaits) /\ pc[c] \in InVm
          /\ GlobalStage(l) = GlobalStage(pc[c]) /\ VmStage(l) = VmStage(pc[c])
      BY <3>1 DEF Labels, GlobalWaits, VmWaits, InVm, Released, Looked, GlobalStage,
                  VmStage
    <3>4. vm_id[c] # None
      BY <1>1, <3>3 DEF BootTypes
    <3> QED
      BY <2>l, <2>t, <3>1, <3>2, <3>3, <3>4
  <2> DEFINE Good(from, to) ==
               /\ to \in Labels /\ from \in InVm /\ to \in VmWaits
               /\ to \notin {"vcpus_barrier", "init_barrier"}
               /\ GlobalStage(from) = 2 /\ GlobalStage(to) = 2
               /\ VmStage(to) = VmStage(from) + 1
  <2>g. /\ Good("cpus_barrier", "vcpu_init") /\ VmStage("cpus_barrier") = 0
        /\ Good("vcpus_barrier", "arch_init") /\ Good("init_barrier", "clear_msgs")
        /\ Good("clear_msgs", "init_done") /\ Good("init_done", "run")
        /\ {"vcpus_barrier", "init_barrier", "clear_msgs", "init_done"} \subseteq VmWaits
    BY DEF Labels, InVm, Released, Looked, VmWaits, GlobalStage, VmStage
  <2>8. CASE VmBarrier(c, "cpus_barrier", "vcpu_init")
    BY <2>8, <2>b, <2>g
  <2>9. CASE VmBarrier(c, "vcpus_barrier", "arch_init")
    <3>1. Waited(c, vm_id[c])
      BY <1>1, <2>9 DEF VmBarrier, Awaited
    <3> QED
      BY <2>9, <2>b, <2>g, <3>1
  <2>10. CASE VmBarrier(c, "init_barrier", "clear_msgs")
    <3>1. Waited(c, vm_id[c])
      BY <1>1, <2>10 DEF VmBarrier, Awaited
    <3> QED
      BY <2>10, <2>b, <2>g, <3>1
  <2>11. CASE NextBarrier(c, "clear_msgs", "init_done")
    BY <2>11, <2>b, <2>g DEF NextBarrier
  <2>12. CASE NextBarrier(c, "init_done", "run")
    BY <2>12, <2>b, <2>g DEF NextBarrier
  <2> QED
    BY <1>4, <2>1, <2>2, <2>3, <2>4, <2>5, <2>6, <2>7, <2>8, <2>9, <2>10, <2>11, <2>12
    DEF Step
<1> QED
  BY <1>2, <1>3, <1>4 DEF Next, BarrierInv

-----------------------------------------------------------------------------
(* Who gets which place. *)

\* A step of core c leaves the other cores alone.
LEMMA OthersStay ==
  ASSUME BarrierInv, NEW c \in Cpus, Step(c)
  PROVE  /\ UNCHANGED <<cpu_affinity, cpu_num>>
         /\ \A d \in Cpus : d # c => /\ pc'[d] = pc[d] /\ idx'[d] = idx[d]
                                     /\ vm_id'[d] = vm_id[d] /\ master'[d] = master[d]
<1>1. /\ pc \in [Cpus -> Labels] /\ idx \in [Cpus -> 0 .. vmlist_size]
      /\ vm_id \in [Cpus -> Vms \cup {None}] /\ master \in [Cpus -> BOOLEAN]
  BY DEF BarrierInv, BootTypes, AssignIInv, AssignTypes
<1> DEFINE Goal == /\ UNCHANGED <<cpu_affinity, cpu_num>>
                   /\ \A d \in Cpus : d # c =>
                          /\ pc'[d] = pc[d] /\ idx'[d] = idx[d]
                          /\ vm_id'[d] = vm_id[d] /\ master'[d] = master[d]
<1>2. ASSUME NEW l, Goto(c, l), UNCHANGED <<config, local>> PROVE Goal
  BY <1>1, <1>2 DEF Goto, config, local
<1>3. ASSUME NEW t, NEW n, NEW l, Arrive(c, t, n, l) PROVE Goal
  BY <1>2, <1>3 DEF Arrive
<1>4. CASE AssignByAffinity(c) \/ AssignLeftover(c)
  BY <1>1, <1>4 DEF AssignByAffinity, AssignLeftover, GiveCore, SkipVm, config
<1>5. CASE StartLeftover(c)
  BY <1>1, <1>5 DEF StartLeftover, Goto, config
<1>6. CASE AssignReturns(c) \/ vmm_alloc_install_vm(c) \/ vm_master_init(c)
           \/ vm_cpu_init(c) \/ vm_vcpu_init(c) \/ VmInitMemory(c) \/ vcpu_run(c)
  BY <1>2, <1>6 DEF AssignReturns, vmm_alloc_install_vm, vm_master_init, vm_cpu_init,
                    vm_vcpu_init, VmInitMemory, vcpu_run
<1>7. ASSUME NEW from, NEW to, VmBarrier(c, from, to) \/ NextBarrier(c, from, to)
      PROVE  Goal
  BY <1>3, <1>7 DEF VmBarrier, NextBarrier
<1>8. CASE vmm_init(c) \/ AffinityBarrier(c)
  BY <1>3, <1>8 DEF vmm_init, AffinityBarrier
<1>9. Goal
  BY <1>4, <1>5, <1>6, <1>7, <1>8 DEF Step, Goal
<1> QED
  BY <1>9 DEF Goal

\* Core c gets a place in VM v.
Gives(c, v) ==
    /\ pc' = pc /\ pc[c] \in {"affinity", "leftover"}
    /\ vm_id[c] = None /\ v = idx[c] /\ ncpus[v] < cpu_num[v]
    /\ GiveCore(c, v)
    /\ pc[c] = "affinity" => c \in cpu_affinity[v]

\* A step gives the core a place, which was free, or leaves the places alone.
LEMMA GivesOrNot ==
  ASSUME BarrierInv, NEW c \in Cpus, Step(c)
  PROVE  (\E v \in Vms : Gives(c, v)) \/ UNCHANGED <<assign, vm_id>>
<1>1. /\ idx \in [Cpus -> 0 .. vmlist_size] /\ AssignIInv
  BY DEF BarrierInv, AssignIInv, AssignTypes
<1>2. CASE AssignByAffinity(c)
  <2>1. CASE TakesByAffinity(c, idx[c])
    <3>1. idx[c] \in Vms
      BY <1>1, <1>2, VmmAssumption DEF AssignByAffinity, AffinityDone, Vms
    <3>2. PICK v \in Vms : v = idx[c]
      BY <3>1
    <3>3. ncpus[v] < cpu_num[v]
      BY <1>1, <2>1, <3>2 DEF TakesByAffinity, AssignIInv, AssignTypes, AssignmentInv
    <3>4. Gives(c, v)
      BY <1>2, <2>1, <3>2, <3>3 DEF AssignByAffinity, AffinityDone, Gives, TakesByAffinity
    <3> QED
      BY <3>4
  <2>2. CASE ~ TakesByAffinity(c, idx[c])
    BY <1>2, <2>2 DEF AssignByAffinity, SkipVm
  <2> QED
    BY <2>1, <2>2
<1>3. CASE AssignLeftover(c)
  <2>1. CASE ncpus[idx[c]] < cpu_num[idx[c]]
    <3>1. idx[c] \in Vms
      BY <1>1, <1>3, VmmAssumption DEF AssignLeftover, LeftoverEnds, Vms
    <3>2. PICK v \in Vms : v = idx[c]
      BY <3>1
    <3>3. Gives(c, v)
      BY <1>3, <2>1, <3>2 DEF AssignLeftover, LeftoverEnds, Gives
    <3> QED
      BY <3>3
  <2>2. CASE ~ (ncpus[idx[c]] < cpu_num[idx[c]])
    BY <1>3, <2>2 DEF AssignLeftover, SkipVm
  <2> QED
    BY <2>1, <2>2
<1>4. ASSUME NEW t, NEW n, NEW l, Arrive(c, t, n, l) PROVE UNCHANGED <<assign, vm_id>>
  BY <1>4 DEF Arrive, local
<1>5. ASSUME NEW from, NEW to, VmBarrier(c, from, to) \/ NextBarrier(c, from, to)
      PROVE  UNCHANGED <<assign, vm_id>>
  BY <1>4, <1>5 DEF VmBarrier, NextBarrier
<1>6. CASE vmm_init(c) \/ AffinityBarrier(c)
  BY <1>4, <1>6 DEF vmm_init, AffinityBarrier
<1>7. CASE StartLeftover(c) \/ AssignReturns(c) \/ vmm_alloc_install_vm(c)
           \/ vm_master_init(c) \/ vm_cpu_init(c) \/ vm_vcpu_init(c)
           \/ VmInitMemory(c) \/ vcpu_run(c)
  BY <1>7 DEF StartLeftover, AssignReturns, vmm_alloc_install_vm, vm_master_init,
              vm_cpu_init, vm_vcpu_init, VmInitMemory, vcpu_run, local
<1> QED
  BY <1>2, <1>3, <1>5, <1>6, <1>7 DEF Step

\* A full VM stays full, and a core keeps its VM.
LEMMA PlacesKept ==
  ASSUME BarrierInv, NEW c \in Cpus, Step(c)
  PROVE  /\ \A v \in Vms : Full(v) => Full(v)'
         /\ \A d \in Cpus : vm_id[d] # None => vm_id'[d] = vm_id[d]
<1>1. /\ vm_id \in [Cpus -> Vms \cup {None}] /\ ncpus \in [Vms -> Nat]
      /\ cpu_num \in [Vms -> Nat \ {0}]
  BY DEF BarrierInv, AssignIInv, AssignTypes
<1>2. cpu_num' = cpu_num
  BY OthersStay
<1>3. ASSUME NEW v \in Vms, Gives(c, v)
      PROVE  /\ \A w \in Vms : Full(w) => Full(w)'
             /\ \A d \in Cpus : vm_id[d] # None => vm_id'[d] = vm_id[d]
  BY <1>1, <1>2, <1>3 DEF Gives, GiveCore, Full
<1>4. CASE UNCHANGED <<assign, vm_id>>
  BY <1>2, <1>4 DEF assign, Full
<1> QED
  BY <1>3, <1>4, GivesOrNot

\* A core leaves the first loop, and the second barrier, only once.
LEMMA LabelsKept ==
  ASSUME BarrierInv, NEW c \in Cpus, Step(c)
  PROVE  /\ pc[c] \in Looked => pc'[c] \in Looked
         /\ pc'[c] \in Released => pc[c] \in Released \/ StartLeftover(c)
<1>1. pc \in [Cpus -> Labels]
  BY DEF BarrierInv, BootTypes
<1> DEFINE Goal == /\ pc[c] \in Looked => pc'[c] \in Looked
                   /\ pc'[c] \in Released => pc[c] \in Released \/ StartLeftover(c)
<1> USE DEF Looked, Released, Labels
<1>2. ASSUME NEW l \in Released, Goto(c, l), pc[c] \in Released \/ StartLeftover(c)
      PROVE  Goal
  BY <1>1, <1>2 DEF Goto
<1>3. CASE vmm_init(c) \/ AffinityBarrier(c)
  BY <1>1, <1>3 DEF vmm_init, AffinityBarrier, Arrive, Goto
<1>4. CASE AssignByAffinity(c) \/ AssignLeftover(c)
  BY <1>4 DEF AssignByAffinity, AssignLeftover
<1>5. CASE StartLeftover(c) \/ AssignReturns(c)
  <2>1. PICK l \in {"leftover", "idle", "alloc"} : Goto(c, l)
    BY <1>5 DEF StartLeftover, AssignReturns
  <2>2. pc[c] \in Released \/ StartLeftover(c)
    BY <1>5 DEF AssignReturns
  <2> QED
    BY <1>2, <2>1, <2>2
<1>6. CASE vmm_alloc_install_vm(c) \/ vm_master_init(c) \/ vm_cpu_init(c)
           \/ vm_vcpu_init(c) \/ VmInitMemory(c) \/ vcpu_run(c)
  <2>1. PICK l \in {"master_init", "cpu_init", "cpus_barrier", "vcpus_barrier",
                    "init_barrier", "guest", "stopped"} : Goto(c, l)
    BY <1>6 DEF vmm_alloc_install_vm, vm_master_init, vm_cpu_init, vm_vcpu_init,
                VmInitMemory, vcpu_run
  <2>2. pc[c] \in Released
    BY <1>6 DEF vmm_alloc_install_vm, vm_master_init, vm_cpu_init, vm_vcpu_init,
                VmInitMemory, vcpu_run
  <2> QED
    BY <1>2, <2>1, <2>2
<1>7. CASE VmBarrier(c, "cpus_barrier", "vcpu_init")
           \/ VmBarrier(c, "vcpus_barrier", "arch_init")
           \/ VmBarrier(c, "init_barrier", "clear_msgs")
           \/ NextBarrier(c, "clear_msgs", "init_done")
           \/ NextBarrier(c, "init_done", "run")
  <2>1. PICK l \in {"vcpu_init", "arch_init", "clear_msgs", "init_done", "run"} : Goto(c, l)
    BY <1>7 DEF VmBarrier, NextBarrier, Arrive
  <2>2. pc[c] \in Released
    BY <1>7 DEF VmBarrier, NextBarrier
  <2> QED
    BY <1>2, <2>1, <2>2
<1> QED
  BY <1>3, <1>4, <1>5, <1>6, <1>7 DEF Step

\* The steps that do not belong to vmm_assign_vcpu change neither idx nor vm_id
\* and stay on its far side.
LEMMA FarSide ==
  ASSUME BarrierInv, NEW c \in Cpus, Step(c), ~ vmm_init(c), ~ AssignByAffinity(c),
         ~ AffinityBarrier(c), ~ StartLeftover(c), ~ AssignLeftover(c),
         ~ AssignReturns(c)
  PROVE  /\ pc[c] \in InVm /\ pc'[c] \in InVm
         /\ UNCHANGED <<assign, idx, vm_id, master>>
<1>1. pc \in [Cpus -> Labels]
  BY DEF BarrierInv, BootTypes
<1>2. CASE vmm_alloc_install_vm(c) \/ vm_master_init(c) \/ vm_cpu_init(c)
           \/ vm_vcpu_init(c) \/ VmInitMemory(c) \/ vcpu_run(c)
  <2>1. PICK l \in {"master_init", "cpu_init", "cpus_barrier", "vcpus_barrier",
                    "init_barrier", "guest", "stopped"} : Goto(c, l)
    BY <1>2 DEF vmm_alloc_install_vm, vm_master_init, vm_cpu_init, vm_vcpu_init,
                VmInitMemory, vcpu_run
  <2>2. pc[c] \in {"alloc", "master_init", "cpu_init", "vcpu_init", "arch_init", "run"}
    BY <1>2 DEF vmm_alloc_install_vm, vm_master_init, vm_cpu_init, vm_vcpu_init,
                VmInitMemory, vcpu_run
  <2>3. UNCHANGED <<assign, idx, vm_id, master>>
    BY <1>2 DEF vmm_alloc_install_vm, vm_master_init, vm_cpu_init, vm_vcpu_init,
                VmInitMemory, vcpu_run, local
  <2> QED
    BY <1>1, <2>1, <2>2, <2>3 DEF Goto, InVm, Released, Looked, Labels
<1>3. CASE VmBarrier(c, "cpus_barrier", "vcpu_init")
           \/ VmBarrier(c, "vcpus_barrier", "arch_init")
           \/ VmBarrier(c, "init_barrier", "clear_msgs")
           \/ NextBarrier(c, "clear_msgs", "init_done")
           \/ NextBarrier(c, "init_done", "run")
  <2>1. PICK l \in {"vcpu_init", "arch_init", "clear_msgs", "init_done", "run"} : Goto(c, l)
    BY <1>3 DEF VmBarrier, NextBarrier, Arrive
  <2>2. pc[c] \in {"cpus_barrier", "vcpus_barrier", "init_barrier", "clear_msgs",
                   "init_done"}
    BY <1>3 DEF VmBarrier, NextBarrier
  <2>3. UNCHANGED <<assign, idx, vm_id, master>>
    BY <1>3 DEF VmBarrier, NextBarrier, Arrive, local
  <2> QED
    BY <1>1, <2>1, <2>2, <2>3 DEF Goto, InVm, Released, Looked, Labels
<1> QED
  BY <1>2, <1>3 DEF Step

\* In the initial state no place is given.
LEMMA PlaceInit == Init => PlaceInv
<1> SUFFICES ASSUME Init PROVE PlaceInv
  OBVIOUS
<1>1. BarrierInv
  BY BarrierInit
<1>2. \A c \in Cpus : pc[c] = "vmm_init" /\ vm_id[c] = None /\ idx[c] = 0
  BY DEF Init
<1>3. Preferred
  <2>1. \A v \in Vms : ~ (v < 0)
    BY VmmAssumption DEF Vms
  <2> QED
    BY <1>2, <2>1 DEF Preferred, Released, Looked, Labels
<1>4. LoopsApart /\ LeftoverInv
  BY <1>2 DEF LoopsApart, LeftoverInv, Released, Looked, Labels
<1>5. \A v \in Vms : assigned[v] = {}
  BY DEF Init
<1>6. AffinityIsExact /\ AffinityFirst
  BY <1>5 DEF AffinityIsExact, AffinityFirst
<1> QED
  BY <1>1, <1>3, <1>4, <1>6 DEF PlaceInv

\* The core is what it was in the first loop, or in full VMs it passed by.
LEMMA PreferredNext ==
  ASSUME PlaceInv, NEW c \in Cpus, Step(c)
  PROVE  Preferred'
<1>1. BarrierInv /\ Preferred
  BY DEF PlaceInv
<1>2. /\ pc \in [Cpus -> Labels] /\ idx \in [Cpus -> 0 .. vmlist_size]
      /\ vm_id \in [Cpus -> Vms \cup {None}] /\ cpu_num \in [Vms -> Nat \ {0}]
      /\ ncpus \in [Vms -> Nat] /\ \A v \in Vms : ncpus[v] <= cpu_num[v]
  BY <1>1 DEF BarrierInv, BootTypes, AssignIInv, AssignTypes, AssignmentInv
<1>3. /\ cpu_affinity' = cpu_affinity /\ cpu_num' = cpu_num
      /\ \A d \in Cpus : d # c => /\ pc'[d] = pc[d] /\ idx'[d] = idx[d]
                                  /\ vm_id'[d] = vm_id[d]
  BY <1>1, OthersStay
<1>4. \A v \in Vms : Full(v) => Full(v)'
  BY <1>1, PlacesKept
<1> DEFINE P(d) ==
      /\ pc[d] \notin Released /\ vm_id[d] # None => d \in cpu_affinity[vm_id[d]]
      /\ pc[d] \notin Released =>
            \A v \in Vms : v < idx[d] /\ d \in cpu_affinity[v] => Full(v)
      /\ pc[d] = "assigned" => AffinityDone(d)
      /\ pc[d] \in Released =>
            \/ vm_id[d] # None /\ d \in cpu_affinity[vm_id[d]]
            \/ \A v \in Vms : d \in cpu_affinity[v] => Full(v)
<1>5. \A d \in Cpus : P(d)
  BY <1>1 DEF Preferred
<1>6. ASSUME NEW d \in Cpus, pc'[d] = pc[d], idx'[d] = idx[d], vm_id'[d] = vm_id[d]
      PROVE  P(d)'
  BY <1>3, <1>4, <1>5, <1>6 DEF AffinityDone
<1>7. P(c)'
  <2>r. "affinity" \notin Released /\ "assigned" \notin Released
        /\ "vmm_init" \notin Released /\ "leftover" \in Released /\ "alloc" \in Released
        /\ "idle" \in Released
    BY DEF Released, Looked, Labels
  <2>1. CASE vmm_init(c)
    <3>1. /\ pc[c] = "vmm_init" /\ pc'[c] = "affinity" /\ idx' = idx /\ vm_id' = vm_id
      BY <1>2, <2>1 DEF vmm_init, Arrive, Goto, local
    <3> QED
      BY <1>3, <1>4, <1>5, <2>r, <3>1
  <2>2. CASE AssignByAffinity(c)
    <3>1. /\ pc[c] = "affinity" /\ pc' = pc /\ vm_id[c] = None /\ idx[c] # vmlist_size
      BY <2>2 DEF AssignByAffinity, AffinityDone
    <3>2. CASE TakesByAffinity(c, idx[c])
      <4>1. vm_id'[c] = idx[c] /\ idx' = idx /\ c \in cpu_affinity[idx[c]]
        BY <1>2, <2>2, <3>2 DEF AssignByAffinity, GiveCore, TakesByAffinity
      <4> QED
        BY <1>3, <1>4, <1>5, <2>r, <3>1, <4>1
    <3>3. CASE ~ TakesByAffinity(c, idx[c])
      <4>1. vm_id' = vm_id /\ idx'[c] = idx[c] + 1
        BY <1>2, <2>2, <3>3 DEF AssignByAffinity, SkipVm
      <4>2. idx[c] \in Vms
        BY <1>2, <3>1, VmmAssumption DEF Vms
      <4>3. c \in cpu_affinity[idx[c]] => Full(idx[c])
        BY <1>2, <3>3, <4>2 DEF TakesByAffinity, Full
      <4>4. ASSUME NEW v \in Vms, v < idx'[c], c \in cpu_affinity[v]
            PROVE  Full(v)
        <5>1. v = idx[c] \/ v < idx[c]
          BY <1>2, <4>1, <4>2, <4>4 DEF Vms
        <5> QED
          BY <1>5, <2>r, <3>1, <4>3, <4>4, <5>1
      <4> QED
        BY <1>3, <1>4, <2>r, <3>1, <4>1, <4>4
    <3> QED
      BY <3>2, <3>3
  <2>3. CASE AffinityBarrier(c)
    <3>1. /\ pc[c] = "affinity" /\ pc'[c] = "assigned" /\ idx' = idx /\ vm_id' = vm_id
          /\ AffinityDone(c)
      BY <1>2, <2>3 DEF AffinityBarrier, Arrive, Goto, local
    <3> QED
      BY <1>3, <1>4, <1>5, <2>r, <3>1 DEF AffinityDone
  <2>4. CASE StartLeftover(c)
    <3>1. /\ pc[c] = "assigned" /\ pc'[c] \in {"leftover", "alloc"} /\ vm_id' = vm_id
      BY <1>2, <2>4 DEF StartLeftover, Goto
    <3>2. vm_id[c] # None \/ idx[c] = vmlist_size
      BY <1>5, <3>1 DEF AffinityDone
    <3>3. CASE vm_id[c] # None
      BY <1>3, <1>4, <1>5, <2>r, <3>1, <3>3
    <3>4. CASE idx[c] = vmlist_size
      <4>1. \A v \in Vms : v < idx[c]
        BY <3>4, VmmAssumption DEF Vms
      <4> QED
        BY <1>3, <1>4, <1>5, <2>r, <3>1, <4>1
    <3> QED
      BY <3>2, <3>3, <3>4
  <2>5. CASE AssignLeftover(c)
    <3>1. pc[c] = "leftover" /\ pc' = pc /\ vm_id[c] = None
      BY <2>5 DEF AssignLeftover, LeftoverEnds
    <3> QED
      BY <1>3, <1>4, <1>5, <2>r, <3>1
  <2>6. CASE AssignReturns(c)
    <3>1. pc[c] = "leftover" /\ pc'[c] \in {"idle", "alloc"} /\ vm_id' = vm_id
      BY <1>2, <2>6 DEF AssignReturns, Goto, local
    <3> QED
      BY <1>3, <1>4, <1>5, <2>r, <3>1
  <2>7. CASE pc[c] \in InVm /\ pc'[c] \in InVm /\ vm_id' = vm_id
    <3>1. pc[c] \in Released /\ pc'[c] \in Released /\ pc'[c] # "assigned"
      BY <2>7 DEF InVm, Released
    <3> QED
      BY <1>3, <1>4, <1>5, <2>7, <3>1
  <2> QED
    BY <1>1, <2>1, <2>2, <2>3, <2>4, <2>5, <2>6, <2>7, FarSide
<1>8. \A d \in Cpus : P(d)'
  BY <1>3, <1>6, <1>7
<1> QED
  BY <1>8 DEF Preferred

\* The second loop starts when all cores are through the first one.
LEMMA LoopsNext ==
  ASSUME PlaceInv, NEW c \in Cpus, Step(c)
  PROVE  LoopsApart'
<1>1. BarrierInv /\ LoopsApart
  BY DEF PlaceInv
<1>2. pc \in [Cpus -> Labels] /\ \A d \in Cpus : d # c => pc'[d] = pc[d]
  BY <1>1, OthersStay DEF BarrierInv, BootTypes
<1>3. \A d \in Cpus : pc[d] \in Looked => pc'[d] \in Looked
  BY <1>1, <1>2, LabelsKept
<1>4. SUFFICES ASSUME NEW a \in Cpus, NEW d \in Cpus, pc'[a] \in Released
               PROVE  pc'[d] \in Looked
  BY DEF LoopsApart
<1>5. CASE pc[a] \in Released
  BY <1>1, <1>3, <1>5 DEF LoopsApart
<1>6. CASE pc[a] \notin Released
  <2>1. StartLeftover(c)
    BY <1>1, <1>2, <1>4, <1>6, LabelsKept
  <2>2. pc[c] = "assigned" /\ Waited(c, None)
    BY <2>1 DEF StartLeftover
  <2>3. \A e \in Members(None) : Stages(None)[e] >= Stages(None)[c]
    BY <1>1, <2>2, HasWaited DEF GlobalWaits
  <2>4. GlobalStage(pc[d]) >= GlobalStage(pc[c])
    BY <2>3 DEF Members, Stages, StageAt
  <2>5. pc[d] \in Looked
    BY <1>2, <2>2, <2>4 DEF GlobalStage, Looked
  <2> QED
    BY <1>3, <2>5
<1> QED
  BY <1>5, <1>6

\* The second loop passes by full VMs only.
LEMMA LeftoverNext ==
  ASSUME PlaceInv, NEW c \in Cpus, Step(c)
  PROVE  LeftoverInv'
<1>1. BarrierInv /\ LeftoverInv
  BY DEF PlaceInv
<1>2. /\ pc \in [Cpus -> Labels] /\ idx \in [Cpus -> 0 .. vmlist_size]
      /\ vm_id \in [Cpus -> Vms \cup {None}] /\ cpu_num \in [Vms -> Nat \ {0}]
      /\ ncpus \in [Vms -> Nat] /\ \A v \in Vms : ncpus[v] <= cpu_num[v]
  BY <1>1 DEF BarrierInv, BootTypes, AssignIInv, AssignTypes, AssignmentInv
<1>3. \A d \in Cpus : d # c => pc'[d] = pc[d] /\ idx'[d] = idx[d]
  BY <1>1, OthersStay
<1>4. \A v \in Vms : Full(v) => Full(v)'
  BY <1>1, PlacesKept
<1> DEFINE P(d) == /\ pc[d] = "leftover" => \A v \in Vms : v < idx[d] => Full(v)
                   /\ pc[d] = "idle" => \A v \in Vms : Full(v)
<1>5. \A d \in Cpus : P(d)
  BY <1>1 DEF LeftoverInv
<1>6. ASSUME NEW d \in Cpus, pc'[d] = pc[d], idx'[d] = idx[d]
      PROVE  P(d)'
  BY <1>4, <1>5, <1>6
<1>7. P(c)'
  <2>1. CASE vmm_init(c) \/ AffinityBarrier(c)
    <3>1. pc'[c] \in {"affinity", "assigned"}
      BY <1>2, <2>1 DEF vmm_init, AffinityBarrier, Arrive, Goto
    <3> QED
      BY <3>1
  <2>2. CASE AssignByAffinity(c)
    <3>1. pc'[c] = "affinity"
      BY <2>2 DEF AssignByAffinity
    <3> QED
      BY <3>1
  <2>3. CASE StartLeftover(c)
    <3>1. pc'[c] \in {"leftover", "alloc"} /\ idx'[c] = 0
      BY <1>2, <2>3 DEF StartLeftover, Goto
    <3>2. \A v \in Vms : ~ (v < 0)
      BY VmmAssumption DEF Vms
    <3> QED
      BY <3>1, <3>2
  <2>4. CASE AssignLeftover(c)
    <3>1. pc[c] = "leftover" /\ pc' = pc /\ idx[c] # vmlist_size
      BY <2>4 DEF AssignLeftover, LeftoverEnds
    <3>2. idx[c] \in Vms
      BY <1>2, <3>1, VmmAssumption DEF Vms
    <3>3. CASE ncpus[idx[c]] < cpu_num[idx[c]]
      <4>1. idx' = idx
        BY <2>4, <3>3 DEF AssignLeftover, GiveCore
      <4> QED
        BY <1>4, <1>5, <3>1, <4>1
    <3>4. CASE ~ (ncpus[idx[c]] < cpu_num[idx[c]])
      <4>1. idx'[c] = idx[c] + 1
        BY <1>2, <2>4, <3>4 DEF AssignLeftover, SkipVm
      <4>2. Full(idx[c])
        BY <1>2, <3>2, <3>4 DEF Full
      <4>3. ASSUME NEW v \in Vms, v < idx'[c] PROVE Full(v)
        <5>1. v = idx[c] \/ v < idx[c]
          BY <1>2, <3>2, <4>1, <4>3 DEF Vms
        <5> QED
          BY <1>5, <3>1, <4>2, <5>1
      <4> QED
        BY <1>4, <3>1, <4>3
    <3> QED
      BY <3>3, <3>4
  <2>5. CASE AssignReturns(c)
    <3>1. /\ pc[c] = "leftover" /\ pc'[c] \in {"idle", "alloc"}
          /\ pc'[c] = "idle" => idx[c] = vmlist_size
      BY <1>2, <2>5 DEF AssignReturns, LeftoverEnds, Goto
    <3>2. idx[c] = vmlist_size => \A v \in Vms : v < idx[c]
      BY VmmAssumption DEF Vms
    <3> QED
      BY <1>4, <1>5, <3>1, <3>2
  <2>6. CASE pc'[c] \in InVm
    BY <2>6 DEF InVm
  <2> QED
    BY <1>1, <2>1, <2>2, <2>3, <2>4, <2>5, <2>6, FarSide
<1>8. \A d \in Cpus : P(d)'
  BY <1>3, <1>6, <1>7
<1> QED
  BY <1>8 DEF LeftoverInv

\* Whoever gets a place in the second loop, the cores the VM prefers are in VMs
\* that prefer them; with exclusive affinities they are then all in this VM.
LEMMA AffinityNext ==
  ASSUME PlaceInv, NEW c \in Cpus, Step(c)
  PROVE  AffinityFirst' /\ AffinityIsExact'
<1>1. BarrierInv /\ Preferred /\ LoopsApart /\ AffinityFirst /\ AffinityIsExact
  BY DEF PlaceInv
<1>2. /\ pc \in [Cpus -> Labels] /\ vm_id \in [Cpus -> Vms \cup {None}]
      /\ assigned \in [Vms -> SUBSET Cpus] /\ cpu_affinity \in [Vms -> SUBSET Cpus]
      /\ cpu_num \in [Vms -> Nat \ {0}] /\ ncpus \in [Vms -> Nat]
      /\ \A v \in Vms : /\ ncpus[v] = Cardinality(assigned[v])
                        /\ assigned[v] = {d \in Cpus : vm_id[d] = v}
  BY <1>1 DEF BarrierInv, BootTypes, AssignIInv, AssignTypes, AssignmentInv
<1>3. cpu_affinity' = cpu_affinity /\ cpu_num' = cpu_num
  BY <1>1, OthersStay
<1>4. \A d \in Cpus : vm_id[d] # None => vm_id'[d] = vm_id[d]
  BY <1>1, PlacesKept
<1> DEFINE Placed(v) == \A d \in cpu_affinity[v] :
                            vm_id[d] # None /\ d \in cpu_affinity[vm_id[d]]
<1>5. ASSUME NEW v \in Vms, Placed(v)
      PROVE  \A d \in cpu_affinity[v] : vm_id'[d] # None /\ d \in cpu_affinity[vm_id'[d]]
  BY <1>2, <1>4, <1>5
<1>6. CASE UNCHANGED <<assign, vm_id>>
  BY <1>1, <1>3, <1>6 DEF assign, AffinityFirst, AffinityIsExact, Exclusive
<1>7. ASSUME NEW v \in Vms, Gives(c, v) PROVE AffinityFirst' /\ AffinityIsExact'
  <2>1. assigned' = [assigned EXCEPT ![v] = @ \cup {c}]
    BY <1>7 DEF Gives, GiveCore
  <2>2. \A w \in Vms : w # v => assigned'[w] = assigned[w]
    BY <1>2, <2>1
  <2>3. assigned'[v] = assigned[v] \cup {c}
    BY <1>2, <2>1
  <2>4. CASE pc[c] = "affinity"
    <3>1. c \in cpu_affinity[v]
      BY <1>7, <2>4 DEF Gives
    <3>2. \A w \in Vms : assigned[w] \subseteq cpu_affinity[w] =>
                             assigned'[w] \subseteq cpu_affinity[w]
      BY <2>2, <2>3, <3>1
    <3>3. AffinityFirst'
      <4> SUFFICES ASSUME NEW w \in Vms
                   PROVE  \/ assigned'[w] \subseteq cpu_affinity[w]
                          \/ \A d \in cpu_affinity[w] :
                                 vm_id'[d] # None /\ d \in cpu_affinity[vm_id'[d]]
        BY <1>3 DEF AffinityFirst
      <4>1. assigned[w] \subseteq cpu_affinity[w] \/ Placed(w)
        BY <1>1 DEF AffinityFirst
      <4> QED
        BY <1>5, <3>2, <4>1
    <3>4. AffinityIsExact'
      BY <1>1, <1>3, <3>2 DEF AffinityIsExact, Exclusive
    <3> QED
      BY <3>3, <3>4
  <2>5. CASE pc[c] = "leftover"
    <3>1. \A d \in Cpus : pc[d] \in Looked
      BY <1>1, <2>5 DEF LoopsApart, Released, Looked, Labels
    <3>2. ncpus[v] < cpu_num[v] /\ ~ Full(v)
      BY <1>2, <1>7 DEF Gives, Full
    <3>3. Placed(v)
      <4> SUFFICES ASSUME NEW d \in cpu_affinity[v]
                   PROVE  vm_id[d] # None /\ d \in cpu_affinity[vm_id[d]]
        OBVIOUS
      <4>1. d \in Cpus
        BY <1>2
      <4>2. CASE pc[d] \in Released
        BY <1>1, <3>2, <4>1, <4>2 DEF Preferred
      <4>3. CASE pc[d] = "assigned"
        <5>1. "assigned" \notin Released
          BY DEF Released
        <5>2. vm_id[d] # None \/ idx[d] = vmlist_size
          BY <1>1, <4>1, <4>3 DEF Preferred, AffinityDone
        <5>3. CASE vm_id[d] # None
          BY <1>1, <4>1, <4>3, <5>1, <5>3 DEF Preferred
        <5>4. CASE idx[d] = vmlist_size
          <6>1. v < idx[d]
            BY <5>4, VmmAssumption DEF Vms
          <6> QED
            BY <1>1, <3>2, <4>1, <4>3, <5>1, <6>1 DEF Preferred
        <5> QED
          BY <5>2, <5>3, <5>4
      <4> QED
        BY <3>1, <4>1, <4>2, <4>3 DEF Released
    <3>4. AffinityFirst'
      <4> SUFFICES ASSUME NEW w \in Vms
                   PROVE  \/ assigned'[w] \subseteq cpu_affinity[w]
                          \/ \A d \in cpu_affinity[w] :
                                 vm_id'[d] # None /\ d \in cpu_affinity[vm_id'[d]]
        BY <1>3 DEF AffinityFirst
      <4>1. CASE w = v
        BY <1>5, <3>3, <4>1
      <4>2. CASE w # v
        <5>1. assigned[w] \subseteq cpu_affinity[w] \/ Placed(w)
          BY <1>1 DEF AffinityFirst
        <5> QED
          BY <1>5, <2>2, <4>2, <5>1
      <4> QED
        BY <4>1, <4>2
    <3>5. AffinityIsExact'
      <4> SUFFICES ASSUME Exclusive, NEW w \in Vms,
                          Cardinality(cpu_affinity[w]) >= cpu_num[w]
                   PROVE  assigned'[w] \subseteq cpu_affinity[w]
        BY <1>3 DEF AffinityIsExact, Exclusive
      <4>1. assigned[w] \subseteq cpu_affinity[w]
        BY <1>1 DEF AffinityIsExact
      <4>2. w # v
        <5> SUFFICES ASSUME w = v PROVE FALSE
          OBVIOUS
        <5>1. cpu_affinity[v] \subseteq assigned[v]
          <6> SUFFICES ASSUME NEW d \in cpu_affinity[v] PROVE d \in assigned[v]
            OBVIOUS
          <6>1. d \in Cpus /\ vm_id[d] \in Vms /\ d \in cpu_affinity[vm_id[d]]
            BY <1>2, <3>3
          <6>2. vm_id[d] = v
            BY <6>1 DEF Exclusive
          <6> QED
            BY <1>2, <6>1, <6>2
        <5>2. Cardinality(cpu_affinity[v]) <= Cardinality(assigned[v])
              /\ Cardinality(assigned[v]) \in Nat
          <6>1. assigned[v] \in SUBSET Cpus /\ cpu_affinity[v] \in SUBSET assigned[v]
            BY <1>2, <5>1
          <6> QED
            BY <6>1, CountCpus
        <5>3. Cardinality(cpu_affinity[v]) \in Nat
          <6>1. cpu_affinity[v] \in SUBSET Cpus
            BY <1>2
          <6> QED
            BY <6>1, CountCpus
        <5> QED
          BY <1>2, <3>2, <5>2, <5>3
      <4> QED
        BY <2>2, <4>1, <4>2
    <3> QED
      BY <3>4, <3>5
  <2> QED
    BY <1>7, <2>4, <2>5 DEF Gives
<1> QED
  BY <1>1, <1>6, <1>7, GivesOrNot

\* Every step keeps the places right.
LEMMA PlaceNext == PlaceInv /\ [Next]_vars => PlaceInv'
<1> SUFFICES ASSUME PlaceInv, [Next]_vars PROVE PlaceInv'
  OBVIOUS
<1>1. BarrierInv'
  BY BarrierNext DEF PlaceInv
<1>2. CASE UNCHANGED vars
  BY <1>1, <1>2 DEF PlaceInv, vars, Preferred, LoopsApart, LeftoverInv, AffinityFirst,
                    AffinityIsExact, Exclusive, AffinityDone, Full
<1>3. ASSUME NEW c \in Cpus, Step(c) PROVE PlaceInv'
  BY <1>1, <1>3, PreferredNext, LoopsNext, LeftoverNext, AffinityNext DEF PlaceInv
<1> QED
  BY <1>2, <1>3 DEF Next

\* For every platform, every list of VMs and every affinity, however the cores
\* race through vmm_assign_vcpu: exclusive affinities are honoured exactly, the
\* cores that are left come last, and no core idles while a VM lacks one.
THEOREM PlacesAreRight == Spec => []PlacesGivenRight
<1>1. PlaceInv => PlacesGivenRight
  <2> SUFFICES ASSUME PlaceInv PROVE NoCoreWasted
    BY DEF PlaceInv, PlacesGivenRight
  <2> QED
    BY DEF PlaceInv, LeftoverInv, NoCoreWasted, Full
<1> QED
  BY <1>1, PlaceInit, PlaceNext, PTL DEF Spec

-----------------------------------------------------------------------------
(* The bring-up of a VM. *)

\* The labels with arrivals at vm->sync.
LEMMA StageLabels ==
  ASSUME NEW l \in Labels
  PROVE  /\ VmStage(l) \in Nat
         /\ VmStage(l) >= 1 => l \in Entered /\ l \in InVm
         /\ VmStage(l) >= 5 => l \in {"run", "guest", "stopped"} /\ l \in Built
         /\ l \in Built => l \in Counts
         /\ l \in Counts => l \in Entered /\ VmStage(l) >= 1
         /\ l \in Entered => l \in InVm
BY DEF VmStage, Entered, InVm, Released, Looked, Labels, Counts, Built

\* In the initial state nothing is brought up.
LEMMA BootInit == Init => BootInv
<1> SUFFICES ASSUME Init PROVE BootInv
  OBVIOUS
<1>1. BarrierInv
  BY BarrierInit
<1>2. \A c \in Cpus : pc[c] = "vmm_init" /\ vcpu[c] = None
  BY DEF Init
<1>3. vcpu \in [Cpus -> Nat \cup {None}] /\ \A v \in Vms : cpus[v] = {}
  BY DEF Init
<1>4. "vmm_init" \notin Entered /\ "vmm_init" \notin Counts /\ "vmm_init" \notin Built
  BY DEF Entered, Counts, Built, InVm, Released, Looked
<1>5. BringUp
  BY <1>2, <1>3, <1>4 DEF BringUp
<1> QED
  BY <1>1, <1>3, <1>5 DEF BootInv

\* No core goes back behind a barrier.
LEMMA StageGrows ==
  ASSUME BarrierInv, NEW c \in Cpus, Step(c)
  PROVE  VmStage(pc'[c]) >= VmStage(pc[c])
<1>1. pc \in [Cpus -> Labels]
  BY DEF BarrierInv, BootTypes
<1>2. CASE vmm_init(c) \/ AffinityBarrier(c) \/ AssignByAffinity(c) \/ AssignLeftover(c)
           \/ StartLeftover(c) \/ AssignReturns(c)
  <2>1. VmStage(pc[c]) = 0
    BY <1>2 DEF vmm_init, AffinityBarrier, AssignByAffinity, AssignLeftover,
                StartLeftover, AssignReturns, VmStage
  <2>2. VmStage(pc'[c]) \in Nat
    BY DEF VmStage
  <2> QED
    BY <2>1, <2>2
<1>3. CASE vmm_alloc_install_vm(c) \/ vm_master_init(c) \/ vm_cpu_init(c)
  <2>1. VmStage(pc[c]) = 0
    BY <1>3 DEF vmm_alloc_install_vm, vm_master_init, vm_cpu_init, VmStage
  <2>2. VmStage(pc'[c]) \in Nat
    BY DEF VmStage
  <2> QED
    BY <2>1, <2>2
<1>4. CASE vm_vcpu_init(c)
  BY <1>1, <1>4 DEF vm_vcpu_init, Goto, VmStage
<1>5. CASE VmInitMemory(c)
  BY <1>1, <1>5 DEF VmInitMemory, Goto, VmStage
<1>6. CASE vcpu_run(c)
  <2>1. pc[c] = "run" /\ pc'[c] \in {"guest", "stopped"}
    BY <1>1, <1>6 DEF vcpu_run, Goto
  <2> QED
    BY <2>1 DEF VmStage
<1>7. ASSUME NEW from, NEW to, VmBarrier(c, from, to) \/ NextBarrier(c, from, to)
      PROVE  pc[c] = from /\ pc'[c] = to
  BY <1>1, <1>7 DEF VmBarrier, NextBarrier, Arrive, Goto
<1>8. CASE VmBarrier(c, "cpus_barrier", "vcpu_init")
           \/ VmBarrier(c, "vcpus_barrier", "arch_init")
           \/ VmBarrier(c, "init_barrier", "clear_msgs")
           \/ NextBarrier(c, "clear_msgs", "init_done")
           \/ NextBarrier(c, "init_done", "run")
  BY <1>7, <1>8 DEF VmStage
<1> QED
  BY <1>2, <1>3, <1>4, <1>5, <1>6, <1>8 DEF Step

\* A complete VM stays complete, with the same cores, and none goes back.
LEMMA TogetherStays ==
  ASSUME BarrierInv, NEW c \in Cpus, Step(c), NEW v \in Vms, NEW k \in Nat,
         Together(v, k)
  PROVE  assigned'[v] = assigned[v] /\ Together(v, k)'
<1>1. /\ assigned \in [Vms -> SUBSET Cpus] /\ ncpus \in [Vms -> Nat]
      /\ cpu_num \in [Vms -> Nat \ {0}] /\ pc \in [Cpus -> Labels]
  BY DEF BarrierInv, AssignIInv, AssignTypes, BootTypes
<1>2. Full(v)'
  BY PlacesKept DEF Together
<1>3. assigned'[v] = assigned[v]
  <2>1. ASSUME NEW w \in Vms, Gives(c, w) PROVE assigned'[v] = assigned[v]
    <3>1. w # v
      BY <1>1, <2>1 DEF Gives, Together, Full
    <3> QED
      BY <1>1, <2>1, <3>1 DEF Gives, GiveCore
  <2>2. CASE UNCHANGED <<assign, vm_id>>
    BY <2>2 DEF assign
  <2> QED
    BY <2>1, <2>2, GivesOrNot
<1>4. ASSUME NEW d \in assigned[v] PROVE VmStage(pc'[d]) >= k
  <2>1. d \in Cpus /\ VmStage(pc[d]) >= k
    BY <1>1 DEF Together
  <2>2. VmStage(pc[d]) \in Nat /\ VmStage(pc'[d]) \in Nat
    BY DEF VmStage
  <2>3. VmStage(pc'[d]) >= VmStage(pc[d])
    <3>1. CASE d = c
      BY <3>1, StageGrows
    <3>2. CASE d # c
      BY <2>1, <2>2, <3>2, OthersStay
    <3> QED
      BY <3>1, <3>2
  <2> QED
    BY <2>1, <2>2, <2>3
<1> QED
  BY <1>2, <1>3, <1>4 DEF Together

\* When a core of a VM has waited for a barrier on vm->sync, the VM is complete and
\* all its cores have arrived there.
LEMMA WaitedTogether ==
  ASSUME BarrierInv, NEW c \in Cpus, pc[c] \in VmWaits, Waited(c, vm_id[c])
  PROVE  vm_id[c] \in Vms /\ Together(vm_id[c], VmStage(pc[c]))
<1>1. /\ vm_id[c] \in Vms \cup {None} /\ pc[c] \in Labels
      /\ pc[c] \in InVm => vm_id[c] # None
  BY DEF BarrierInv, AssignIInv, AssignTypes, BootTypes
<1>2. vm_id[c] \in Vms /\ vm_id[c] # None
  BY <1>1 DEF VmWaits, InVm, Released, Looked
<1>3. PICK v \in Vms : v = vm_id[c] /\ v # None
  BY <1>2
<1>4. /\ Cardinality(Members(v)) = Size(v)
      /\ \A d \in Members(v) : Stages(v)[d] >= Stages(v)[c]
  BY <1>3, HasWaited
<1>5. Members(v) = assigned[v] /\ Size(v) = cpu_num[v]
  BY <1>3 DEF Members, Size
<1>6. ncpus[v] = Cardinality(assigned[v]) /\ assigned[v] = {d \in Cpus : vm_id[d] = v}
  BY DEF BarrierInv, AssignIInv, AssignmentInv
<1>7. \A d \in assigned[v] : Stages(v)[d] = VmStage(pc[d])
  BY <1>3, <1>6 DEF Stages, StageAt
<1>8. Stages(v)[c] = VmStage(pc[c])
  BY <1>3 DEF Stages, StageAt
<1>9. \A d \in assigned[v] : VmStage(pc[d]) >= VmStage(pc[c])
  BY <1>4, <1>5, <1>7, <1>8
<1>10. Full(v)
  BY <1>4, <1>5, <1>6 DEF Full
<1> QED
  BY <1>3, <1>9, <1>10 DEF Together

\* Every step keeps the bring-up right.
LEMMA BringUpStep ==
  ASSUME BootInv, NEW c \in Cpus, Step(c)
  PROVE  vcpu' \in [Cpus -> Nat \cup {None}] /\ BringUp'
<1>1. BarrierInv /\ vcpu \in [Cpus -> Nat \cup {None}] /\ BringUp
  BY DEF BootInv
<1>2. /\ pc \in [Cpus -> Labels] /\ vm_id \in [Cpus -> Vms \cup {None}]
      /\ cpus \in [Vms -> SUBSET Cpus] /\ mapped \in [Vms -> BOOLEAN]
      /\ assigned \in [Vms -> SUBSET Cpus]
      /\ \A d \in Cpus : pc[d] \in InVm => vm_id[d] # None
      /\ \A v \in Vms : assigned[v] = {d \in Cpus : vm_id[d] = v}
  BY <1>1 DEF BarrierInv, AssignIInv, AssignTypes, BootTypes, AssignmentInv
<1>3. \A d \in Cpus : d # c => /\ pc'[d] = pc[d] /\ vm_id'[d] = vm_id[d]
                               /\ master'[d] = master[d]
  BY <1>1, OthersStay
<1>4. \A d \in Cpus : vm_id[d] # None => vm_id'[d] = vm_id[d]
  BY <1>1, PlacesKept
<1>5. \A v \in Vms, k \in {1, 5} :
         Together(v, k) => assigned'[v] = assigned[v] /\ Together(v, k)'
  BY <1>1, TogetherStays
<1>6. \A d \in Cpus : pc[d] \in Entered => vm_id[d] \in Vms
  BY <1>2, StageLabels
<1>7. \A d \in Cpus : pc[d] \in Counts => pc[d] \in Entered
  BY <1>2, StageLabels
<1>8. \A d \in Cpus : pc[d] \in Built => pc[d] \in Entered
  BY <1>2, StageLabels
<1>9. \A d \in Cpus : pc[d] \in {"guest", "stopped"} => pc[d] \in Counts
  BY DEF Counts, Entered, InVm, Released, Looked, Labels
\* What BringUp says of a core.
<1> DEFINE
      P(d) ==
        /\ \A v \in Vms : d \in cpus[v] => vm_id[d] = v
        /\ pc[d] \in Entered => d \in cpus[vm_id[d]]
        /\ pc[d] \notin Counts => vcpu[d] = None
        /\ pc[d] \in Counts =>
              /\ Together(vm_id[d], 1)
              /\ vcpu[d] = Cardinality({e \in assigned[vm_id[d]] : e < d})
        /\ pc[d] \in Built /\ master[d] => mapped[vm_id[d]]
        /\ pc[d] \in {"guest", "stopped"} => Together(vm_id[d], 5)
        /\ pc[d] = "guest" => vcpu[d] = 0
<1>10. \A d \in Cpus : P(d)
  BY <1>1 DEF BringUp
<1>c. \A d \in Cpus, v \in Vms : d \in cpus[v] => vm_id[d] = v
  BY <1>1 DEF BringUp
\* A core that stays where it is, while vm->cpus gains at most the core c and
\* address spaces are only built.
<1>11. ASSUME NEW d \in Cpus, pc'[d] = pc[d], vm_id[d] # None => master'[d] = master[d],
              vcpu'[d] = vcpu[d],
              \A v \in Vms : d \in cpus'[v] <=> d \in cpus[v],
              \A v \in Vms : mapped[v] => mapped'[v]
       PROVE  P(d)'
  <2>1. \A v \in Vms : d \in cpus'[v] => vm_id'[d] = v
    <3>1. \A v \in Vms : v # None
      BY VmmAssumption DEF Vms
    <3> QED
      BY <1>4, <1>c, <1>11, <3>1
  <2>2. pc[d] \in Entered => /\ vm_id[d] \in Vms /\ vm_id'[d] = vm_id[d]
                             /\ master'[d] = master[d]
    <3>1. pc[d] \in Entered => vm_id[d] # None
      BY <1>2, StageLabels
    <3> QED
      BY <1>4, <1>6, <1>11, <3>1
  <2>3. pc[d] \in Entered => d \in cpus'[vm_id'[d]]
    BY <1>10, <1>11, <2>2
  <2>4. pc[d] \in Counts => /\ Together(vm_id[d], 1)' /\ vm_id'[d] = vm_id[d]
                            /\ vcpu[d] = Cardinality({e \in assigned'[vm_id[d]] : e < d})
    BY <1>5, <1>7, <1>10, <2>2
  <2>5. pc[d] \in Built /\ master'[d] => mapped'[vm_id'[d]]
    BY <1>8, <1>10, <1>11, <2>2
  <2>6. pc[d] \in {"guest", "stopped"} => Together(vm_id[d], 5)'
    BY <1>5, <1>7, <1>9, <1>10, <2>2
  <2> QED
    BY <1>7, <1>9, <1>10, <1>11, <2>1, <2>2, <2>3, <2>4, <2>5, <2>6 DEF Together
\* A core that goes on to a label l without entering itself, being numbered, or
\* building anything.
<1>12. ASSUME NEW l, pc'[c] = l, vcpu' = vcpu, cpus' = cpus, mapped' = mapped,
              vm_id'[c] = vm_id[c] \/ l \notin Entered,
              l \in Entered => pc[c] \in Entered,
              l \in Counts <=> pc[c] \in Counts,
              l \in Built => pc[c] \in Built /\ master'[c] = master[c],
              l \notin {"guest", "stopped"}
       PROVE  vcpu' \in [Cpus -> Nat \cup {None}] /\ \A d \in Cpus : P(d)'
  <2>1. ASSUME NEW d \in Cpus, d # c PROVE P(d)'
    BY <1>3, <1>11, <1>12, <2>1
  <2>2. P(c)'
    <3>1. \A v \in Vms : c \in cpus[v] => vm_id'[c] = v
      <4>1. \A v \in Vms : v # None
        BY VmmAssumption DEF Vms
      <4> QED
        BY <1>4, <1>c, <4>1
    <3>2. l \in Counts => /\ Together(vm_id[c], 1)' /\ l \in Entered
                          /\ vcpu[c] = Cardinality({e \in assigned'[vm_id[c]] : e < c})
      <4>1. l \in Counts => l \in Entered
        BY DEF Counts
      <4> QED
        BY <1>5, <1>6, <1>7, <1>10, <1>12, <4>1
    <3>3. l \in Built => l \in Entered
      BY DEF Built, Counts
    <3> QED
      BY <1>7, <1>8, <1>10, <1>12, <3>1, <3>2, <3>3 DEF Together
  <2> QED
    BY <1>1, <1>12, <2>1, <2>2
<1>13. vcpu' \in [Cpus -> Nat \cup {None}] /\ \A d \in Cpus : P(d)'
  <2> DEFINE Goal == vcpu' \in [Cpus -> Nat \cup {None}] /\ \A d \in Cpus : P(d)'
  <2>l. /\ {"vmm_init", "affinity", "assigned", "leftover", "alloc", "idle",
            "master_init", "cpu_init"} \cap Entered = {}
        /\ {"cpus_barrier", "vcpu_init", "vcpus_barrier", "arch_init", "init_barrier",
            "clear_msgs", "init_done", "run", "guest", "stopped"} \subseteq Entered
        /\ {"cpus_barrier", "vcpu_init"} \cap Counts = {}
        /\ {"vcpus_barrier", "arch_init", "init_barrier", "clear_msgs", "init_done",
            "run", "guest", "stopped"} \subseteq Counts
        /\ {"vcpus_barrier", "arch_init"} \cap Built = {}
        /\ {"init_barrier", "clear_msgs", "init_done", "run", "guest", "stopped"}
              \subseteq Built
        /\ Counts \subseteq Entered /\ Built \subseteq Counts
    BY DEF Entered, Counts, Built, InVm, Released, Looked, Labels
  <2>1. CASE vmm_init(c) \/ AffinityBarrier(c) \/ AssignByAffinity(c)
             \/ AssignLeftover(c) \/ StartLeftover(c) \/ AssignReturns(c)
    <3>1. /\ vcpu' = vcpu /\ cpus' = cpus /\ mapped' = mapped
          /\ pc[c] \in {"vmm_init", "affinity", "assigned", "leftover"}
      BY <2>1 DEF vmm_init, AffinityBarrier, Arrive, AssignByAffinity, AssignLeftover,
                  StartLeftover, AssignReturns
    <3>2. pc'[c] \in {"affinity", "assigned", "leftover", "alloc", "idle"}
      BY <1>2, <2>1 DEF vmm_init, AffinityBarrier, Arrive, AssignByAffinity,
                        AssignLeftover, StartLeftover, AssignReturns, Goto
    <3>3. PICK l : pc'[c] = l
      OBVIOUS
    <3> QED
      BY <1>12, <2>l, <3>1, <3>2, <3>3
  <2>2. CASE vmm_alloc_install_vm(c) \/ vm_master_init(c)
    <3>1. /\ vcpu' = vcpu /\ cpus' = cpus /\ mapped' = mapped
          /\ pc[c] \in {"alloc", "master_init"}
      BY <2>2 DEF vmm_alloc_install_vm, vm_master_init
    <3>2. pc'[c] \in {"master_init", "cpu_init"}
      BY <1>2, <2>2 DEF vmm_alloc_install_vm, vm_master_init, Goto
    <3> QED
      BY <1>12, <2>l, <3>1, <3>2
  <2>3. CASE vm_cpu_init(c)
    <3>1. /\ pc[c] = "cpu_init" /\ pc'[c] = "cpus_barrier" /\ vcpu' = vcpu
          /\ mapped' = mapped /\ vm_id' = vm_id
          /\ cpus' = [cpus EXCEPT ![vm_id[c]] = @ \cup {c}]
      BY <1>2, <2>3 DEF vm_cpu_init, Goto, local
    <3>2. vm_id[c] \in Vms
      BY <1>2, <3>1 DEF InVm, Released, Looked, Labels
    <3>3. ASSUME NEW d \in Cpus, d # c PROVE P(d)'
      <4>1. \A v \in Vms : d \in cpus'[v] <=> d \in cpus[v]
        BY <1>2, <3>1, <3>2, <3>3
      <4> QED
        BY <1>3, <1>11, <3>1, <3>3, <4>1
    <3>4. P(c)'
      <4>1. \A v \in Vms : c \in cpus'[v] => vm_id[c] = v
        BY <1>2, <1>10, <3>1, <3>2
      <4>2. c \in cpus'[vm_id[c]]
        BY <1>2, <3>1, <3>2
      <4> QED
        BY <1>10, <2>l, <3>1, <4>1, <4>2
    <3> HIDE DEF P
    <3> QED
      BY <1>1, <3>1, <3>3, <3>4
  <2>4. CASE vm_vcpu_init(c)
    <3>1. /\ pc[c] = "vcpu_init" /\ pc'[c] = "vcpus_barrier" /\ Waited(c, vm_id[c])
          /\ vcpu' = [vcpu EXCEPT ![c] = vm_calc_vcpu_id(c)]
          /\ UNCHANGED <<cpus, mapped, vm_id, assigned>>
      BY <1>2, <2>4 DEF vm_vcpu_init, Goto, local, assign
    <3>2. VmStage(pc[c]) = 1 /\ pc[c] \in VmWaits
      BY <3>1 DEF VmStage, VmWaits
    <3>3. vm_id[c] \in Vms /\ Together(vm_id[c], 1)
      BY <1>1, <3>1, <3>2, WaitedTogether
    <3>4. PICK v \in Vms : v = vm_id[c]
      BY <3>3
    <3>5. cpus[v] = assigned[v]
      <4>1. cpus[v] \subseteq assigned[v]
        BY <1>2, <1>c
      <4>2. ASSUME NEW d \in assigned[v] PROVE d \in cpus[v]
        <5>1. d \in Cpus /\ vm_id[d] = v /\ VmStage(pc[d]) >= 1 /\ pc[d] \in Labels
          BY <1>2, <3>3, <3>4 DEF Together
        <5>2. pc[d] \in Entered
          BY <5>1, StageLabels
        <5> QED
          BY <1>10, <5>1, <5>2
      <4> QED
        BY <4>1, <4>2
    <3>6. vm_calc_vcpu_id(c) = Cardinality({e \in assigned[v] : e < c})
      BY <3>4, <3>5 DEF vm_calc_vcpu_id
    <3>7. Cardinality({e \in assigned[v] : e < c}) \in Nat
      <4>1. {e \in assigned[v] : e < c} \in SUBSET Cpus
        BY <1>2
      <4> QED
        BY <4>1, CountCpus
    <3>8. vcpu' \in [Cpus -> Nat \cup {None}]
      BY <1>1, <3>1, <3>6, <3>7
    <3>9. \A d \in Cpus : d # c => vcpu'[d] = vcpu[d]
      BY <1>1, <3>1
    <3>10. ASSUME NEW d \in Cpus, d # c PROVE P(d)'
      BY <1>3, <1>11, <3>1, <3>9, <3>10
    <3>11. P(c)'
      <4>1. vcpu'[c] = Cardinality({e \in assigned'[vm_id'[c]] : e < c})
        BY <1>1, <3>1, <3>4, <3>6
      <4>2. Together(vm_id[c], 1)' /\ vm_id'[c] = vm_id[c]
        BY <1>5, <3>1, <3>3 DEF Together
      <4>3. \A v2 \in Vms : c \in cpus'[v2] => vm_id'[c] = v2
        BY <1>10, <3>1
      <4>4. c \in cpus'[vm_id'[c]]
        BY <1>10, <2>l, <3>1
      <4>5. pc'[c] \in Counts /\ pc'[c] \notin Built /\ pc'[c] \notin {"guest", "stopped"}
        BY <2>l, <3>1
      <4> QED
        BY <4>1, <4>2, <4>3, <4>4, <4>5
    <3> HIDE DEF P
    <3> QED
      BY <3>8, <3>10, <3>11
  <2>5. CASE VmInitMemory(c)
    <3>1. /\ pc[c] = "arch_init" /\ pc'[c] = "init_barrier" /\ vcpu' = vcpu
          /\ UNCHANGED <<cpus, vm_id, master, assigned>>
          /\ mapped' = IF master[c] THEN [mapped EXCEPT ![vm_id[c]] = TRUE] ELSE mapped
      BY <1>2, <2>5 DEF VmInitMemory, Goto, local, assign
    <3>2. vm_id[c] \in Vms
      BY <1>6, <2>l, <3>1
    <3>3. \A v \in Vms : mapped[v] => mapped'[v]
      BY <1>2, <3>1, <3>2
    <3>4. master'[c] => mapped'[vm_id'[c]]
      BY <1>2, <3>1, <3>2
    <3>5. ASSUME NEW d \in Cpus, d # c PROVE P(d)'
      BY <1>3, <1>11, <3>1, <3>3, <3>5
    <3>6. P(c)'
      <4>1. /\ Together(vm_id[c], 1)' /\ vm_id'[c] = vm_id[c]
            /\ vcpu[c] = Cardinality({e \in assigned'[vm_id[c]] : e < c})
        BY <1>5, <1>10, <2>l, <3>1, <3>2
      <4>2. /\ \A v2 \in Vms : c \in cpus'[v2] => vm_id'[c] = v2
            /\ c \in cpus'[vm_id'[c]]
        BY <1>10, <2>l, <3>1
      <4>3. pc'[c] \in Counts /\ pc'[c] \notin {"guest", "stopped"}
        BY <2>l, <3>1
      <4> QED
        BY <3>1, <3>4, <4>1, <4>2, <4>3 DEF Together
    <3> HIDE DEF P
    <3> QED
      BY <1>1, <3>1, <3>5, <3>6
  <2>6. CASE vcpu_run(c)
    <3>1. /\ pc[c] = "run" /\ Waited(c, vm_id[c])
          /\ pc'[c] \in {"guest", "stopped"} /\ (pc'[c] = "guest" => vcpu[c] = 0)
          /\ UNCHANGED <<cpus, mapped, vm_id, master, assigned, vcpu>>
      BY <1>2, <2>6 DEF vcpu_run, Goto, local, assign
    <3>2. VmStage(pc[c]) = 5 /\ pc[c] \in VmWaits
      BY <3>1 DEF VmStage, VmWaits
    <3>3. vm_id[c] \in Vms /\ Together(vm_id[c], 5)
      BY <1>1, <3>1, <3>2, WaitedTogether
    <3>4. ASSUME NEW d \in Cpus, d # c PROVE P(d)'
      BY <1>3, <1>11, <3>1, <3>4
    <3>5. P(c)'
      <4>1. /\ Together(vm_id[c], 1)' /\ Together(vm_id[c], 5)' /\ vm_id'[c] = vm_id[c]
            /\ vcpu[c] = Cardinality({e \in assigned'[vm_id[c]] : e < c})
        BY <1>5, <1>10, <2>l, <3>1, <3>3
      <4>2. /\ \A v2 \in Vms : c \in cpus'[v2] => vm_id'[c] = v2
            /\ c \in cpus'[vm_id'[c]]
        BY <1>10, <2>l, <3>1
      <4>3. pc'[c] \in Counts /\ (master[c] => mapped[vm_id[c]])
        BY <1>10, <2>l, <3>1
      <4> QED
        BY <3>1, <4>1, <4>2, <4>3 DEF Together
    <3> HIDE DEF P
    <3> QED
      BY <1>1, <3>1, <3>4, <3>5
  <2>7. ASSUME NEW from, NEW to, VmBarrier(c, from, to) \/ NextBarrier(c, from, to)
        PROVE  /\ pc[c] = from /\ pc'[c] = to
               /\ UNCHANGED <<cpus, mapped, vm_id, master, vcpu>>
    BY <1>2, <2>7 DEF VmBarrier, NextBarrier, Arrive, Goto, local
  <2>8. CASE VmBarrier(c, "cpus_barrier", "vcpu_init")
    BY <1>12, <2>7, <2>8, <2>l
  <2>9. CASE VmBarrier(c, "vcpus_barrier", "arch_init")
    BY <1>12, <2>7, <2>9, <2>l
  <2>10. CASE VmBarrier(c, "init_barrier", "clear_msgs")
    BY <1>12, <2>7, <2>10, <2>l
  <2>11. CASE NextBarrier(c, "clear_msgs", "init_done")
    BY <1>12, <2>7, <2>11, <2>l
  <2>12. CASE NextBarrier(c, "init_done", "run")
    BY <1>12, <2>7, <2>12, <2>l
  <2> QED
    BY <2>1, <2>2, <2>3, <2>4, <2>5, <2>6, <2>8, <2>9, <2>10, <2>11, <2>12 DEF Step
<1> QED
  BY <1>13 DEF BringUp

\* Every step keeps the barriers and the bring-up right.
LEMMA BootNext == BootInv /\ [Next]_vars => BootInv'
<1> SUFFICES ASSUME BootInv, [Next]_vars PROVE BootInv'
  OBVIOUS
<1>1. BarrierInv'
  BY BarrierNext DEF BootInv
<1>2. CASE UNCHANGED vars
  BY <1>1, <1>2 DEF BootInv, vars, BringUp, Together, Full
<1>3. ASSUME NEW c \in Cpus, Step(c) PROVE BootInv'
  BY <1>1, <1>3, BringUpStep DEF BootInv
<1> QED
  BY <1>2, <1>3 DEF Next

\* The cores of a VM below c, of which c is not one, are fewer than its cores, and
\* fewer than those below a later core of the VM.
LEMMA BelowCounts ==
  ASSUME NEW S \in SUBSET Cpus, NEW c \in S
  PROVE  /\ Cardinality({e \in S : e < c}) \in Nat
         /\ Cardinality({e \in S : e < c}) < Cardinality(S)
         /\ \A d \in S : c < d =>
               Cardinality({e \in S : e < c}) < Cardinality({e \in S : e < d})
<1> DEFINE B(d) == {e \in S : e < d}
<1>1. \A d \in Cpus : d \in Int
  BY VmmAssumption DEF Cpus
<1>2. c \notin B(c) /\ B(c) \in SUBSET S /\ B(c) \in SUBSET Cpus
  BY <1>1
<1>3. /\ Cardinality(B(c)) \in Nat /\ Cardinality(S) \in Nat
      /\ Cardinality(B(c)) <= Cardinality(S)
      /\ Cardinality(B(c)) = Cardinality(S) => B(c) = S
  BY <1>2, CountCpus
<1>4. Cardinality(B(c)) < Cardinality(S)
  <2>1. B(c) # S
    BY <1>2
  <2> HIDE DEF B
  <2> QED
    BY <1>3, <2>1
<1>5. ASSUME NEW d \in S, c < d
      PROVE  Cardinality(B(c)) < Cardinality(B(d))
  <2>1. B(d) \in SUBSET Cpus /\ B(c) \in SUBSET B(d) /\ c \in B(d) /\ B(c) # B(d)
    BY <1>1, <1>2, <1>5
  <2>2. /\ Cardinality(B(d)) \in Nat /\ Cardinality(B(c)) <= Cardinality(B(d))
        /\ Cardinality(B(c)) = Cardinality(B(d)) => B(c) = B(d)
    BY <2>1, CountCpus
  <2> HIDE DEF B
  <2> QED
    BY <1>3, <2>1, <2>2
<1> QED
  BY <1>3, <1>4, <1>5

\* What the invariant says about a core that has its vCPU.
LEMMA VcpuFacts ==
  ASSUME BootInv, NEW c \in Cpus, vcpu[c] # None
  PROVE  /\ vm_id[c] \in Vms /\ Full(vm_id[c])
         /\ c \in assigned[vm_id[c]] /\ assigned[vm_id[c]] \in SUBSET Cpus
         /\ vcpu[c] = Cardinality({d \in assigned[vm_id[c]] : d < c})
         /\ ncpus[vm_id[c]] = Cardinality(assigned[vm_id[c]])
<1>1. /\ pc[c] \in Labels /\ vm_id[c] \in Vms \cup {None}
      /\ pc[c] \in InVm => vm_id[c] # None
      /\ assigned \in [Vms -> SUBSET Cpus]
      /\ \A v \in Vms : /\ assigned[v] = {d \in Cpus : vm_id[d] = v}
                        /\ ncpus[v] = Cardinality(assigned[v])
  BY DEF BootInv, BarrierInv, BootTypes, AssignIInv, AssignTypes, AssignmentInv
<1>2. pc[c] \in Counts
  BY DEF BootInv, BringUp
<1>3. vm_id[c] \in Vms
  BY <1>1, <1>2, StageLabels
<1>4. /\ vcpu[c] = Cardinality({d \in assigned[vm_id[c]] : d < c})
      /\ Full(vm_id[c])
  BY <1>2 DEF BootInv, BringUp, Together
<1> QED
  BY <1>1, <1>3, <1>4

\* The vCPUs are numbered in the order of the cores.
LEMMA VcpusOrdered == BootInv => VcpusInOrder
<1> SUFFICES ASSUME BootInv, NEW c \in Cpus, NEW d \in Cpus, vcpu[c] # None,
                    vcpu[d] # None, vm_id[c] = vm_id[d], c < d
             PROVE  vcpu[c] < vcpu[d]
  BY DEF VcpusInOrder
<1>1. PICK S \in SUBSET Cpus :
         /\ c \in S /\ d \in S
         /\ vcpu[c] = Cardinality({e \in S : e < c})
         /\ vcpu[d] = Cardinality({e \in S : e < d})
  <2>1. PICK S : S = assigned[vm_id[c]]
    OBVIOUS
  <2> QED
    BY <2>1, VcpuFacts
<1> QED
  BY <1>1, BelowCounts

\* A vCPU id indexes vm->vcpus, and the other types.
LEMMA BootTypeOK == BootInv => TypeOK
<1> SUFFICES ASSUME BootInv PROVE TypeOK
  OBVIOUS
<1>1. ASSUME NEW c \in Cpus, vcpu[c] # None
      PROVE  vcpu[c] \in 0 .. cpu_num[vm_id[c]] - 1
  <2>1. /\ vm_id[c] \in Vms /\ Full(vm_id[c])
        /\ c \in assigned[vm_id[c]] /\ assigned[vm_id[c]] \in SUBSET Cpus
        /\ vcpu[c] = Cardinality({d \in assigned[vm_id[c]] : d < c})
        /\ ncpus[vm_id[c]] = Cardinality(assigned[vm_id[c]])
    BY <1>1, VcpuFacts
  <2>2. PICK S \in SUBSET Cpus : S = assigned[vm_id[c]]
    BY <2>1
  <2>3. vcpu[c] \in Nat /\ vcpu[c] < Cardinality(S)
    BY <2>1, <2>2, BelowCounts
  <2>4. Cardinality(S) = cpu_num[vm_id[c]] /\ cpu_num[vm_id[c]] \in Nat
    BY <2>1, <2>2 DEF Full, BootInv, BarrierInv, AssignIInv, AssignTypes
  <2> QED
    BY <2>3, <2>4
<1> QED
  BY <1>1 DEF TypeOK, BootInv, BarrierInv, BootTypes, AssignIInv, AssignTypes

\* For every platform, list of VMs and affinity, however the cores of a VM
\* interleave: a guest starts on one core only, with its address space there and
\* a vCPU on every core of the VM, numbered in the order of the cores and within
\* vm->vcpus.
THEOREM GuestsStartPrepared == Spec => []GuestStartsPrepared
<1>1. BootInv => GuestStartsPrepared
  <2> SUFFICES ASSUME BootInv, NEW c \in Cpus, pc[c] = "guest"
               PROVE  /\ mapped[vm_id[c]]
                      /\ ncpus[vm_id[c]] = cpu_num[vm_id[c]]
                      /\ \A d \in assigned[vm_id[c]] :
                             vcpu[d] # None /\ (d # c => pc[d] # "guest")
    BY VcpusOrdered, BootTypeOK DEF GuestStartsPrepared
  <2>1. vcpu[c] = 0 /\ Together(vm_id[c], 5)
    BY DEF BootInv, BringUp
  <2>2. vcpu[c] # None
    BY <2>1, VmmAssumption
  <2>3. /\ vm_id[c] \in Vms /\ Full(vm_id[c])
        /\ c \in assigned[vm_id[c]] /\ assigned[vm_id[c]] \in SUBSET Cpus
    BY <2>2, VcpuFacts
  <2>4. PICK v \in Vms : v = vm_id[c]
    BY <2>3
  <2>5. ASSUME NEW d \in assigned[v]
        PROVE  d \in Cpus /\ vm_id[d] = v /\ pc[d] \in Labels /\ VmStage(pc[d]) >= 5
    <3>1. assigned[v] = {e \in Cpus : vm_id[e] = v}
      BY DEF BootInv, BarrierInv, AssignIInv, AssignmentInv
    <3>2. pc \in [Cpus -> Labels]
      BY DEF BootInv, BarrierInv, BootTypes
    <3> QED
      BY <2>1, <2>4, <3>1, <3>2 DEF Together
  <2>6. ASSUME NEW d \in assigned[v] PROVE pc[d] \in Built /\ pc[d] \in Counts
    BY <2>5, StageLabels
  <2>7. ASSUME NEW d \in assigned[v] PROVE vcpu[d] # None
    <3>1. vcpu[d] = Cardinality({e \in assigned[vm_id[d]] : e < d})
      BY <2>5, <2>6 DEF BootInv, BringUp
    <3>2. {e \in assigned[vm_id[d]] : e < d} \in SUBSET Cpus
      BY <2>3, <2>4, <2>5
    <3>3. vcpu[d] \in Nat
      BY <3>1, <3>2, CountCpus
    <3> QED
      BY <3>3, VmmAssumption
  <2>8. ASSUME NEW d \in assigned[v], d # c, pc[d] = "guest" PROVE FALSE
    <3>1. vcpu[d] = 0
      BY <2>5, <2>8 DEF BootInv, BringUp
    <3>2. c \in Int /\ d \in Int
      BY <2>5, VmmAssumption DEF Cpus
    <3>3. c < d \/ d < c
      BY <2>8, <3>2
    <3>4. ~ (c < d) /\ ~ (d < c)
      BY <2>1, <2>2, <2>4, <2>5, <2>7, <3>1, VcpusOrdered DEF VcpusInOrder
    <3> QED
      BY <3>3, <3>4
  <2>9. mapped[v]
    <3>1. ncpus[v] \in Nat /\ cpu_num[v] \in Nat \ {0}
      BY DEF BootInv, BarrierInv, AssignIInv, AssignTypes
    <3>2. ncpus[v] > 0
      BY <2>3, <2>4, <3>1 DEF Full
    <3>3. PICK e \in assigned[v] : \A d \in assigned[v] : master[d] <=> d = e
      BY <3>2 DEF BootInv, BarrierInv, AssignIInv, AssignmentInv
    <3>4. master[e] /\ pc[e] \in Built /\ e \in Cpus /\ vm_id[e] = v
      BY <2>5, <2>6, <3>3
    <3> QED
      BY <3>4 DEF BootInv, BringUp
  <2> QED
    BY <2>3, <2>4, <2>7, <2>8, <2>9 DEF Full
<1> QED
  BY <1>1, BootInit, BootNext, PTL DEF Spec
=============================================================================
